\* price_band_pct 0.5 around 1000, as main.cpp has it around 10000.
SPECIFICATION RunnerSpec
CONSTANTS
    Clients = {0, 1, 2}
    Maker = 1
    Momentum = 2
    Other = 0
    Namespace = 60
    OrderIds <- RunnerIds
    Prices <- Around
    Quantities = {0, 1, 2, 3}
    PoolCapacity = 5
    NoSlot = NoSlot
    NoOrder = NoOrder
    StpEnabled = TRUE
    Policies = {"RejectIncoming"}
    IdsOf <- AnyIds
    BadPrices = {}
    NoLimit = NoLimit
    NoWatermark = NoWatermark
    BandNum = 1
    BandDen = 2
    InitialReference = 1000
    MaxOrderQty = 100
    TickSize = 1
    ReferencePrice = 1000
    Ticks = 6
    GuardLimit = 8
    Configs <- RunnerConfigs
    OtherOrders <- OthersOrders
INVARIANTS QuotesTracked SettledTwoSided CascadeSettles
