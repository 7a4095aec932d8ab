CONSTANTS
    alice = alice
    bob = bob
    Clients <- MCClients
    OrderIds = {1, 2}
    IdsOf <- SharedIds
    Prices = {4, 5, 6}
    BadPrices = {}
    Quantities = {1, 2, 3}
    PoolCapacity = 2
    NoSlot = NoSlot
    NoOrder = NoOrder
    NoLimit = NoLimit
    NoWatermark = NoWatermark
    StpEnabled = TRUE
    Policies = {"RejectIncoming", "CancelResting"}
    BandNum = 1
    BandDen = 4
    InitialReference = 6
    MaxOrderQty = 2
    TickSize = 2
SPECIFICATION RiskSpec
INVARIANTS
    IndexNeverDangles SelfCrossExact RestFindsSlot
    ReferenceIsLastTrade RestingWithinLimits
PROPERTIES NoSelfTrade ImplementsLifecycle
