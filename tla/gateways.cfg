\* A byte has 16 values and an integer two bytes.
SPECIFICATION GatewaySpec
CONSTANTS
    Clients = {0, 1}
    OrderIds = {10, 18}
    Prices = {1, 2}
    Quantities = {0, 1, 2, 3}
    PoolCapacity = 2
    NoSlot = NoSlot
    NoOrder = NoOrder
    StpEnabled = FALSE
    Policies = {"RejectIncoming"}
    IdsOf <- OwnIds
    BadPrices <- Negative
    NoLimit = NoLimit
    NoWatermark = NoWatermark
    BandNum = 0
    BandDen = 1
    InitialReference = 1
    MaxOrderQty = 2
    TickSize = 1
    Base = 16
    Width = 2
    FrontEnds = {"text", "binary", "fix", "cli"}
    MaxReports = 3
    Commands <- Asked
    Spoiled <- SpoiledCommands
INVARIANTS ParsedAsMeant DamageNeverMisread RepliesReadBack
PROPERTIES ReportMatchesBook
CHECK_DEADLOCK FALSE
