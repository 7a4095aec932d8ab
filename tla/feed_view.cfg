CONSTANTS
    alice = alice
    Clients <- MCClients
    OrderIds = {1, 2, 3}
    IdsOf <- AllIds
    Prices = {1, 2}
    BadPrices = {}
    Quantities = {1}
    PoolCapacity = 2
    NoSlot = NoSlot
    NoOrder = NoOrder
    NoLimit = NoLimit
    NoWatermark = NoWatermark
    StpEnabled = FALSE
    Policies = {"CancelResting"}
    SnapshotInterval = 2
    FeedCapacity = 2

SPECIFICATION FeedSpec

INVARIANTS
    ViewConsistent CaughtUpViewIsLive QueuedEqualsDirect
