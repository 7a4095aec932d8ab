CONSTANTS
    alice = alice
    Clients <- MCClients
    OrderIds = {1, 2, 3}
    IdsOf <- AllIds
    Prices = {1, 2}
    BadPrices = {}
    Quantities = {1, 2}
    PoolCapacity = 2
    NoSlot = NoSlot
    NoOrder = NoOrder
    NoLimit = NoLimit
    NoWatermark = NoWatermark
    StpEnabled = FALSE
    Policies = {"CancelResting"}
    SnapshotInterval = 100
    FeedCapacity = 1

SPECIFICATION FeedSpec

INVARIANTS
    NoPhantomBest
