CONSTANTS
    alice = alice
    bob = bob
    Clients <- MCClients
    OrderIds = {1, 2, 3, 4}
    IdsOf <- OwnIds
    Prices = {1, 2}
    BadPrices = {0}
    Quantities = {0, 1, 2}
    PoolCapacity = 3
    NoSlot = NoSlot
    NoOrder = NoOrder
    NoLimit = NoLimit
    NoWatermark = NoWatermark
    StpEnabled = TRUE
    Policies = {"CancelResting"}
SPECIFICATION Spec
INVARIANTS
    BookUncrossed SlotsAccountedFor LevelsAreFifo LevelTotalsExact
    IndexAgreesWithLists
PROPERTIES PriceTimePriority
