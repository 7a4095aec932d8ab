CONSTANTS
    alice = alice
    bob = bob
    Clients <- MCClients
    OrderIds = {1, 2}
    IdsOf <- SharedIds
    Prices = {1, 2}
    BadPrices = {}
    Quantities = {1, 2}
    PoolCapacity = 3
    NoSlot = NoSlot
    NoOrder = NoOrder
    NoLimit = NoLimit
    NoWatermark = NoWatermark
    StpEnabled = TRUE
    Policies = {"RejectIncoming"}
SPECIFICATION Spec
INVARIANTS IndexAgreesWithLists
