CONSTANTS
    Clients = {alice}
    OrderIds = {1, 2}
    Prices = {1, 2}
    Quantities = {1, 2}
    PoolCapacity = 3
    NoSlot = NoSlot
    NoOrder = NoOrder
    Null = Null
    NoData = NoData
    NoLevel = NoLevel

SPECIFICATION Spec

INVARIANTS
    ListsDoublyLinked
PROPERTIES
    ImplementsBook
