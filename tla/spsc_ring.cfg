CONSTANTS
    Capacity = 2
    Items = {a, b}
    MovedFrom = MovedFrom
    MaxPush = 5
SPECIFICATION FairSpec
INVARIANTS RingInvariant NoSlotRace
PROPERTIES CheckedPushSucceeds ImplementsFifo EveryPushIsPopped
