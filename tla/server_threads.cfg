CONSTANTS
    Clients = {c1, c2}
    MaxFrames = 2
    InboundCapacity = 1
    OutboundCapacity = 2

SPECIFICATION FairSpec

INVARIANTS
    EveryFrameAccounted
    ResponsesInOrder
    NoLostWakeup
PROPERTIES
    AllAnswered
    ShutdownCompletes
