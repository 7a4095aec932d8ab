CONSTANTS
    Clients = {c1}
    MaxFrames = 4
    InboundCapacity = 1
    OutboundCapacity = 2

SPECIFICATION FairSpec

PROPERTIES
    SpinEnds
