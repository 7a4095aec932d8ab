SPECIFICATION FairSpec
CONSTANTS
    Peers = {1, 2}
    Fds = {1, 2}
    Units = {"cmd", "bad", "part", "huge"}
    MaxUnits = 2
    SendRoom = 1
    MaxWriteBuffer = 2
    InboundCapacity = 1
    NoPeer = NoPeer
    NoFd = NoFd
    NoConnection = NoConnection
INVARIANTS RoutingConsistent NoMisdelivery NothingStuck
PROPERTY OutputDrains
