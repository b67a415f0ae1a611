\* A client and another peer of one server.
SPECIFICATION FairSpec
CONSTANTS
    Conns = {me, other}
    Me = me
    Callers = {}
    UniStreams = {}
    BidiStreams = {}
    ClientPaths <- SomePaths
    ServerPaths <- EveryPath
    Requests <- SomeRequests
INVARIANTS
    ServerTypeOK
    BothEndsAgree
    HalfRequestsAreOver
PROPERTIES
    ConnectReturns
    OfferedIsTaken
\* Peers and processes may end.
CHECK_DEADLOCK FALSE
