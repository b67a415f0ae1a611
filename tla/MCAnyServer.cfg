\* A client with any server: the handshake, the four loops, a stream, a goroutine of
\* the application.
SPECIFICATION FairSpec
CONSTANTS
    Conns = {me}
    Me = me
    Callers = {c1}
    UniStreams = {}
    BidiStreams = {b1}
    ClientPaths <- SomePaths
    Controls <- SomeControls
    Responses <- SomeResponses
INVARIANTS
    ClientTypeOK
    OnCloseOnce
    TeardownComplete
    PanicsNeedAnEnd
PROPERTIES
    EndsWithItsConnection
\* The process may end, and so may every goroutine of the client.
CHECK_DEADLOCK FALSE
