\* Safety of one server session: a bidirectional stream, the four loops and one
\* goroutine of the application.
SPECIFICATION Spec
CONSTANTS
    UniStreams = {}
    BidiStreams = {b1}
    Callers = {c1}
    Ids <- JustZero
    Consumed <- RoomConsumed
INVARIANTS
    TypeOK
    OnCloseAtMostOnce
    TeardownComplete
PROPERTIES
    PanicsOnlyInWindows
    LateStreamsAreDropped
\* The process may end, and so may every goroutine of the session.
CHECK_DEADLOCK FALSE
