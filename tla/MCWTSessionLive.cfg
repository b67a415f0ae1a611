\* Liveness of one server session whose application consumes unidirectional
\* streams: a stream, the four loops.
SPECIFICATION FairSpec
CONSTANTS
    UniStreams = {u1}
    BidiStreams = {}
    Callers = {}
    Ids <- JustZero
    Consumed <- CounterConsumed
PROPERTIES
    UnwindsAfterLoss
    OnCloseReported
\* The process may end, and so may every goroutine of the session.
CHECK_DEADLOCK FALSE
