\* A stream whose header comes after the handler's timeout.
SPECIFICATION Spec
CONSTANTS
    UniStreams = {u1}
    BidiStreams = {}
    Callers = {}
    Ids <- MCIds
    Consumed <- CounterConsumed
PROPERTIES
    ExpiredStreamIsGivenUp
\* The process may end, and so may every goroutine of the session.
CHECK_DEADLOCK FALSE
