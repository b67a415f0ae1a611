\* Every call of the transport, at any time, on sockets that report their end
\* once (WebSocket) or more often (WebTransportWS).
SPECIFICATION FairSpec
CONSTANTS
    Proxys = 1
    RetryCount = 2
    Interval = TRUE
    Timeout = TRUE
    ConnectOnClose = TRUE
    RefreshQueueOnClose = TRUE
    QueueMax = 1
    Calls <- AllCalls
    Reports = 2
    MaxChains = 3
    MaxTimers = 2
    MaxSends = 2
INVARIANTS
    TypeOK
    InOrder
    OpenHasItsSocket
PROPERTIES
    SecondConnectionNeedsADoor
    ClosingEnds
\* The bounds end the run, and so does a thread that hangs.
CHECK_DEADLOCK FALSE
