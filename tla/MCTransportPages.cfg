\* The pages of example/: connect() and send() only, with options like theirs, on
\* sockets that report their end more than once (WebTransportWS).
SPECIFICATION FairSpec
CONSTANTS
    Proxys = 1
    RetryCount = 2
    Interval = TRUE
    Timeout = TRUE
    ConnectOnClose = TRUE
    RefreshQueueOnClose = FALSE
    QueueMax = 0
    Calls <- PageCalls
    Reports = 2
    MaxChains = 4
    MaxTimers = 0
    MaxSends = 3
INVARIANTS
    ConnectionsAreAccountedFor
PROPERTIES
    Settles
    QueueIsServed
\* The bound on chains ends the run.
CHECK_DEADLOCK FALSE
