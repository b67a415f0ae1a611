\* A reconnection after a proxy had answered.
SPECIFICATION Spec
CONSTANTS
    Proxys = 1
    RetryCount = 2
    Interval = TRUE
    Timeout = TRUE
    ConnectOnClose = TRUE
    RefreshQueueOnClose = FALSE
    QueueMax = 0
    Calls <- PageCalls
    Reports = 1
    MaxChains = 3
    MaxTimers = 0
    MaxSends = 1
PROPERTIES
    PreferredFirst
\* The bound on chains ends the run.
CHECK_DEADLOCK FALSE
