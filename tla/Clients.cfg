\* UDP client: one connect(), with stop(), disconnect() and the destructor at any
\* point, through retries and reconnections.  TCP client: two connect() and a
\* stop().  Four loop threads.
CONSTANTS
    Retry = TRUE
    MaxConns = 2
    MaxConnects = 1
    MaxDisconnects = 1
    MaxStops = 2
    Destroys = TRUE
    TcpRetry = TRUE
    MaxTcpConns = 2
    MaxTcpConnects = 2
    MaxTcpStops = 1
    NumThreads = 4
SPECIFICATION MCSpec
INVARIANTS OneAttempt  ThreadsAreSound
PROPERTIES StopIsFinal ClientAnswers ConnectorIsSound DestroyReturns
CHECK_DEADLOCK FALSE
