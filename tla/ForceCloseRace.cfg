\* forceClose() from an application thread, of a connection on a pool thread, and
\* one end reported by the session or the socket.
CONSTANTS
    NumThreads = 1
    Peers = {p1}
    MaxConns = 1
    UserCalls = {"forceClose"}
    MaxUserCalls = 1
    CallbackCalls = {}
    WriteCallback = FALSE
    KeepAfterDown = FALSE
    RepeatedCloses = FALSE
SPECIFICATION Spec
INVARIANTS RemoveFindsConnection
CHECK_DEADLOCK FALSE
