\* An application thread that calls a connection it keeps, racing its loop.
CONSTANTS
    NumThreads = 1
    Peers = {p1}
    MaxConns = 1
    UserCalls = {"forceClose", "shutdown", "send", "startRead", "stopRead"}
    MaxUserCalls = 1
    CallbackCalls = {"startRead", "stopRead"}
    WriteCallback = FALSE
    KeepAfterDown = TRUE
    RepeatedCloses = TRUE
SPECIFICATION Spec
INVARIANTS EndsAreOrderly
CHECK_DEADLOCK FALSE
