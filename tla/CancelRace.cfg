\* A pool thread, and nothing but the connection's own life.
CONSTANTS
    NumThreads = 1
    Peers = {p1}
    MaxConns = 1
    UserCalls = {}
    MaxUserCalls = 0
    CallbackCalls = {}
    WriteCallback = FALSE
    KeepAfterDown = FALSE
    RepeatedCloses = FALSE
SPECIFICATION Spec
INVARIANTS NoDangling
CHECK_DEADLOCK FALSE
