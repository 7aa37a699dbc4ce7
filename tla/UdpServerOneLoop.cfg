\* No thread pool, two peers; anything may report the end of a connection twice.
CONSTANTS
    NumThreads = 0
    Peers = {p1, p2}
    MaxConns = 2
    UserCalls = {}
    MaxUserCalls = 0
    CallbackCalls = {"forceClose", "shutdown"}
    WriteCallback = TRUE
    KeepAfterDown = FALSE
    RepeatedCloses = TRUE
SPECIFICATION EndSpec
INVARIANTS NoDangling PeersAgree
PROPERTIES ClosedIsFinal
CHECK_DEADLOCK FALSE
