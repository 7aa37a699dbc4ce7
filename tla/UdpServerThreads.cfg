\* Two pool threads, a peer that connects twice, one end reported for each connection.
CONSTANTS
    NumThreads = 2
    Peers = {p1}
    MaxConns = 2
    UserCalls = {}
    MaxUserCalls = 0
    CallbackCalls = {"forceClose", "shutdown"}
    WriteCallback = FALSE
    KeepAfterDown = FALSE
    RepeatedCloses = FALSE
SPECIFICATION Spec
INVARIANTS AssertsHold
CHECK_DEADLOCK FALSE
