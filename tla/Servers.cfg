\* UDP server: one pool thread, two connections of one peer.  TCP server: two io
\* loops, two peers, three descriptors of which another thread may open one.  TCP
\* connection: one thread beside the loop, two messages, one other call.
CONSTANTS
    NumThreads = 1
    Peers = {p1}
    MaxConns = 2
    UserCalls = {}
    MaxUserCalls = 0
    CallbackCalls = {"forceClose"}
    WriteCallback = FALSE
    KeepAfterDown = FALSE
    RepeatedCloses = FALSE
    SrvLoops = 2
    MaxSrvConns = 2
    FdLimit = 3
    MaxOther = 1
    MaxOpens = 1
    OtherThreads = {"t"}
    MessageLength = 2
    highWaterMark = 3
    MaxSends = 2
    MaxCalls = 1
SPECIFICATION MCSpec
INVARIANTS SrvIsSound OutputIsKept SentIsNotLost TcpAssertsHold
PROPERTIES UdpServerAnswers  SrvAnswers TcpAnswers
CHECK_DEADLOCK FALSE
