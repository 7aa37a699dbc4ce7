------------------------------ MODULE TcpServer ------------------------------
(***************************************************************************)
(* TcpServer with its Acceptor and the io loops of its thread pool.  The     *)
(* server and the acceptor run on the base loop; each connection on the io    *)
(* loop it was given, here kept to its state_ and its place in connections_   *)
(* (TcpConnection has the rest).  The process has FdLimit file descriptors,    *)
(* which another thread of the program also opens and closes.                  *)
(***************************************************************************)
EXTENDS Integers, Sequences, FiniteSets, SequencesExt

CONSTANTS
    SrvLoops,        \* number of io loops, numThreads_
    MaxSrvConns,     \* bound: connections that peers make
    FdLimit, MaxOther, MaxOpens  \* descriptors; those and the opens of the other thread

ASSUME SrvAssumption == SrvLoops \in Nat \ {0} /\ FdLimit \in Nat \ {0}

ConnIds == 1..MaxSrvConns
IoIds == 0..SrvLoops - 1

VARIABLES
    server,          \* "built", "listening", "destroying" (joining), "gone"
    backlog,         \* connections the kernel has completed
    dialled,         \* connections that peers have begun
    idleFd,          \* idleFd_ >= 0
    accepting,       \* where Acceptor::handleRead is in its EMFILE branch
    others, opens,   \* descriptors of the other thread, and how many it opened
    stolen,          \* it opened one while the idle one was given up
    conns,           \* [state, loop] of each connection; "freed" at the end
    srvConnections,  \* connections_, the names still mapped
    srvNextConnId, srvNextLoop,
    baseQueue, ioQueue,  \* pendingFunctors_ of the loops
    ioPc,            \* "top", "events", "functors" or "returned"
    ioBatch,         \* the functors doPendingFunctors() swapped out
    ioQuit,          \* quit_
    srvFailed

srvVars == <<server, backlog, dialled, idleFd, accepting, others, opens, stolen, conns,
             srvConnections, srvNextConnId, srvNextLoop, baseQueue, ioQueue, ioPc, ioBatch,
             ioQuit, srvFailed>>

fdVars == <<backlog, dialled, idleFd, accepting, others, opens, stolen>>
poolVars == <<srvNextConnId, srvNextLoop>>

Live == {c \in ConnIds : conns[c].state \notin {"none", "freed"}}
FdsUsed == Cardinality(Live) + others + (IF idleFd THEN 1 ELSE 0)
             + (IF accepting = "accepted" THEN 1 ELSE 0)
FdLeft == FdsUsed < FdLimit
SrvGoing == srvFailed = "no" /\ server # "gone"

SrvInit ==
    /\ server = "built" /\ backlog = 0 /\ dialled = 0 /\ idleFd = TRUE
    /\ accepting = "no" /\ others = 0 /\ opens = 0 /\ stolen = FALSE
    /\ conns = [c \in ConnIds |-> [state |-> "none", loop |-> 0]]
    /\ srvConnections = {} /\ srvNextConnId = 1 /\ srvNextLoop = 0
    /\ baseQueue = << >> /\ ioQueue = [l \in IoIds |-> << >>]
    /\ ioPc = [l \in IoIds |-> "none"] /\ ioBatch = [l \in IoIds |-> << >>]
    /\ ioQuit = [l \in IoIds |-> FALSE] /\ srvFailed = "no"

(* start() on the base loop: the pool's threads start looping, then listen(). *)
srvStart ==
    /\ SrvGoing /\ server = "built"
    /\ server' = "listening"
    /\ ioPc' = [l \in IoIds |-> "top"]
    /\ UNCHANGED <<fdVars, conns, srvConnections, poolVars, baseQueue, ioQueue, ioBatch,
                   ioQuit, srvFailed>>

PeerConnects ==
    /\ server = "listening" /\ dialled < MaxSrvConns
    /\ dialled' = dialled + 1
    /\ backlog' = backlog + 1
    /\ UNCHANGED <<server, idleFd, accepting, others, opens, stolen, conns, srvConnections,
                   poolVars, baseQueue, ioQueue, ioPc, ioBatch, ioQuit, srvFailed>>

(* The other thread. *)
OtherOpens ==
    /\ FdLeft /\ others < MaxOther /\ opens < MaxOpens
    /\ others' = others + 1
    /\ opens' = opens + 1
    /\ stolen' = (stolen \/ accepting # "no")
    /\ UNCHANGED <<server, backlog, dialled, idleFd, accepting, conns, srvConnections,
                   poolVars, baseQueue, ioQueue, ioPc, ioBatch, ioQuit, srvFailed>>

OtherCloses ==
    /\ others > 0
    /\ others' = others - 1
    /\ UNCHANGED <<server, backlog, dialled, idleFd, accepting, opens, stolen, conns,
                   srvConnections, poolVars, baseQueue, ioQueue, ioPc, ioBatch, ioQuit,
                   srvFailed>>

(* getNextLoop: round-robin. *)
getNextLoop == (srvNextLoop + 1) % SrvLoops

(* handleRead, accept() succeeds: newConnection. *)
newConnection ==
    /\ SrvGoing /\ server = "listening" /\ accepting = "no" /\ backlog > 0 /\ FdLeft
    /\ backlog' = backlog - 1
    /\ conns' = [conns EXCEPT ![srvNextConnId] = [state |-> "kConnecting", loop |-> srvNextLoop]]
    /\ srvConnections' = srvConnections \union {srvNextConnId}
    /\ srvNextConnId' = srvNextConnId + 1
    /\ srvNextLoop' = getNextLoop
    /\ ioQueue' = [ioQueue EXCEPT ![srvNextLoop] =
                       Append(@, <<"connectEstablished", srvNextConnId>>)]
    /\ UNCHANGED <<server, dialled, idleFd, accepting, others, opens, stolen, baseQueue,
                   ioPc, ioBatch, ioQuit, srvFailed>>

\* Broken variant: only logs the failure.
CloseIdleNot ==
    /\ accepting = "no" /\ backlog > 0 /\ ~FdLeft
    /\ UNCHANGED <<idleFd, accepting, backlog>>

(* handleRead, accept() fails with EMFILE: close the idle descriptor, ... *)
CloseIdle ==
    /\ accepting = "no" /\ backlog > 0 /\ ~FdLeft
    /\ idleFd' = FALSE
    /\ accepting' = "closed"
    /\ UNCHANGED backlog

(* ... accept with the freed one, if it is still free, ... *)
AcceptIdle ==
    /\ accepting = "closed"
    /\ IF FdLeft THEN backlog' = backlog - 1 /\ accepting' = "accepted"
       ELSE UNCHANGED backlog /\ accepting' = "reopen"
    /\ UNCHANGED idleFd

(* ... close that connection, ... *)
CloseAccepted ==
    /\ accepting = "accepted"
    /\ accepting' = "reopen"
    /\ UNCHANGED <<backlog, idleFd>>

\* Broken variant: does not open the idle descriptor again.
ReopenIdleNot ==
    /\ accepting = "reopen"
    /\ accepting' = "no"
    /\ UNCHANGED <<backlog, idleFd>>

(* ... and open the idle descriptor again. *)
ReopenIdle ==
    /\ accepting = "reopen"
    /\ idleFd' = FdLeft
    /\ accepting' = "no"
    /\ UNCHANGED backlog

AcceptFails ==
    /\ SrvGoing /\ server = "listening"
    /\ CloseIdle \/ AcceptIdle \/ CloseAccepted \/ ReopenIdle
    /\ UNCHANGED <<server, dialled, others, opens, stolen, conns, srvConnections, poolVars,
                   baseQueue, ioQueue, ioPc, ioBatch, ioQuit, srvFailed>>

\* Broken variant: does not erase the name.
removeConnectionUnerased ==
    /\ srvFailed = "no" /\ server \in {"listening", "gone"} /\ accepting = "no"
    /\ baseQueue # << >>
    /\ ioQueue' = [ioQueue EXCEPT ![conns[Head(baseQueue)].loop] =
                       Append(@, <<"connectDestroyed", Head(baseQueue)>>)]
    /\ baseQueue' = Tail(baseQueue)
    /\ UNCHANGED <<server, fdVars, conns, srvConnections, poolVars, ioPc, ioBatch, ioQuit,
                   srvFailed>>

\* Broken variant: forgets to queue connectDestroyed().
removeConnectionOnly ==
    /\ srvFailed = "no" /\ server \in {"listening", "gone"} /\ accepting = "no"
    /\ baseQueue # << >>
    /\ srvConnections' = srvConnections \ {Head(baseQueue)}
    /\ baseQueue' = Tail(baseQueue)
    /\ UNCHANGED <<server, fdVars, conns, poolVars, ioQueue, ioPc, ioBatch, ioQuit,
                   srvFailed>>

(* removeConnectionInLoop on the base loop, bound to the server. *)
removeConnectionInLoop ==
    /\ srvFailed = "no" /\ server \in {"listening", "gone"} /\ accepting = "no"
    /\ baseQueue # << >>
    /\ LET c == Head(baseQueue)
       IN  /\ srvConnections' = srvConnections \ {c}
           /\ srvFailed' = IF server = "gone" THEN "dangling"
                           ELSE IF c \in srvConnections THEN "no" ELSE "erase"
           /\ ioQueue' = [ioQueue EXCEPT ![conns[c].loop] =
                              Append(@, <<"connectDestroyed", c>>)]
    /\ baseQueue' = Tail(baseQueue)
    /\ UNCHANGED <<server, fdVars, conns, poolVars, ioPc, ioBatch, ioQuit>>

(* ~TcpServer on the base loop; then the pool's ~EventLoopThread quit and join. *)
destroyServer ==
    /\ SrvGoing /\ server = "listening" /\ accepting = "no"
    /\ server' = "destroying"
    /\ srvConnections' = {}
    /\ ioQueue' = [l \in IoIds |->
           LET mine == SetToSortSeq({c \in srvConnections : conns[c].loop = l}, <)
           IN  ioQueue[l] \o [i \in DOMAIN mine |-> <<"connectDestroyed", mine[i]>>]]
    /\ UNCHANGED <<fdVars, conns, poolVars, baseQueue, ioPc, ioBatch, ioQuit, srvFailed>>

quitLoop(l) ==
    /\ server = "destroying" /\ ~ioQuit[l]
    /\ \A k \in IoIds : k < l => ioPc[k] = "returned"
    /\ ioQuit' = [ioQuit EXCEPT ![l] = TRUE]
    /\ UNCHANGED <<server, fdVars, conns, srvConnections, poolVars, baseQueue, ioQueue, ioPc,
                   ioBatch, srvFailed>>

joined ==
    /\ server = "destroying" /\ \A l \in IoIds : ioPc[l] = "returned"
    /\ server' = "gone"
    /\ UNCHANGED <<fdVars, conns, srvConnections, poolVars, baseQueue, ioQueue, ioPc, ioBatch,
                   ioQuit, srvFailed>>

-----------------------------------------------------------------------------
(* An io loop: loop()'s test of quit_, its handlers, doPendingFunctors(). *)

(* Functors queued between the last doPendingFunctors() and the test are lost    *)
(* when loop() returns: the connections they hold are destroyed in the poller.   *)
ioTop(l) ==
    /\ srvFailed = "no" /\ ioPc[l] = "top"
    /\ ioPc' = [ioPc EXCEPT ![l] = IF ioQuit[l] THEN "returned" ELSE "events"]
    /\ srvFailed' = IF ioQuit[l] /\ ioQueue[l] # << >> THEN "functorsLost" ELSE "no"
    /\ UNCHANGED <<server, fdVars, conns, srvConnections, poolVars, baseQueue, ioQueue,
                   ioBatch, ioQuit>>

\* Broken variant: the connection stays kConnected, so that it closes again.
ioCloseAgain(l) ==
    /\ srvFailed = "no" /\ ioPc[l] = "events" /\ Len(baseQueue) < 2
    /\ \E c \in ConnIds :
        /\ conns[c].state = "kConnected" /\ conns[c].loop = l
        /\ baseQueue' = Append(baseQueue, c)
    /\ UNCHANGED <<server, fdVars, conns, srvConnections, poolVars, ioQueue, ioPc, ioBatch,
                   ioQuit, srvFailed>>

(* A connection's handleClose in this loop: closeCallback_ is removeConnection,  *)
(* bound to the server, which queues to the base loop.                           *)
ioClose(l) ==
    /\ srvFailed = "no" /\ ioPc[l] = "events"
    /\ \E c \in ConnIds :
        /\ conns[c].state = "kConnected" /\ conns[c].loop = l
        /\ conns' = [conns EXCEPT ![c].state = "kDisconnected"]
        /\ baseQueue' = Append(baseQueue, c)
    /\ UNCHANGED <<server, fdVars, srvConnections, poolVars, ioQueue, ioPc, ioBatch, ioQuit,
                   srvFailed>>

(* poll() returns: it was woken up, or something happened. *)
ioSwap(l) ==
    /\ srvFailed = "no" /\ ioPc[l] = "events"
    /\ ioQueue[l] # << >> \/ ioQuit[l]
    /\ ioPc' = [ioPc EXCEPT ![l] = "functors"]
    /\ ioBatch' = [ioBatch EXCEPT ![l] = ioQueue[l]]
    /\ ioQueue' = [ioQueue EXCEPT ![l] = << >>]
    /\ UNCHANGED <<server, fdVars, conns, srvConnections, poolVars, baseQueue, ioQuit,
                   srvFailed>>

(* connectEstablished, or connectDestroyed with the last reference. *)
ioRun(l) ==
    /\ srvFailed = "no" /\ ioPc[l] = "functors"
    /\ IF ioBatch[l] = << >>
       THEN ioPc' = [ioPc EXCEPT ![l] = "top"] /\ UNCHANGED <<conns, ioBatch, srvFailed>>
       ELSE LET f == Head(ioBatch[l]) IN
            /\ ioBatch' = [ioBatch EXCEPT ![l] = Tail(@)]
            /\ UNCHANGED ioPc
            /\ CASE f[1] = "connectEstablished" ->
                      /\ conns' = [conns EXCEPT ![f[2]].state = "kConnected"]
                      /\ srvFailed' = IF conns[f[2]].state = "kConnecting" THEN "no"
                                      ELSE "connectEstablished"
                 [] f[1] = "connectDestroyed" ->
                      /\ conns' = [conns EXCEPT ![f[2]].state = "freed"]
                      /\ srvFailed' = IF conns[f[2]].state \in {"kConnected", "kDisconnected"}
                                      THEN "no" ELSE "connectDestroyed"
    /\ UNCHANGED <<server, fdVars, srvConnections, poolVars, baseQueue, ioQueue, ioQuit>>

io(l) == ioTop(l) \/ ioSwap(l) \/ ioRun(l)

SrvNext ==
    \/ srvStart \/ PeerConnects \/ OtherOpens \/ OtherCloses \/ newConnection
    \/ AcceptFails \/ removeConnectionInLoop \/ destroyServer \/ joined
    \/ \E l \in IoIds : quitLoop(l) \/ ioClose(l) \/ io(l)

(* The loops run: poll() reports the readable acceptor, and functors are run. *)
SrvFairness ==
    /\ WF_srvVars(newConnection \/ AcceptFails)
    /\ SF_srvVars(removeConnectionInLoop) /\ WF_srvVars(joined)
    /\ \A l \in IoIds : WF_srvVars(io(l)) /\ WF_srvVars(quitLoop(l))

SrvSpec == SrvInit /\ [][SrvNext]_srvVars /\ SrvFairness

-----------------------------------------------------------------------------
(* The asserts of removeConnectionInLoop, connectEstablished and                *)
(* connectDestroyed hold whatever the loops' order; only destroying the server   *)
(* can lose a connectDestroyed() or run a removeConnectionInLoop() on it.        *)
SrvAssertsHold ==
    /\ srvFailed \in {"no", "functorsLost", "dangling"}
    /\ srvFailed # "no" => server \in {"destroying", "gone"}

(* A connection is mapped exactly from newConnection until its removal is run:   *)
(* no freed connection is mapped, and a connection that closed is mapped or has   *)
(* its connectDestroyed() on the way.                                             *)
MappedIsLive ==
    \A c \in ConnIds : srvFailed = "no" /\ server = "listening" =>
        /\ c \in srvConnections => c \in Live
        /\ c \in Live \ srvConnections =>
              \E i \in 1..Len(ioBatch[conns[c].loop] \o ioQueue[conns[c].loop]) :
                  (ioBatch[conns[c].loop] \o ioQueue[conns[c].loop])[i]
                      = <<"connectDestroyed", c>>

(* The idle descriptor is lost only if another thread opened a file between       *)
(* close(idleFd_) and the open() that restores it.                                 *)
IdleIsKept == accepting = "no" /\ ~idleFd => stolen

(* Descriptors exhausted or not, waiting connections are accepted or dropped:      *)
(* the acceptor does not stay readable for ever.                                    *)
BacklogDrains ==
    (backlog > 0) ~> (backlog = 0 \/ stolen \/ server # "listening")

(* A closed connection is removed from the map and destroyed in its own loop.       *)
SrvClosedIsFreed ==
    \A c \in ConnIds : (conns[c].state = "kDisconnected")
        ~> (conns[c].state = "freed" \/ server # "listening")

(* The server's map, the loops' queues and the descriptors agree: asserts hold, a  *)
(* connection is mapped or on its way out, and the idle descriptor is kept.         *)
SrvIsSound == SrvAssertsHold /\ MappedIsLive /\ IdleIsKept

(* Waiting peers are served or dropped, and closed connections are freed.           *)
SrvAnswers == BacklogDrains /\ SrvClosedIsFreed
=============================================================================
