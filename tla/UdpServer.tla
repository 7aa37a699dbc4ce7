----------------------------- MODULE UdpServer -----------------------------
(***************************************************************************)
(* UdpServer with its UdpAcceptor, the UdpConnector the acceptor makes for *)
(* each peer, and the UdpConnections, over the server's loop and the loops *)
(* of its thread pool.                                                     *)
(*                                                                         *)
(* Peers are addresses that InetAddress::operator< orders consistently, so *)
(* that the acceptor's std::map is a map; PeerMap.tla is about the others. *)
(***************************************************************************)
EXTENDS UdpConnection

CONSTANT Peers

VARIABLES
    listening,      \* listenning_: the accept channel is read
    nextConnId,     \* nextConnId_
    connections,    \* connections_, whose keys hold the connection's number
    connectors,     \* peerAddrToUdpConnectors_ and each connector's state_
    connectOn,      \* each connector's connect_
    retryTimers,    \* peers whose connector waits to call startInLoop() again
    eraseTimers     \* how many EraseConnector timers each peer has

serverVars == <<listening, nextConnId, connections, connectors, connectOn,
                retryTimers, eraseTimers>>
vars == <<loopVars, connVars, user, serverVars>>

Init ==
    /\ LoopsInit /\ ConnInit
    /\ listening = FALSE
    /\ nextConnId = 1
    /\ connections = {}
    /\ connectors = [p \in Peers |-> "absent"]
    /\ connectOn = [p \in Peers |-> FALSE]
    /\ retryTimers = {}
    /\ eraseTimers = [p \in Peers |-> 0]

\* UdpServer::start(), and UdpAcceptor::listen() in place: once only.
Start ==
    /\ failed = "no" /\ ~listening
    /\ listening' = TRUE
    /\ UNCHANGED <<loopVars, connVars, user, nextConnId, connections, connectors,
                   connectOn, retryTimers, eraseTimers>>

-----------------------------------------------------------------------------
\* Broken variant: the connection is only erased from the map.
RemoveConnectionNoDestroy(c, q) ==
    IF c \in connections
    THEN /\ connections' = connections \ {c}
         /\ pending' = [q EXCEPT ![Base] = Append(@, Functor("RemoveConnector", peer[c]))]
         /\ failed' = failed
    ELSE Fail("removeConnection") /\ UNCHANGED <<connections, pending>>

\* Broken variant: what erase() returned is not looked at.
RemoveConnectionUnchecked(c, q) ==
    /\ connections' = connections \ {c}
    /\ pending' = LET r == [q EXCEPT ![Base] = Append(@, Functor("RemoveConnector", peer[c]))]
                  IN  [r EXCEPT ![ioLoop[c]] = Append(@, Functor("connectDestroyed", c))]
    /\ failed' = failed

\* Broken variant: the connection stays in the map.
RemoveConnectionKeeps(c, q) ==
    /\ pending' = LET r == [q EXCEPT ![Base] = Append(@, Functor("RemoveConnector", peer[c]))]
                  IN  [r EXCEPT ![ioLoop[c]] = Append(@, Functor("connectDestroyed", c))]
    /\ UNCHANGED <<connections, failed>>

\* removeConnectionInLoop() on the server's loop, with q the queues so far.
RemoveConnectionInLoop(c, q) ==
    IF c \in connections
    THEN /\ connections' = connections \ {c}
         /\ pending' = LET r == [q EXCEPT ![Base] = Append(@, Functor("RemoveConnector", peer[c]))]
                       IN  [r EXCEPT ![ioLoop[c]] = Append(@, Functor("connectDestroyed", c))]
         /\ failed' = failed
    ELSE /\ Fail("removeConnection")
         /\ UNCHANGED <<connections, pending>>

\* removeConnection(), every connection's closeCallback_: in place when it is
\* called on the server's loop, queued to it otherwise.
RemoveConnection(c, l) ==
    IF ~Updatable(c) THEN Fail("updateChannel") /\ UNCHANGED <<connections, pending>>
    ELSE IF l = Base THEN RemoveConnectionInLoop(c, pending)
    ELSE /\ Queue(Base, Functor("removeConnectionInLoop", c))
         /\ UNCHANGED <<connections, failed>>

\* Broken variant: the functor for the server's loop does nothing.
RunRemoveConnectionLost ==
    /\ Runs(Base, "removeConnectionInLoop")
    /\ UNCHANGED <<session, pending, failed, connVars, user, serverVars>>

RunRemoveConnection ==
    /\ Runs(Base, "removeConnectionInLoop")
    /\ RemoveConnectionInLoop(Arg(Base), pending)
    /\ UNCHANGED <<session, connVars, user, listening, nextConnId, connectors,
                   connectOn, retryTimers, eraseTimers>>

\* Broken variant: the peer's address is not kept.
NewConnectionNoPeer(p) ==
    LET c == nextConnId
        l == GetNextLoop
    IN  /\ c <= MaxConns
        /\ nextConnId' = c + 1
        /\ nextLoop' = AdvanceLoop
        /\ connections' = connections \cup {c}
        /\ peer' = peer
        /\ ioLoop' = [ioLoop EXCEPT ![c] = l]
        /\ life' = [life EXCEPT ![c] = "alive"]
        /\ IF l = Base
           THEN ConnectEstablished(Base, c) /\ UNCHANGED pending
           ELSE /\ state' = [state EXCEPT ![c] = "kConnecting"]
                /\ Queue(l, Functor("connectEstablished", c))
                /\ UNCHANGED <<chan, session>>

\* Broken variant: the connection is not put in the map.
NewConnectionUnmapped(p) ==
    LET c == nextConnId
        l == GetNextLoop
    IN  /\ c <= MaxConns
        /\ nextConnId' = c + 1
        /\ nextLoop' = AdvanceLoop
        /\ connections' = connections
        /\ peer' = [peer EXCEPT ![c] = p]
        /\ ioLoop' = [ioLoop EXCEPT ![c] = l]
        /\ life' = [life EXCEPT ![c] = "alive"]
        /\ IF l = Base
           THEN ConnectEstablished(Base, c) /\ UNCHANGED pending
           ELSE /\ state' = [state EXCEPT ![c] = "kConnecting"]
                /\ Queue(l, Functor("connectEstablished", c))
                /\ UNCHANGED <<chan, session>>

\* UdpServer::newConnection(): the next loop, a connection in the map, and
\* connectEstablished(), in place when the connection's loop is this one.
NewConnection(p) ==
    LET c == nextConnId
        l == GetNextLoop
    IN  /\ c <= MaxConns
        /\ nextConnId' = c + 1
        /\ nextLoop' = AdvanceLoop
        /\ connections' = connections \cup {c}
        /\ peer' = [peer EXCEPT ![c] = p]
        /\ ioLoop' = [ioLoop EXCEPT ![c] = l]
        /\ life' = [life EXCEPT ![c] = "alive"]
        /\ IF l = Base
           THEN ConnectEstablished(Base, c) /\ UNCHANGED pending
           ELSE /\ state' = [state EXCEPT ![c] = "kConnecting"]
                /\ Queue(l, Functor("connectEstablished", c))
                /\ UNCHANGED <<chan, session>>

\* UdpConnector::connect(): the socket connects and the connector hands it to
\* newConnection(); or it may be tried again after a delay; or it is given up.
Connect(p) ==
    \/ /\ NewConnection(p)
       /\ connectors' = [connectors EXCEPT ![p] = "kConnected"]
       /\ UNCHANGED retryTimers
    \/ /\ connectors' = [connectors EXCEPT ![p] = "kDisconnected"]
       /\ retryTimers' \in {retryTimers, retryTimers \cup {p}}
       /\ UNCHANGED <<nextConnId, nextLoop, connections, peer, ioLoop, life, state,
                      chan, pending, session>>

\* Broken variant: every datagram starts a connector.
AcceptReadAlways(p) ==
    /\ Takes(Base, Functor("accept", 0))
    /\ IF TRUE
       THEN Connect(p) /\ connectOn' = [connectOn EXCEPT ![p] = TRUE]
       ELSE UNCHANGED <<connectors, connectOn, retryTimers, nextConnId, nextLoop,
                        connections, peer, ioLoop, life, state, chan, pending, session>>
    /\ UNCHANGED <<phase, batch, pos, failed, reading, timer, sessUp, held, user,
                   listening, eraseTimers>>

\* Broken variant: a stopped connector counts as none.
AcceptReadStopped(p) ==
    /\ Takes(Base, Functor("accept", 0))
    /\ IF ~connectOn[p]
       THEN Connect(p) /\ connectOn' = [connectOn EXCEPT ![p] = TRUE]
       ELSE UNCHANGED <<connectors, connectOn, retryTimers, nextConnId, nextLoop,
                        connections, peer, ioLoop, life, state, chan, pending, session>>
    /\ UNCHANGED <<phase, batch, pos, failed, reading, timer, sessUp, held, user,
                   listening, eraseTimers>>

\* UdpAcceptor::handleRead(): one datagram of peer p.  Only a peer without a
\* connector gets one, and its start() connects in place.
AcceptRead(p) ==
    /\ Takes(Base, Functor("accept", 0))
    /\ IF connectors[p] = "absent"
       THEN Connect(p) /\ connectOn' = [connectOn EXCEPT ![p] = TRUE]
       ELSE UNCHANGED <<connectors, connectOn, retryTimers, nextConnId, nextLoop,
                        connections, peer, ioLoop, life, state, chan, pending, session>>
    /\ UNCHANGED <<phase, batch, pos, failed, reading, timer, sessUp, held, user,
                   listening, eraseTimers>>

\* The timer of UdpConnector::retry() calls startInLoop().
RetryTimer(p) ==
    /\ Takes(Base, Functor("retry", p))
    /\ IF connectors[p] # "kDisconnected"
       THEN Fail("startInLoop") /\ UNCHANGED <<connectors, retryTimers, nextConnId,
                nextLoop, connections, peer, ioLoop, life, state, chan, pending, session>>
       ELSE /\ UNCHANGED failed
            /\ IF connectOn[p]
               THEN \/ /\ NewConnection(p)
                       /\ connectors' = [connectors EXCEPT ![p] = "kConnected"]
                       /\ retryTimers' = retryTimers \ {p}
                    \/ /\ retryTimers' \in {retryTimers, retryTimers \ {p}}
                       /\ UNCHANGED <<connectors, nextConnId, nextLoop, connections,
                                      peer, ioLoop, life, state, chan, pending, session>>
               ELSE /\ retryTimers' = retryTimers \ {p}
                    /\ UNCHANGED <<connectors, nextConnId, nextLoop, connections, peer,
                                   ioLoop, life, state, chan, pending, session>>
    /\ UNCHANGED <<phase, batch, pos, reading, timer, sessUp, held, user, listening,
                   connectOn, eraseTimers>>

\* connectEstablished() as a functor of the connection's loop.
RunConnectEstablished(l) ==
    LET c == Arg(l) IN
    /\ Runs(l, "connectEstablished")
    /\ IF state[c] = "kConnecting"
       THEN ConnectEstablished(l, c) /\ UNCHANGED failed
       ELSE Fail("connectEstablished") /\ UNCHANGED <<state, chan, session>>
    /\ UNCHANGED <<pending, vars0, timer, sessUp, held, user, serverVars>>

\* Broken variant: the timer that erases the connector is not started.
RemoveConnectorKeeps ==
    LET p == Arg(Base) IN
    /\ Runs(Base, "RemoveConnector")
    /\ connectOn' = [connectOn EXCEPT ![p] = FALSE]
    /\ Queue(Base, Functor("stopInLoop", p))
    /\ UNCHANGED <<session, failed, eraseTimers, connVars, user, listening, nextConnId,
                   connections, connectors, retryTimers>>

\* UdpAcceptor::RemoveConnector(): stop() clears connect_ and queues
\* stopInLoop(), and a one second timer will erase the connector.
RemoveConnector ==
    LET p == Arg(Base) IN
    /\ Runs(Base, "RemoveConnector")
    /\ IF connectors[p] = "absent"
       THEN Fail("RemoveConnector") /\ UNCHANGED <<pending, connectOn, eraseTimers>>
       ELSE /\ connectOn' = [connectOn EXCEPT ![p] = FALSE]
            /\ Queue(Base, Functor("stopInLoop", p))
            /\ eraseTimers' = [eraseTimers EXCEPT ![p] = @ + 1]
            /\ UNCHANGED failed
    /\ UNCHANGED <<session, connVars, user, listening, nextConnId, connections,
                   connectors, retryTimers>>

\* UdpConnector::stopInLoop() acts on kConnecting only, which connected()
\* leaves in the step that enters it.
StopInLoop ==
    /\ Runs(Base, "stopInLoop")
    /\ UNCHANGED <<pending, session, failed, connVars, user, serverVars>>

\* The timer of RemoveConnector() calls EraseConnector().
EraseConnector(p) ==
    /\ Takes(Base, Functor("erase", p))
    /\ eraseTimers' = [eraseTimers EXCEPT ![p] = @ - 1]
    /\ connectors' = [connectors EXCEPT ![p] = "absent"]
    /\ UNCHANGED <<phase, pending, batch, pos, session, nextLoop, failed, connVars,
                   user, listening, nextConnId, connections, connectOn, retryTimers>>

-----------------------------------------------------------------------------
\* What poll() may report on loop l.  Timing: the second that an erase timer
\* waits is longer than the functors queued before it take.
Events(l) ==
    {Functor("update", c) : c \in {d \in Conns : timer[d] /\ ioLoop[d] = l}}
    \cup {Functor("channel", c) : c \in {d \in Conns : chan[d] = "reading" /\ ioLoop[d] = l}}
    \cup IF l # Base THEN {} ELSE
           {Functor("retry", p) : p \in retryTimers}
           \cup {Functor("erase", p) : p \in {r \in Peers :
                    eraseTimers[r] > 0 /\ ~Queued(pending, "stopInLoop", r)}}
           \cup IF listening THEN {Functor("accept", 0)} ELSE {}

PollLoop(l) == Poll(l, Events(l)) /\ UNCHANGED <<connVars, user, serverVars>>
RunBatch(l) == SwapFunctors(l) /\ UNCHANGED <<connVars, user, serverVars>>
FinishBatch(l) == EndBatch(l, connections) /\ UNCHANGED serverVars

\* Channel events and session calls of a connection, on its loop.
ownerVars == <<listening, nextConnId, connectors, connectOn, retryTimers, eraseTimers>>
Closes(l) ==
    /\ \E c \in Conns :
          /\ \/ UpdateFails(l, c) \/ SocketCloses(l, c) \/ KcpsessDown(l, c)
             \/ ForceCloseInLoop(l, c) \/ HandleError(l, c)
          /\ RemoveConnection(c, l)
    /\ UNCHANGED ownerVars

InLoop(l) ==
    /\ \/ UpdateAgain(l) \/ DoSendWritten(l) \/ KcpsessUp(l) \/ SessionReturns(l)
       \/ CallbackForceClose(l) \/ CallbackShutdown(l)
       \/ \E on \in BOOLEAN : CallbackSetReading(l, on) \/ SetReadingInLoop(l, on)
       \/ ConnectDestroyed(l) \/ ForceCloseIgnored(l) \/ SendInLoop(l) \/ CancelInLoop(l) \/ WriteComplete(l)
       \/ \E c \in Conns : KcpSessionUpdate(l, c) \/ HandleRead(l, c)
    /\ UNCHANGED serverVars

UserStep ==
    /\ \/ \E c \in Conns : \/ \E op \in UserCalls : UserTests(op, c)
                           \/ \E on \in BOOLEAN : UserSetsReading(c, on)
                           \/ UserReleases(c, connections)
       \/ UserActs(connections)
    /\ UNCHANGED serverVars

BaseStep ==
    \/ Start \/ RunRemoveConnection \/ RemoveConnector \/ StopInLoop
    \/ \E p \in Peers : AcceptRead(p) \/ RetryTimer(p) \/ EraseConnector(p)

LoopStep(l) ==
    \/ PollLoop(l) \/ RunBatch(l) \/ FinishBatch(l) \/ RunConnectEstablished(l)
    \/ Closes(l) \/ InLoop(l)

Next == BaseStep \/ UserStep \/ \E l \in Loops : LoopStep(l)

Spec == Init /\ [][Next]_vars


\* The threads of the loops are scheduled, and a timer that is due is run.
\* Nothing is assumed of peers, of sessions or of the application.
BaseFunctors == RunRemoveConnection \/ RemoveConnector \/ StopInLoop
FairSpec ==
    /\ Spec
    /\ WF_vars(LoopStep(Base) \/ BaseFunctors)
    /\ \A l \in Loops \ {Base} : WF_vars(LoopStep(l))
    /\ \A p \in Peers : SF_vars(EraseConnector(p))

-----------------------------------------------------------------------------
TypeOK ==
    /\ phase \in [Loops -> {"poll", "events", "functors"}]
    /\ session \in [Loops -> [fn : {"none", "Update", "Recv", "Send", "Revents"},
                              conn : 0 .. MaxConns]]
    /\ state \in [Conns -> {"none", "kConnecting", "kConnected", "kDisconnecting",
                            "kDisconnected"}]
    /\ chan \in [Conns -> {"new", "reading", "none", "removed"}]
    /\ life \in [Conns -> {"unborn", "alive", "dead"}]
    /\ timer \in [Conns -> BOOLEAN] /\ held \in [Conns -> BOOLEAN]
    /\ connections \subseteq Conns
    /\ connectors \in [Peers -> {"absent", "kDisconnected", "kConnected"}]
    /\ eraseTimers \in [Peers -> Nat]
    /\ \A c \in Conns : life[c] # "unborn" => peer[c] \in Peers

\* Every assert of the server, the acceptor, the connectors and connections,
\* and of the channels and pollers under them, holds.
AssertsHold ==
    failed \in {"no", "danglingTimer", "danglingThis"}

\* Nothing runs on a destroyed connection: neither the update timer nor a
\* functor bound to a raw this (UdpConnection.cpp:119, :142, :184).
NoDangling == failed \notin {"danglingTimer", "danglingThis"}

\* The poller never holds the Channel of a destroyed connection: shared_ptrs
\* in the map and in functors last until connectDestroyed() has removed it.
PolledIsAlive == \A c \in Conns : chan[c] \in {"reading", "none"} => life[c] = "alive"

\* At most one connection of a peer is in the server's map: the acceptor
\* forgets a peer only after its connection has been removed.
OneConnectionPerPeer ==
    \A c, d \in connections : peer[c] = peer[d] => c = d

\* The connector of a connection in the map is known and is not about to be
\* erased, so RemoveConnector() will find it.
MappedPeerIsKnown ==
    failed = "no" => \A c \in connections :
        /\ connectors[peer[c]] = "kConnected"
        /\ eraseTimers[peer[c]] = 0
        /\ ~Queued(pending, "RemoveConnector", peer[c])

\* "should be called only once" (UdpConnection.h:112): connectDestroyed() is
\* queued once, and never for a connection that is still in the map.
DestroyedOnce ==
    \A c \in Conns : LET f == Functor("connectDestroyed", c)
                         q == pending[ioLoop[c]] IN
        \A i, j \in 1 .. Len(q) :
            q[i] = f /\ q[j] = f => i = j /\ c \notin connections /\ chan[c] # "removed"

\* A connection leaves kDisconnected never again: no callback can find it UP.
ClosedIsFinal ==
    [][\A c \in Conns : state[c] = "kDisconnected" => state'[c] = "kDisconnected"]_vars

\* removeConnectionInLoop() finds the connection it removes: the
\* assert( n == 1 ) of UdpServer.cpp:126.
RemoveFindsConnection == failed # "removeConnection"

\* The server's and the acceptor's maps agree about a peer: one connection at
\* most, whose connector is known and will be found when it is removed.
PeersAgree == OneConnectionPerPeer /\ MappedPeerIsKnown

\* The two hops that end a connection, whatever an application thread calls
\* meanwhile: connectDestroyed() comes once, after the map has let go, and the
\* poller holds the channel no longer than the connection lives.
EndsAreOrderly == PolledIsAlive /\ DestroyedOnce
=============================================================================
