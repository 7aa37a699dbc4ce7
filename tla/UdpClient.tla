------------------------------ MODULE UdpClient ------------------------------
(***************************************************************************)
(* UdpClient and its UdpConnector: one thread calls connect(),             *)
(* disconnect(), stop() and the destructor, the loop thread connects,      *)
(* retries, establishes, closes and reconnects.  The connection is kept to *)
(* its state_ and its references; its channel, timer and session are in    *)
(* UdpConnection.tla, where a connection may also be closed repeatedly.    *)
(* connecting(), handleWrite() and handleError() of the connector have no  *)
(* caller: kConnecting lasts for one statement of connected().             *)
(***************************************************************************)
EXTENDS Integers, Sequences, FiniteSets

CONSTANTS
    Retry,            \* enableRetry() was called
    MaxConns,         \* bound on the connections made
    MaxConnects, MaxDisconnects, MaxStops,   \* bounds on the calls made
    Destroys          \* whether the client may be destroyed

ASSUME ClientAssumption ==
    /\ {Retry, Destroys} \subseteq BOOLEAN
    /\ {MaxConns, MaxConnects, MaxDisconnects, MaxStops} \subseteq Nat

Conns == 1 .. MaxConns
kInitRetryDelayMs == 500
kMaxRetryDelayMs == 30000

VARIABLES
    cliConnect,   \* UdpClient::connect_
    connection,   \* UdpClient::connection_, 0 for none
    nextConnId,
    clientGone,   \* ~UdpClient() has returned
    connect,      \* UdpConnector::connect_
    cnState,      \* UdpConnector::state_
    delay,        \* UdpConnector::retryDelayMs_
    timers,       \* number of pending retry timers, each with a pointer to the connector
    holder,       \* ~UdpClient()'s timer that keeps the connector is pending
    state,        \* UdpConnection::state_, "none" before the constructor
    closeCb,      \* whose closeCallback_ the connection has
    closed,       \* connections on which handleClose() was entered
    held,         \* connections the application keeps a pointer to
    gone,         \* connections that were destroyed
    queue,        \* functors of the loop, <<op, connection>>
    loop,         \* where the loop thread is, <<step, connection>>
    user,         \* where the calling thread is, <<step, connection>>
    calls,        \* calls made so far
    stopped,      \* stop() was called outside its window, and connect() not since
    failed        \* the assertion that failed or the object used after free

vars == <<cliConnect, connection, nextConnId, clientGone, connect, cnState, delay,
          timers, holder, state, closeCb, closed, held, gone, queue, loop, user, calls,
          stopped, failed>>
clientVars == <<cliConnect, connection, nextConnId, clientGone>>
connectorVars == <<connect, cnState, delay, timers, holder>>
connVars == <<state, closeCb, closed, held, gone>>
userVars == <<user, calls, stopped>>

Idle == <<"idle", 0>>

Init ==
    /\ cliConnect = TRUE /\ connection = 0 /\ nextConnId = 1 /\ clientGone = FALSE
    /\ connect = FALSE /\ cnState = "kDisconnected"
    /\ delay = kInitRetryDelayMs /\ timers = 0 /\ holder = FALSE
    /\ state = [c \in Conns |-> "none"]
    /\ closeCb = [c \in Conns |-> "client"]
    /\ closed = {} /\ held = {} /\ gone = {}
    /\ queue = <<>> /\ loop = Idle /\ user = Idle
    /\ calls = [connect |-> 0, disconnect |-> 0, stop |-> 0]
    /\ stopped = FALSE /\ failed = "no"

\* The client's mutex_ is held by disconnect() while it calls shutdown().
MutexFree == user[1] # "shutdown"

-----------------------------------------------------------------------------
(* The calling thread *)

MayCall == failed = "no" /\ user = Idle /\ ~clientGone

\* connect() and the connector's start().
Connect ==
    /\ MayCall /\ calls.connect < MaxConnects
    /\ calls' = [calls EXCEPT !.connect = @ + 1]
    /\ cliConnect' = TRUE /\ connect' = TRUE
    /\ queue' = Append(queue, <<"startInLoop", 0>>)
    /\ stopped' = FALSE
    /\ UNCHANGED <<connection, nextConnId, clientGone, cnState, delay, timers, holder,
                   connVars, loop, user, failed>>

\* disconnect(), and the test of shutdown(), with the mutex held.
DisconnectTests ==
    /\ MayCall /\ calls.disconnect < MaxDisconnects
    /\ calls' = [calls EXCEPT !.disconnect = @ + 1]
    /\ cliConnect' = FALSE
    /\ user' = IF connection # 0 /\ state[connection] = "kConnected"
               THEN <<"shutdown", connection>> ELSE Idle
    /\ UNCHANGED <<connection, nextConnId, clientGone, connectorVars, connVars,
                   queue, loop, stopped, failed>>

\* setState(kDisconnecting) in shutdown(), and the release of the mutex.
ShutdownSets ==
    /\ failed = "no" /\ user[1] = "shutdown"
    /\ state' = [state EXCEPT ![user[2]] = "kDisconnecting"]
    /\ user' = Idle
    /\ UNCHANGED <<clientVars, connectorVars, closeCb, closed, held, gone, queue,
                   loop, calls, stopped, failed>>

\* stop() and the connector's stop().
Stop ==
    /\ MayCall /\ calls.stop < MaxStops
    /\ calls' = [calls EXCEPT !.stop = @ + 1]
    /\ cliConnect' = FALSE /\ connect' = FALSE
    /\ queue' = Append(queue, <<"stopInLoop", 0>>)
    /\ stopped' = (loop[1] \notin {"restart", "new"})
    /\ UNCHANGED <<connection, nextConnId, clientGone, cnState, delay, timers, holder,
                   connVars, loop, user, failed>>

\* A handler, a functor or the application has a pointer to the connection.
Pointed(c) ==
    \/ c \in held \/ loop[2] = c
    \/ \E i \in 1 .. Len(queue) : queue[i][2] = c


\* ~UdpClient(): with a connection, hands it over to removeUdpConnection() and
\* closes it if nobody else has a pointer; without one, stops the connector and
\* has a timer keep it for a second.
DestroyClient ==
    /\ Destroys /\ MayCall
    /\ \/ /\ connection # 0
          /\ queue' = Append(queue, <<"setCloseCallback", connection>>)
          /\ user' = IF /\ ~Pointed(connection)
                        /\ state[connection] \in {"kConnected", "kDisconnecting"}
                     THEN <<"forceClose", connection>> ELSE <<"leave", connection>>
          /\ UNCHANGED <<connect, clientGone>>
       \/ /\ connection = 0
          /\ connect' = FALSE
          /\ queue' = queue \o << <<"stopInLoop", 0>>, <<"removeUdpConnector", 0>> >>
          /\ clientGone' = TRUE
          /\ UNCHANGED user
    /\ UNCHANGED <<cliConnect, connection, nextConnId, cnState, delay, timers, holder,
                   connVars, loop, calls, stopped, failed>>

\* setState(kDisconnecting) and queueInLoop() in forceClose().
ForceCloseSets ==
    /\ failed = "no" /\ user[1] = "forceClose"
    /\ state' = [state EXCEPT ![user[2]] = "kDisconnecting"]
    /\ queue' = Append(queue, <<"forceCloseInLoop", user[2]>>)
    /\ user' = <<"leave", user[2]>>
    /\ UNCHANGED <<clientVars, connectorVars, closeCb, closed, held, gone, loop,
                   calls, stopped, failed>>

\* ~UdpConnection(), with its assert(state_ == kDisconnected), when this step
\* released the last pointer.
Release(c) ==
    IF Pointed(c)' \/ c \in {connection', user'[2]}
    THEN UNCHANGED <<gone, failed>>
    ELSE /\ gone' = gone \cup {c}
         /\ failed' = IF state[c] = "kDisconnected" THEN "no" ELSE "~UdpConnection"

\* The end of ~UdpClient(): conn and the members are released.
DestructorReturns ==
    \E c \in Conns :
        /\ failed = "no" /\ user = <<"leave", c>>
        /\ user' = Idle
        /\ clientGone' = TRUE
        /\ connection' = 0
        /\ UNCHANGED <<cliConnect, nextConnId, connectorVars, state, closeCb, closed,
                       held, queue, loop, calls, stopped>>
        /\ Release(c)

-----------------------------------------------------------------------------
(* The loop thread *)

At(step) == failed = "no" /\ loop[1] = step
Functor(op) == At("idle") /\ queue # <<>> /\ Head(queue)[1] = op /\ queue' = Tail(queue)
Fail(what) == failed' = what /\ UNCHANGED <<loop, queue, timers>>

\* The client, a retry timer, or the destructor's functor and timer own the
\* connector; the functors of start() and stop() have a raw this.
ConnectorLives ==
    \/ ~clientGone \/ timers > 0 \/ holder
    \/ \E i \in 1 .. Len(queue) : queue[i][1] = "removeUdpConnector"

\* A functor of start() or stop() runs and the connector was destroyed.
RunsDangling ==
    /\ At("idle") /\ queue # <<>> /\ Head(queue)[1] \in {"startInLoop", "stopInLoop"}
    /\ ~ConnectorLives
    /\ Fail("UdpConnector")
    /\ UNCHANGED <<clientVars, connect, cnState, delay, holder, connVars, userVars>>

\* startInLoop(), called by a functor or a timer.
StartInLoop ==
    /\ loop' = IF cnState = "kDisconnected" /\ connect THEN <<"connect", 0>> ELSE Idle
    /\ failed' = IF cnState = "kDisconnected" THEN "no" ELSE "startInLoop"

RunStart ==
    /\ Functor("startInLoop") /\ ConnectorLives
    /\ StartInLoop
    /\ UNCHANGED <<clientVars, connectorVars, connVars, userVars>>

\* Broken variant: the retry timer repeats.
RetryTimerRepeats ==
    /\ At("idle") /\ timers > 0
    /\ StartInLoop
    /\ UNCHANGED <<clientVars, connectorVars, connVars, queue, userVars>>

RetryTimer ==
    /\ At("idle") /\ timers > 0
    /\ timers' = timers - 1
    /\ StartInLoop
    /\ UNCHANGED <<clientVars, connect, cnState, delay, holder, connVars, queue, userVars>>

\* stopInLoop(): the connector is never kConnecting here.
RunStop ==
    /\ Functor("stopInLoop") /\ ConnectorLives
    /\ UNCHANGED <<clientVars, connectorVars, connVars, loop, userVars, failed>>

\* addTimerInLoop() of the destructor's timer, and its removeUdpConnector().
RunHold ==
    /\ Functor("removeUdpConnector")
    /\ holder' = TRUE
    /\ UNCHANGED <<clientVars, connect, cnState, delay, timers, connVars, loop, userVars,
                   failed>>

RemoveUdpConnector ==
    /\ At("idle") /\ holder
    /\ holder' = FALSE
    /\ UNCHANGED <<clientVars, connect, cnState, delay, timers, connVars, queue, loop,
                   userVars, failed>>

\* The functor's pointer may be the last one to a connection that is open.
RunSetCloseCallback ==
    \E c \in Conns :
        /\ Functor("setCloseCallback") /\ Head(queue)[2] = c
        /\ closeCb' = [closeCb EXCEPT ![c] = "detached"]
        /\ UNCHANGED <<clientVars, connectorVars, state, closed, held, loop, userVars>>
        /\ Release(c)

\* connect(): the outcomes of sockets::connect().
ConnectSucceeds ==
    /\ At("connect") /\ nextConnId <= MaxConns
    /\ cnState' = "kConnected"
    /\ loop' = <<"connected", 0>>
    /\ UNCHANGED <<clientVars, connect, delay, timers, holder, connVars, queue,
                   userVars, failed>>

\* Broken variant: the delay is doubled without a limit.
ConnectRetriesUnlimited ==
    /\ At("connect")
    /\ cnState' = "kDisconnected"
    /\ loop' = Idle
    /\ timers' = IF connect THEN timers + 1 ELSE timers
    /\ delay' = IF connect THEN 2 * delay ELSE delay
    /\ UNCHANGED <<clientVars, connect, holder, connVars, queue, userVars, failed>>

\* retry()
ConnectRetries ==
    /\ At("connect")
    /\ cnState' = "kDisconnected"
    /\ loop' = Idle
    /\ \/ /\ connect
          /\ timers' = timers + 1
          /\ delay' = IF 2 * delay < kMaxRetryDelayMs THEN 2 * delay
                      ELSE kMaxRetryDelayMs
       \/ ~connect /\ UNCHANGED <<timers, delay>>
    /\ UNCHANGED <<clientVars, connect, holder, connVars, queue, userVars, failed>>

ConnectFails ==
    /\ At("connect")
    /\ loop' = Idle
    /\ UNCHANGED <<clientVars, connectorVars, connVars, queue, userVars, failed>>

\* Broken variant: connect_ is not tested.
ConnectedUntested ==
    /\ At("connected")
    /\ loop' = <<"new", 0>>
    /\ UNCHANGED <<clientVars, connectorVars, connVars, queue, userVars, failed>>

\* if (connect_) in connected(); after a stop() the socket is left.
Connected ==
    /\ At("connected")
    /\ loop' = IF connect THEN <<"new", 0>> ELSE Idle
    /\ UNCHANGED <<clientVars, connectorVars, connVars, queue, userVars, failed>>

\* newConnection() up to connectEstablished().
NewConnection ==
    /\ At("new") /\ MutexFree
    /\ IF clientGone
       THEN Fail("newConnection") /\ UNCHANGED <<connection, nextConnId, state>>
       ELSE /\ connection' = nextConnId
            /\ nextConnId' = nextConnId + 1
            /\ state' = [state EXCEPT ![nextConnId] = "kConnecting"]
            /\ loop' = <<"establish", nextConnId>>
            /\ UNCHANGED <<queue, timers, failed>>
    /\ UNCHANGED <<cliConnect, clientGone, connect, cnState, delay, holder, closeCb,
                   closed, held, gone, userVars>>

ConnectEstablished ==
    /\ At("establish")
    /\ state' = [state EXCEPT ![loop[2]] = "kConnected"]
    /\ loop' = Idle
    /\ UNCHANGED <<clientVars, connectorVars, closeCb, closed, held, gone, queue,
                   userVars, failed>>

\* The session is up: the application keeps the pointer it is given.
SessionUp(c) ==
    /\ At("idle") /\ state[c] \in {"kConnected", "kDisconnecting"}
    /\ c \notin held \cup closed \cup gone
    /\ held' = held \cup {c}
    /\ UNCHANGED <<clientVars, connectorVars, state, closeCb, closed, gone, queue,
                   loop, userVars, failed>>

\* handleClose() up to the close callback; the application drops its pointer.
HandleClose(c) ==
    /\ state' = [state EXCEPT ![c] = "kDisconnected"]
    /\ closed' = closed \cup {c}
    /\ held' = held \ {c}
    /\ loop' = <<"close", c>>

\* The session fails or goes down, or the socket reports an error.
SessionCloses(c) ==
    /\ At("idle") /\ state[c] \in {"kConnected", "kDisconnecting"}
    /\ c \notin closed
    /\ HandleClose(c)
    /\ UNCHANGED <<clientVars, connectorVars, closeCb, gone, queue, userVars, failed>>

\* Broken variant: does not close a connection that is kDisconnecting.
RunForceCloseNever ==
    /\ Functor("forceCloseInLoop")
    /\ UNCHANGED <<clientVars, connectorVars, connVars, loop, userVars, failed>>

\* forceCloseInLoop()
RunForceClose ==
    \E c \in Conns :
        /\ Functor("forceCloseInLoop") /\ Head(queue)[2] = c
        /\ IF state[c] \in {"kConnected", "kDisconnecting"}
           THEN HandleClose(c)
           ELSE UNCHANGED <<state, closed, held, loop>>
        /\ UNCHANGED <<clientVars, connectorVars, closeCb, userVars>>
        /\ Release(c)

\* Broken variant: connection_ is not reset.
RemoveConnectionKeeps ==
    LET c == loop[2] IN
    /\ At("close") /\ MutexFree
    /\ failed' = IF closeCb[c] = "client" /\ clientGone THEN "removeConnection" ELSE "no"
    /\ queue' = Append(queue, <<"connectDestroyed", c>>)
    /\ loop' = IF closeCb[c] = "client" /\ Retry /\ cliConnect
               THEN <<"restart", c>> ELSE Idle
    /\ UNCHANGED <<clientVars, connectorVars, connVars, userVars>>

\* Broken variant: connectDestroyed() is not queued.
RemoveConnectionLeaks ==
    /\ At("close") /\ MutexFree
    /\ connection' = 0
    /\ loop' = Idle
    /\ UNCHANGED <<cliConnect, nextConnId, clientGone, connectorVars, connVars, queue,
                   userVars, failed>>

\* removeConnection() up to restart(), or removeUdpConnection().
RemoveConnection ==
    LET c == loop[2] IN
    /\ At("close") /\ MutexFree
    /\ IF closeCb[c] = "client" /\ (clientGone \/ connection # c)
       THEN Fail("removeConnection") /\ UNCHANGED connection
       ELSE /\ connection' = IF closeCb[c] = "client" THEN 0 ELSE connection
            /\ queue' = Append(queue, <<"connectDestroyed", c>>)
            /\ loop' = IF closeCb[c] = "client" /\ Retry /\ cliConnect
                       THEN <<"restart", c>> ELSE Idle
            /\ UNCHANGED <<timers, failed>>
    /\ UNCHANGED <<cliConnect, nextConnId, clientGone, connect, cnState, delay, holder,
                   connVars, userVars>>

\* Broken variant: the connector's state_ is not reset.
RestartNoReset ==
    /\ At("restart")
    /\ delay' = kInitRetryDelayMs
    /\ connect' = TRUE
    /\ StartInLoop
    /\ UNCHANGED <<clientVars, cnState, timers, holder, connVars, queue, userVars>>

\* restart() and its startInLoop(), through the client's connector_.
Restart ==
    /\ At("restart")
    /\ IF clientGone
       THEN Fail("restart") /\ UNCHANGED <<connect, cnState, delay>>
       ELSE /\ cnState' = "kDisconnected" /\ delay' = kInitRetryDelayMs
            /\ connect' = TRUE
            /\ loop' = <<"connect", 0>>
            /\ UNCHANGED <<queue, timers, failed>>
    /\ UNCHANGED <<clientVars, holder, connVars, userVars>>

\* Broken variant: the connection is destroyed whoever refers to it.
RunDestroyedEarly ==
    /\ Functor("connectDestroyed")
    /\ gone' = gone \cup {Head(queue)[2]}
    /\ UNCHANGED <<clientVars, connectorVars, state, closeCb, closed, held, loop,
                   userVars, failed>>

\* connectDestroyed(), and the release of the functor's pointer.
RunConnectDestroyed ==
    \E c \in Conns :
        /\ Functor("connectDestroyed") /\ Head(queue)[2] = c
        /\ UNCHANGED <<clientVars, connectorVars, state, closeCb, closed, held, loop,
                       userVars>>
        /\ Release(c)

UserStep ==
    Connect \/ DisconnectTests \/ ShutdownSets \/ Stop
        \/ DestroyClient \/ ForceCloseSets \/ DestructorReturns

\* What the loop thread does by itself, without the network.
RunFunctor ==
    \/ RunStart \/ RunStop \/ RunsDangling \/ RunHold
    \/ RunSetCloseCallback \/ RunForceClose \/ RunConnectDestroyed

LoopStep ==
    \/ RunFunctor \/ RetryTimer \/ RemoveUdpConnector
    \/ ConnectSucceeds \/ ConnectRetries \/ ConnectFails
    \/ Connected \/ NewConnection \/ ConnectEstablished
    \/ RemoveConnection \/ Restart

Next ==
    \/ UserStep \/ LoopStep
    \/ \E c \in Conns : SessionUp(c) \/ SessionCloses(c)

Spec == Init /\ [][Next]_vars

\* The loop goes on; a call that was begun returns; functors are run even if
\* sessions and timers keep the loop busy.
FairSpec ==
    /\ Spec
    /\ WF_vars(LoopStep) /\ SF_vars(RunFunctor)
    /\ WF_vars(ShutdownSets) /\ WF_vars(ForceCloseSets) /\ WF_vars(DestructorReturns)
-----------------------------------------------------------------------------
ConnStates == {"none", "kConnecting", "kConnected", "kDisconnecting", "kDisconnected"}

TypeOK ==
    /\ {cliConnect, connect, clientGone, holder, stopped} \subseteq BOOLEAN
    /\ connection \in 0 .. MaxConns /\ nextConnId \in 1 .. MaxConns + 1
    /\ cnState \in {"kDisconnected", "kConnected"}
    /\ delay \in kInitRetryDelayMs .. kMaxRetryDelayMs /\ timers \in Nat
    /\ state \in [Conns -> ConnStates]
    /\ closeCb \in [Conns -> {"client", "detached"}]
    /\ closed \subseteq Conns /\ held \subseteq Conns /\ gone \subseteq Conns
    /\ failed \in {"no", "startInLoop", "removeConnection", "newConnection",
                   "~UdpConnection", "UdpConnector", "restart"}

Starts == Cardinality({i \in 1 .. Len(queue) : queue[i][1] = "startInLoop"})
One(b) == IF b THEN 1 ELSE 0

\* A client that called connect() once has at most one attempt under way: a
\* start, a retry timer, a connect() or a live connection, through every retry
\* and reconnection (startInLoop(), retry(), restart()).
OneAttempt ==
    failed = "no" =>
        Starts + timers + One(loop[1] \in {"restart", "connect", "connected", "new"})
            + One(connection # 0) <= 1

\* A client that is not destroyed and has a connection has a connected
\* connector, so that startInLoop() would not connect a second time.
ConnectedIsKnown == connection # 0 => cnState = "kConnected"

\* The asserts of a client that called connect() once, and the objects that its
\* functors and callbacks use by a raw this.  startInLoop() always finds the
\* connector disconnected (UdpConnector.cpp:53).  A connection is destroyed in
\* another state than kDisconnected only if disconnect() or the destructor
\* overwrote the state of a closed one, or if the destructor left it open to
\* others and they let go of it (UdpConnection.cpp:90).  Only a destroyed client
\* is missed by newConnection(), removeConnection() and its restart().  The
\* connector is missed by a functor of a stop() that was still queued when a
\* client with a connection was destroyed (UdpConnector.cpp:67, "FIXME: unsafe"),
\* and never by the functors of start() and of the destructor's own stop().
AssertsHold ==
    /\ failed # "startInLoop"
    /\ failed = "~UdpConnection" => calls.disconnect > 0 \/ clientGone
    /\ failed \in {"newConnection", "removeConnection", "restart"} => clientGone
    /\ failed = "UdpConnector" => clientGone /\ calls.stop > 0

\* After stop(), and until the next connect(), no connection is made, unless
\* the loop had tested connect_ and not yet acted on it when stop() was called:
\* then restart() undoes the stop(), or newConnection() goes ahead
\* (UdpClient.cpp:167-171, UdpConnector.cpp:146-148).
StopIsFinal == [][stopped => connection' \in {connection, 0}]_vars

\* A connection is used by the loop only while it exists: none that is queued,
\* handled or current has been destroyed.
NoDangling ==
    \A c \in gone : connection # c /\ loop[2] # c
                      /\ \A i \in 1 .. Len(queue) : queue[i][2] # c

\* A connection that was closed is destroyed, unless an assertion ends the
\* program before.
ClosedIsDestroyed ==
    \A c \in Conns : (c \in closed) ~> (c \in gone \/ failed # "no")

\* The forceClose() of ~UdpClient() closes the connection.
ForceCloseCloses ==
    \A c \in Conns : (user = <<"forceClose", c>>) ~> (c \in closed \/ failed # "no")


\* A connection that was closed, or that the destructor closes, comes to its end.
ClientAnswers == ClosedIsDestroyed /\ ForceCloseCloses
=============================================================================
