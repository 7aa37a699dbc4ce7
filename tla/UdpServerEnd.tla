---------------------------- MODULE UdpServerEnd ----------------------------
(***************************************************************************)
(* The end of a UdpServer: loop() of its own loop returns, ~UdpServer()    *)
(* destroys the connections, the threads of the pool, with their loops,    *)
(* and the acceptor, and then the server's loop goes as well (the order of *)
(* main() in test/udp_chat_server.cpp).  The loops of the pool run on      *)
(* until their thread has been joined.                                     *)
(***************************************************************************)
EXTENDS UdpServer

VARIABLES
    dtor,   \* where the thread of the server's loop is: "loop" while loop() runs;
            \* at "connections" of ~UdpServer(), or at the end of the iteration
            \* of one ("release"); in ~EventLoopThread() of one ("quit", "join");
            \* at the members left ("members"); or past ~EventLoop() ("gone")
    quits   \* how each pool thread meets quit_: its loop() is yet to begin
            \* ("starting") and will clear the one that is set ("clearing"), or
            \* has ("cleared"); "no", or it is set and the thread is "asleep" in
            \* poll() or at or before the "test" of quit_; "last" is the round
            \* after that sleep, and the loop is destroyed "after" it or
            \* "before" it could have one

endVars == <<vars, dtor, quits>>

PoolLoops == Loops \ {Base}
At(where, n) == [at |-> where, n |-> n]

EndInit ==
    /\ Init
    /\ dtor = At("loop", 0)
    /\ quits = [l \in PoolLoops |-> "starting"]

\* The application has called quit() of the server's loop, and loop() returns
\* from its test.  The functors still queued are never run.
LoopReturns ==
    /\ failed = "no" /\ dtor.at = "loop" /\ phase[Base] = "poll"
    /\ dtor' = At("connections", 0)
    /\ UNCHANGED <<vars, quits>>

\* Broken variant: the destructor only empties its map.
DestroyConnectionOnly(c) ==
    /\ failed = "no" /\ dtor.at = "connections" /\ c \in connections
    /\ dtor' = At("release", c)
    /\ UNCHANGED <<vars, quits>>

\* ~UdpServer(), one iteration: connectDestroyed() in place or queued.  From
\* here on the local conn holds the connection in place of the map.
DestroyConnection(c) ==
    /\ failed = "no" /\ dtor.at = "connections" /\ c \in connections
    /\ dtor' = At("release", c)
    /\ IF ioLoop[c] = Base
       THEN DestroyChannel(c) /\ UNCHANGED pending
       ELSE /\ Queue(ioLoop[c], Functor("connectDestroyed", c))
            /\ UNCHANGED <<failed, connVars, user>>
    /\ UNCHANGED <<phase, ready, batch, pos, session, nextLoop, serverVars, quits>>

\* The iteration ends, and conn goes.
ReleaseConnection ==
    LET c == dtor.n
        last == ~Referenced(c, connections \ {c}, held, pending, batch, user)
    IN  /\ failed = "no" /\ dtor.at = "release"
        /\ dtor' = At("connections", 0)
        /\ connections' = connections \ {c}
        /\ Destroy(IF last THEN {c} ELSE {}, Base, pending)
        /\ UNCHANGED <<phase, ready, batch, pos, session, nextLoop, peer, ioLoop,
                       reading, state, chan, sessUp, held, user, ownerVars, quits>>

\* The map is empty: threadPool_ is destroyed, the threads that start() made in
\* their order.
PoolGoes ==
    /\ failed = "no" /\ dtor.at = "connections" /\ connections = {}
    /\ dtor' = IF NumThreads = 0 \/ ~listening THEN At("members", 0) ELSE At("quit", 1)
    /\ UNCHANGED <<vars, quits>>


\* ~EventLoopThread(): quit() wakes up a thread that is in poll() ...
QuitThread(l) ==
    /\ failed = "no" /\ dtor = At("quit", l)
    /\ \E q \in {"asleep", "test", "clearing"} :
          /\ (q = "clearing") = (quits[l] = "starting")
          /\ q = "asleep" => phase[l] = "poll"
          /\ quits' = [quits EXCEPT ![l] = q]
    /\ dtor' = At("join", l)
    /\ UNCHANGED vars

\* ... and join() waits for its end.
JoinThread(l) ==
    /\ failed = "no" /\ dtor = At("join", l) /\ quits[l] \in {"after", "before"}
    /\ dtor' = IF l < NumThreads THEN At("quit", l + 1) ELSE At("members", 0)
    /\ UNCHANGED <<vars, quits>>

-----------------------------------------------------------------------------
\* A pool thread meanwhile: loop() begins, and clears quit_.
BeginLoop(l) ==
    /\ failed = "no" /\ listening /\ quits[l] \in {"starting", "clearing"}
    /\ quits' = [quits EXCEPT ![l] = IF @ = "starting" THEN "no" ELSE "cleared"]
    /\ UNCHANGED <<vars, dtor>>

\* Once quit_ is set it enters no other round, but finishes the one that begins
\* when it is woken up.
PoolStep(l) ==
    /\ quits[l] \notin {"starting", "clearing"}
    /\ phase[l] = "poll" => quits[l] \in {"no", "cleared", "asleep"}
    /\ LoopStep(l)
    /\ quits' = IF quits[l] = "asleep" THEN [quits EXCEPT ![l] = "last"] ELSE quits
    /\ UNCHANGED dtor

\* The test of quit_ ends loop(), and ~EventLoop() of the thread's loop lets
\* go of the functors still queued.
ThreadExits(l) ==
    LET q == [pending EXCEPT ![l] = <<>>]
        dying == {c \in Conns : Alive(c) /\ ~Referenced(c, connections, held, q, batch, user)}
    IN  /\ failed = "no" /\ phase[l] = "poll"
        /\ \/ quits[l] \in {"last", "test"}
           \/ quits[l] = "asleep" /\ Events(l) = {} /\ pending[l] = <<>>
        /\ quits' = [quits EXCEPT ![l] = IF @ = "test" THEN "before" ELSE "after"]
        /\ Destroy(dying, l, q)
        /\ UNCHANGED <<phase, ready, batch, pos, session, nextLoop, peer, ioLoop,
                       reading, state, chan, sessUp, held, user, serverVars, dtor>>

\* ~UdpAcceptor() with its connectors, the end of ~UdpServer(), and ~EventLoop()
\* of the server's loop, whose functors may hold connections of loops that have
\* gone: ~UdpConnection() calls cancel() of its loop.  The accept channel of a
\* server that was not started is new to the poller, whose removeChannel() takes
\* no channel that it has not seen enabled and disabled.
ServerGoes ==
    LET q == [pending EXCEPT ![Base] = <<>>]
        dying == {c \in Conns : Alive(c) /\ ~Referenced(c, connections, held, q, batch, user)}
        orphans == {c \in dying : ioLoop[c] # Base}
    IN  /\ failed = "no" /\ dtor.at = "members"
        /\ dtor' = At("gone", 0)
        /\ listening' = FALSE
        /\ connectors' = [p \in Peers |-> "absent"]
        /\ \/ /\ ~listening
              /\ Fail("neverListened") /\ UNCHANGED <<life, timer, pending>>
           \/ /\ listening /\ orphans # {}
              /\ \A c \in dying : state[c] = "kDisconnected"
              /\ Fail("danglingLoop") /\ UNCHANGED <<life, timer, pending>>
           \/ /\ listening
              /\ orphans = {} \/ \E c \in dying : state[c] # "kDisconnected"
              /\ Destroy(dying, Base, q)
        /\ UNCHANGED <<phase, ready, batch, pos, session, nextLoop, peer, ioLoop,
                       reading, state, chan, sessUp, held, user, nextConnId,
                       connections, connectOn, retryTimers, eraseTimers, quits>>

DtorStep ==
    \/ \E c \in Conns : DestroyConnection(c)
    \/ ReleaseConnection \/ PoolGoes \/ ServerGoes
    \/ \E l \in PoolLoops : QuitThread(l) \/ JoinThread(l)

\* The server's loop and the application's threads run until loop() returns.
Serving(step) == dtor.at = "loop" /\ step /\ UNCHANGED <<dtor, quits>>

EndNext ==
    \/ Serving(BaseStep \/ UserStep \/ LoopStep(Base))
    \/ \E l \in PoolLoops : BeginLoop(l) \/ PoolStep(l) \/ ThreadExits(l)
    \/ LoopReturns \/ DtorStep

EndSpec == EndInit /\ [][EndNext]_endVars

-----------------------------------------------------------------------------
\* The loop went without a round after its quit(); the server's own may always.
NoLastRound(l) == l # Base => quits[l] = "before"

\* ~UdpServer() (UdpServer.cpp:37-50) leaves no connection behind, except one that
\* the application keeps and whose loop dropped its connectDestroyed(), so that
\* the application was never told.
NoneIsLeft ==
    dtor.at = "gone" /\ failed = "no" => \A c \in Conns :
        Alive(c) => held[c] /\ ioLoop[c] # Base /\ NoLastRound(ioLoop[c])

\* While the threads of the pool run on, ~UdpServer() fails in these ways only:
\* ~UdpAcceptor() of a server that was never started, whose channel the poller
\* does not know (UdpAcceptor.cpp:41-42, the assert of PollPoller.cc:124);
\* connectDestroyed() for a connection in kDisconnecting, whose channel is still
\* enabled; a loop that meets quit_ without one more round, and so drops a queued
\* connectDestroyed(); the last pointer dropped by the server's thread, whose
\* cancel() is only queued while the update timer may run; and a connection that
\* closed by itself, kept by a functor of the server's loop longer than its own
\* loop lasts.
FailsInWindows ==
    dtor.at # "loop" =>
        /\ failed \in {"no", "isNoneEvent", "dtorState", "channelDtor",
                      "danglingTimer", "danglingThis", "danglingLoop", "neverListened"}
        /\ failed = "neverListened" => nextConnId = 1
        /\ failed = "isNoneEvent" => \E c \in Conns : state[c] = "kDisconnecting"
        /\ failed \in {"dtorState", "channelDtor"} => \E c \in Conns :
              life[c] = "dead" /\ chan[c] # "removed" /\ NoLastRound(ioLoop[c])
        /\ failed \in {"danglingTimer", "danglingThis"} => \E c \in Conns :
              life[c] = "dead" /\ Queued(pending, "cancelInLoop", c)

\* quit() came before the pool thread's loop(), which cleared it, and join() waits
\* for ever (EventLoop.cc:108).
QuitIsLost == dtor.at = "join" /\ quits[dtor.n] = "cleared"

\* ~UdpServer() returns: a join() does not wait for ever, unless its quit() is lost.
ServerEnds == dtor.at # "loop" ~> (dtor.at = "gone" \/ failed # "no" \/ QuitIsLost)

\* A closed connection is eventually destroyed, through the two queued hops
\* that take it from its loop to the server's and back (UdpServer.cpp:112-132),
\* or by the destructor.
ClosedIsReaped ==
    \A c \in Conns :
        state[c] = "kDisconnected" ~> (life[c] = "dead" \/ failed # "no" \/ QuitIsLost)

\* The acceptor eventually forgets the peer of a closed connection, so that
\* the peer can connect again (UdpAcceptor.cpp:106-118).
PeerIsForgotten ==
    \A c \in Conns : (c \in connections /\ state[c] = "kDisconnected") ~>
        \/ failed # "no" \/ QuitIsLost
        \/ \E p \in Peers : peer[c] = p /\ connectors[p] = "absent"


\* A closed connection is destroyed, and its peer can connect again, while the
\* server lives and when it ends.
UdpServerAnswers == ClosedIsReaped /\ PeerIsForgotten
=============================================================================
