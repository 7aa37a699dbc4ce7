--------------------------- MODULE UdpConnection ---------------------------
(***************************************************************************)
(* UdpConnection: its state machine, its channel, its session update timer *)
(* and its life under shared_ptr, for the connections 1 .. MaxConns of one *)
(* owner.  The owner's closeCallback_ is a parameter of the handlers that  *)
(* reach handleClose().                                                    *)
(*                                                                         *)
(* KcpSession is external: inside one of its calls (session[l]) it may     *)
(* call DoSend, DoRecv and the connection callback any number of times.    *)
(***************************************************************************)
EXTENDS IoLoops

CONSTANTS
    MaxConns,        \* bound on the number of connections ever made
    UserCalls,       \* what an application thread calls on a connection
    MaxUserCalls,    \* bound on how many such calls it makes
    CallbackCalls,   \* what the application calls from inside a callback
    WriteCallback,   \* the application has set writeCompleteCallback_
    KeepAfterDown,   \* the application keeps its UdpConnectionPtr after DOWN
    RepeatedCloses   \* kernel and session may report the end of a connection
                     \* that is already closed

ASSUME ConnAssumption ==
    /\ MaxConns \in Nat /\ MaxUserCalls \in Nat
    /\ {WriteCallback, KeepAfterDown, RepeatedCloses} \subseteq BOOLEAN

Conns == 1 .. MaxConns
UserThread == NumThreads + 1   \* the application thread, which is no loop's

VARIABLES
    peer, ioLoop,   \* peerAddr_ and loop_
    state,          \* state_; "none" before construction
    chan,           \* channel_: "new" to the poller, registered and "reading",
                    \* registered with "none" of its events, or "removed"
    reading,        \* reading_
    timer,          \* curKcpsessUpTimerId_ is in the timer queue
    life,           \* "unborn", "alive" or "dead"
    sessUp,         \* kcpSession_->IsConnected()
    held,           \* the application holds a UdpConnectionPtr
    user            \* the call the application thread is in the middle of, and
                    \* how many more it will make

connVars == <<peer, ioLoop, state, chan, reading, timer, life, sessUp, held>>
vars0 == <<peer, ioLoop, reading, life>>

Calling(op, c, n) == [op |-> op, conn |-> c, left |-> n]
Idle(n) == Calling("none", 0, n)
UserIdle == user.op = "none"

ConnInit ==
    /\ peer = [c \in Conns |-> 0]
    /\ ioLoop = [c \in Conns |-> Base]
    /\ state = [c \in Conns |-> "none"]
    /\ chan = [c \in Conns |-> "new"]
    /\ reading = [c \in Conns |-> TRUE]
    /\ timer = [c \in Conns |-> FALSE]
    /\ life = [c \in Conns |-> "unborn"]
    /\ sessUp = [c \in Conns |-> FALSE]
    /\ held = [c \in Conns |-> FALSE]
    /\ user = Idle(MaxUserCalls)

\* A failed assert, or a use of a destroyed object: the process is over.
Fail(why) == failed' = why

Queue(l, f) == pending' = [pending EXCEPT ![l] = Append(@, f)]

-----------------------------------------------------------------------------
\* shared_ptr: who keeps c alive, given the owner's map, the application's
\* pointers, the loops' queues and the application thread's call.
SharedOps == {"connectEstablished", "connectDestroyed", "removeConnectionInLoop",
              "forceCloseInLoop", "writeComplete"}

Bound(queues, c) ==
    \E l \in Loops : \E i \in 1 .. Len(queues[l]) :
        queues[l][i].op \in SharedOps /\ queues[l][i].arg = c

Referenced(c, owned, ptrs, queues, batches, call) ==
    c \in owned \/ ptrs[c] \/ Bound(queues, c) \/ Bound(batches, c) \/ call.conn = c

\* ~UdpConnection() of every c in dying, in any order, on the given thread; q is
\* what the queues already hold after the step.  cancel() of the update timer
\* takes effect at once on the connection's own loop and is queued from any
\* other thread.
Lists(S) ==
    {o \in UNION {[1 .. n -> S] : n \in 0 .. MaxConns} :
        /\ \A c \in S : \E i \in DOMAIN o : o[i] = c
        /\ \A i, j \in DOMAIN o : o[i] = o[j] => i = j}
Cancels(dying, thread, l) ==
    {[i \in DOMAIN o |-> Functor("cancelInLoop", o[i])] :
        o \in Lists({c \in dying : ioLoop[c] = l /\ l # thread})}
QueueCancels(dying, thread, q) ==
    \E s \in [Loops -> UNION {Cancels(dying, thread, l) : l \in Loops}] :
        /\ \A l \in Loops : s[l] \in Cancels(dying, thread, l)
        /\ pending' = [l \in Loops |-> q[l] \o s[l]]

\* Broken variant: the destructor leaves the update timer in the queue.
DestroyNoCancel(dying, thread, q) ==
    /\ life' = [c \in Conns |-> IF c \in dying THEN "dead" ELSE life[c]]
    /\ timer' = timer
    /\ QueueCancels(dying, thread, q)
    /\ failed' = IF \E c \in dying : state[c] # "kDisconnected" THEN "dtorState"
                 ELSE IF \E c \in dying : chan[c] # "removed" THEN "channelDtor"
                 ELSE IF \E c \in dying, l \in Loops : session[l].conn = c
                      THEN "danglingThis"
                 ELSE "no"

Destroy(dying, thread, q) ==
    /\ life' = [c \in Conns |-> IF c \in dying THEN "dead" ELSE life[c]]
    /\ timer' = [c \in Conns |-> timer[c] /\ ~(c \in dying /\ ioLoop[c] = thread)]
    /\ QueueCancels(dying, thread, q)
    /\ failed' = IF \E c \in dying : state[c] # "kDisconnected" THEN "dtorState"
                 ELSE IF \E c \in dying : chan[c] # "removed" THEN "channelDtor"
                 ELSE IF \E c \in dying, l \in Loops : session[l].conn = c
                      THEN "danglingThis"
                 ELSE "no"

Alive(c) == life[c] = "alive"

-----------------------------------------------------------------------------
\* update() of a channel that was removed fails an assert of the poller.
Updatable(c) == chan[c] # "removed"

\* handleClose(), which does not prevent closing twice, up to the connection
\* callback; the owner of the connection adds closeCallback_, which is all that
\* changes pending and failed.
HandleClose(c) ==
    IF Updatable(c)
    THEN /\ state' = [state EXCEPT ![c] = "kDisconnected"]
         /\ chan' = [chan EXCEPT ![c] = "none"]
         /\ held' = [held EXCEPT ![c] = @ /\ KeepAfterDown]
    ELSE UNCHANGED <<state, chan, held>>

\* What the environment may report on c: without RepeatedCloses nothing ends
\* a connection that has been closed, which handleClose() shows by disableAll()
\* even if state_ was overwritten since.  Bound: one repeated report at a time.
MayClose(c) ==
    \/ state[c] # "kDisconnected" /\ (chan[c] = "reading" \/ ~reading[c])
    \/ RepeatedCloses /\ Times(pending[Base], Functor("removeConnectionInLoop", c)) < 2

\* connectEstablished() on a connection in kConnecting, up to the call of
\* kcpSession_->Update() in KcpSessionUpdate().
ConnectEstablished(l, c) ==
    /\ state' = [state EXCEPT ![c] = "kConnected"]
    /\ chan' = [chan EXCEPT ![c] = "reading"]
    /\ Enter(l, "Update", c)

\* connectDestroyed(), which changes neither the queues nor the session.
DestroyChannel(c) ==
    LET up == state[c] = "kConnected"
        none == up \/ chan[c] = "none"
    IN  /\ state' = IF up THEN [state EXCEPT ![c] = "kDisconnected"] ELSE state
        /\ held' = IF up /\ ~KeepAfterDown THEN [held EXCEPT ![c] = FALSE] ELSE held
        /\ chan' = IF none THEN [chan EXCEPT ![c] = "removed"] ELSE chan
        /\ Fail(IF none THEN "no"
                ELSE IF chan[c] = "removed" THEN "removedTwice" ELSE "isNoneEvent")
        /\ UNCHANGED <<vars0, timer, sessUp, user>>

\* connectDestroyed() run by the owner's functor.
ConnectDestroyed(l) ==
    /\ Runs(l, "connectDestroyed")
    /\ DestroyChannel(Arg(l))
    /\ UNCHANGED <<pending, session>>

\* forceCloseInLoop(), which does nothing for a closed connection.
ForceCloseInLoop(l, c) ==
    /\ Runs(l, "forceCloseInLoop") /\ Arg(l) = c
    /\ state[c] \in {"kConnected", "kDisconnecting"}
    /\ HandleClose(c)
    /\ UNCHANGED <<session, vars0, timer, sessUp, user>>

ForceCloseIgnored(l) ==
    /\ Runs(l, "forceCloseInLoop")
    /\ state[Arg(l)] \notin {"kConnected", "kDisconnecting"}
    /\ UNCHANGED <<pending, session, failed, connVars, user>>

-----------------------------------------------------------------------------
\* The session update timer calls KcpSessionUpdate() through a raw this.
KcpSessionUpdate(l, c) ==
    /\ Takes(l, Functor("update", c))
    /\ timer' = [timer EXCEPT ![c] = FALSE]
    /\ IF Alive(c) THEN Enter(l, "Update", c) /\ UNCHANGED failed
                   ELSE Fail("danglingTimer") /\ UNCHANGED session
    /\ UNCHANGED <<phase, pending, batch, pos, nextLoop, vars0, state, chan,
                   sessUp, held, user>>

\* Update() returned the time of the next update.
UpdateAgain(l) ==
    LET c == session[l].conn IN
    /\ Inside(l, {"Update"})
    /\ timer' = [timer EXCEPT ![c] = TRUE]
    /\ Leave(l)
    /\ UNCHANGED <<phase, ready, pending, batch, pos, nextLoop, failed, vars0,
                   state, chan, sessUp, held, user>>

\* Update() returned a negative value.
UpdateFails(l, c) ==
    /\ Inside(l, {"Update"}) /\ session[l].conn = c
    /\ MayClose(c)
    /\ HandleClose(c)
    /\ Leave(l)
    /\ UNCHANGED <<phase, ready, batch, pos, nextLoop, vars0, timer, sessUp, user>>

\* DoSend() wrote the datagram and queues writeCompleteCallback_.  Bound: one
\* such functor at a time for each connection.
DoSendWritten(l) ==
    LET c == session[l].conn IN
    /\ Inside(l, {"Update", "Recv", "Send"})
    /\ WriteCallback
    /\ ~Queued(pending, "writeComplete", c) /\ ~Queued(batch, "writeComplete", c)
    /\ Queue(l, Functor("writeComplete", c))
    /\ UNCHANGED <<phase, ready, batch, pos, session, nextLoop, failed, connVars, user>>

\* DoSend() or DoRecv() got an error that SO_ERROR confirms, or DoRecv() an
\* empty datagram.
SocketCloses(l, c) ==
    /\ Inside(l, {"Update", "Recv", "Send"}) /\ session[l].conn = c
    /\ MayClose(c)
    /\ HandleClose(c)
    /\ UNCHANGED <<phase, ready, batch, pos, session, nextLoop, vars0, timer,
                   sessUp, user>>

\* onKcpsessConnection() for a session that came up: the application takes
\* the pointer if connected(), and drops it otherwise.
KcpsessUp(l) ==
    LET c == session[l].conn IN
    /\ Inside(l, {"Update", "Recv"})
    /\ ~sessUp[c]
    /\ sessUp' = [sessUp EXCEPT ![c] = TRUE]
    /\ held' = [held EXCEPT ![c] = state[c] = "kConnected" \/ (@ /\ KeepAfterDown)]
    /\ UNCHANGED <<loopVars, vars0, state, chan, timer, user>>

\* onKcpsessConnection() for a session that went down.
KcpsessDown(l, c) ==
    /\ Inside(l, {"Update", "Recv"}) /\ session[l].conn = c
    /\ sessUp[c]
    /\ MayClose(c)
    /\ sessUp' = [sessUp EXCEPT ![c] = FALSE]
    /\ HandleClose(c)
    /\ UNCHANGED <<phase, ready, batch, pos, session, nextLoop, vars0, timer, user>>

-----------------------------------------------------------------------------
\* Channel::handleEvent() with POLLERR: handleError(), and handleClose() when
\* SO_ERROR is set.  The same revents may hold POLLIN too.
HandleError(l, c) ==
    /\ Takes(l, Functor("channel", c))
    /\ MayClose(c)
    /\ HandleClose(c)
    /\ Enter(l, "Revents", c)
    /\ UNCHANGED <<phase, batch, pos, nextLoop, vars0, timer, sessUp, user>>

\* Channel::handleEvent() with POLLIN: handleRead() calls kcpSession_->Recv().
HandleRead(l, c) ==
    /\ \/ Takes(l, Functor("channel", c))
       \/ Inside(l, {"Revents"}) /\ session[l].conn = c /\ UNCHANGED ready
    /\ Enter(l, "Recv", c)
    /\ UNCHANGED <<phase, pending, batch, pos, nextLoop, failed, connVars, user>>

\* Recv() has nothing more, Send() returns, or there was no POLLIN.
SessionReturns(l) ==
    /\ Inside(l, {"Revents", "Recv", "Send"})
    /\ Leave(l)
    /\ UNCHANGED <<phase, ready, pending, batch, pos, nextLoop, failed, connVars, user>>

\* enableReading() and disableReading() fail an assert of the poller once the
\* channel has been removed.
SetReading(c, on) ==
    IF IF on THEN reading[c] /\ chan[c] = "reading"
             ELSE ~reading[c] /\ chan[c] # "reading"
    THEN UNCHANGED <<chan, reading, failed>>
    ELSE IF chan[c] = "removed" THEN Fail("updateChannel") /\ UNCHANGED <<chan, reading>>
    ELSE /\ chan' = [chan EXCEPT ![c] = IF on THEN "reading" ELSE "none"]
         /\ reading' = [reading EXCEPT ![c] = on]
         /\ UNCHANGED failed

\* Broken variant: forceClose() without its test of state_.
CallbackForceCloseAlways(l) ==
    LET c == session[l].conn IN
    /\ Inside(l, {"Update", "Recv"}) /\ "forceClose" \in CallbackCalls
    /\ ~Queued(pending, "forceCloseInLoop", c)  \* bound: one in each queue
    /\ state' = [state EXCEPT ![c] = "kDisconnecting"]
    /\ Queue(l, Functor("forceCloseInLoop", c))
    /\ UNCHANGED <<phase, ready, batch, pos, session, nextLoop, failed, vars0,
                   chan, timer, sessUp, held, user>>

\* The application calls the connection from its message or connection
\* callback, that is, on the connection's loop: forceClose() ...
CallbackForceClose(l) ==
    LET c == session[l].conn IN
    /\ Inside(l, {"Update", "Recv"}) /\ "forceClose" \in CallbackCalls
    /\ state[c] \in {"kConnected", "kDisconnecting"}
    /\ ~Queued(pending, "forceCloseInLoop", c)  \* bound: one in each queue
    /\ state' = [state EXCEPT ![c] = "kDisconnecting"]
    /\ Queue(l, Functor("forceCloseInLoop", c))
    /\ UNCHANGED <<phase, ready, batch, pos, session, nextLoop, failed, vars0,
                   chan, timer, sessUp, held, user>>

\* ... shutdown() ...
CallbackShutdown(l) ==
    LET c == session[l].conn IN
    /\ Inside(l, {"Update", "Recv"}) /\ "shutdown" \in CallbackCalls
    /\ state[c] = "kConnected"
    /\ state' = [state EXCEPT ![c] = "kDisconnecting"]
    /\ UNCHANGED <<loopVars, vars0, chan, timer, sessUp, held, user>>

\* ... and startRead() or stopRead(), which run in place on this thread.
CallbackSetReading(l, on) ==
    LET c == session[l].conn IN
    /\ Inside(l, {"Update", "Recv"})
    /\ (IF on THEN "startRead" ELSE "stopRead") \in CallbackCalls
    /\ SetReading(c, on)
    /\ UNCHANGED <<phase, ready, pending, batch, pos, session, nextLoop, peer,
                   ioLoop, state, life, timer, sessUp, held, user>>

-----------------------------------------------------------------------------
\* Functors that hold only a raw this: sendInLoop() ...
SendInLoop(l) ==
    LET c == Arg(l) IN
    /\ Runs(l, "sendInLoop")
    /\ IF ~Alive(c) THEN Fail("danglingThis") /\ UNCHANGED session
       ELSE IF state[c] = "kDisconnected" THEN UNCHANGED <<session, failed>>
       ELSE Enter(l, "Send", c) /\ UNCHANGED failed
    /\ UNCHANGED <<pending, connVars, user>>

\* ... startReadInLoop() and stopReadInLoop().
SetReadingInLoop(l, on) ==
    LET c == Arg(l) IN
    /\ Runs(l, IF on THEN "startReadInLoop" ELSE "stopReadInLoop")
    /\ IF Alive(c) THEN SetReading(c, on)
                   ELSE Fail("danglingThis") /\ UNCHANGED <<chan, reading>>
    /\ UNCHANGED <<pending, session, peer, ioLoop, state, life, timer, sessUp,
                   held, user>>

\* The cancel() that ~UdpConnection() queued from another thread.
CancelInLoop(l) ==
    /\ Runs(l, "cancelInLoop")
    /\ timer' = [timer EXCEPT ![Arg(l)] = FALSE]
    /\ UNCHANGED <<pending, session, failed, vars0, state, chan, sessUp, held, user>>

\* writeCompleteCallback_ only informs the application.
WriteComplete(l) ==
    /\ Runs(l, "writeComplete")
    /\ UNCHANGED <<pending, session, failed, connVars, user>>

\* The end of a batch lets go of the connections its functors were bound to.
EndBatch(l, owned) ==
    LET left == [batch EXCEPT ![l] = <<>>]
        dying == {c \in Conns : Alive(c) /\ ~Referenced(c, owned, held, pending, left, user)}
    IN  /\ EndFunctors(l)
        /\ Destroy(dying, l, pending)
        /\ UNCHANGED <<peer, ioLoop, reading, state, chan, sessUp, held, user>>

-----------------------------------------------------------------------------
\* The application thread.  forceClose(), shutdown() and send() test state_
\* without a lock ("FIXME: use compare and swap"): first the test ...
FunctorOf(op) == IF op = "forceClose" THEN "forceCloseInLoop" ELSE "sendInLoop"
UserTests(op, c) ==
    /\ failed = "no" /\ UserIdle /\ user.left > 0
    /\ op \in UserCalls \cap {"forceClose", "shutdown", "send"}
    /\ held[c]
    /\ state[c] = "kConnected" \/ (op = "forceClose" /\ state[c] = "kDisconnecting")
    /\ user' = Calling(op, c, user.left - 1)
    /\ UNCHANGED <<loopVars, connVars>>

\* ... then the call's effect, and the end of the thread's own reference.
UserActs(owned) ==
    LET c == user.conn
        l == ioLoop[c]
        f == IF user.op = "shutdown" THEN <<>> ELSE <<Functor(FunctorOf(user.op), c)>>
        q == [pending EXCEPT ![l] = @ \o f]
        last == ~Referenced(c, owned, held, q, batch, user')
    IN  /\ failed = "no" /\ ~UserIdle
        /\ user' = Idle(user.left)
        /\ IF user.op = "send"
           THEN UNCHANGED state /\ Destroy(IF last THEN {c} ELSE {}, UserThread, q)
           ELSE /\ state' = [state EXCEPT ![c] = "kDisconnecting"]
                /\ life' = IF last THEN [life EXCEPT ![c] = "dead"] ELSE life
                /\ failed' = IF last THEN "dtorState" ELSE "no"
                /\ pending' = q
                /\ UNCHANGED timer
        /\ UNCHANGED <<phase, ready, batch, pos, session, nextLoop, peer, ioLoop,
                       chan, reading, sessUp, held>>

\* startRead() and stopRead() queue a functor without any test.
UserSetsReading(c, on) ==
    LET op == IF on THEN "startReadInLoop" ELSE "stopReadInLoop" IN
    /\ failed = "no" /\ UserIdle /\ user.left > 0
    /\ held[c]
    /\ (IF on THEN "startRead" ELSE "stopRead") \in UserCalls
    /\ Queue(ioLoop[c], Functor(op, c))
    /\ user' = Idle(user.left - 1)
    /\ UNCHANGED <<phase, ready, batch, pos, session, nextLoop, failed, connVars>>

\* The application thread lets go of a pointer it kept.
UserReleases(c, owned) ==
    LET ptrs == [held EXCEPT ![c] = FALSE]
        last == ~Referenced(c, owned, ptrs, pending, batch, user)
    IN  /\ failed = "no" /\ UserIdle /\ KeepAfterDown
        /\ held[c]
        /\ held' = ptrs
        /\ Destroy(IF last THEN {c} ELSE {}, UserThread, pending)
        /\ UNCHANGED <<phase, ready, batch, pos, session, nextLoop, peer, ioLoop,
                       reading, state, chan, sessUp, user>>
=============================================================================
