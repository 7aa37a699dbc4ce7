---------------------------- MODULE TcpConnection ----------------------------
(***************************************************************************)
(* One TcpConnection: its loop thread, which runs its handlers and functors  *)
(* and the application's callbacks, and other threads that call its public    *)
(* methods through a TcpConnectionPtr.  Its owner (TcpServer or TcpClient)    *)
(* is kept to the reference it holds and to its closeCallback_, which queues  *)
(* connectDestroyed().                                                        *)
(*                                                                           *)
(* state_ is written without a lock ("FIXME: use compare and swap"): a call   *)
(* from another thread tests it in one step and writes it in a later one.     *)
(* A byte is <<message, i>>; the socket takes any prefix of what it is given. *)
(***************************************************************************)
EXTENDS Integers, Sequences, FiniteSets

CONSTANTS
    OtherThreads,     \* threads that hold a TcpConnectionPtr
    MessageLength,    \* bytes of a message
    highWaterMark,
    MaxSends, MaxCalls  \* bounds: calls of send(), and of the other methods

LoopThread == "loop"
TcpThreads == {LoopThread} \union OtherThreads

ASSUME TcpAssumption == MessageLength \in Nat
ASSUME OtherAssumption == LoopThread \notin OtherThreads

VARIABLES
    tcpState,         \* state_
    events,           \* the channel's events_
    tcpReading,       \* reading_
    outputBuffer,
    wire,             \* the bytes the socket took
    shutWrite,        \* shutdownWrite() was called on the socket: "no", or by whom
    peerGone,         \* the peer reset the connection: every write fails
    functors,         \* the loop's pendingFunctors_, <<name, message>>
    delayed,          \* timers of forceCloseWithDelay()
    call,             \* what each other thread is in the middle of
    holds,            \* the other threads that hold a reference
    owned,            \* the owner holds its reference
    freed,            \* ~TcpConnection ran
    sent,             \* who called send() for each message
    accepted,         \* the bytes sendInLoop() took, in its order
    lost,             \* messages sendInLoop() gave up on a socket shut down here
    shutBy,           \* the threads whose shutdown() went ahead
    calls,            \* calls made besides send()
    hazards,          \* which of the interleavings named at TcpAssertsHold happened
    tcpFailed         \* the assert that failed, or "no"

tcpVars == <<tcpState, events, tcpReading, outputBuffer, wire, shutWrite, peerGone,
             functors, delayed, call, holds, owned, freed, sent, accepted, lost, shutBy, calls,
             hazards, tcpFailed>>

Up == {"kConnected", "kDisconnecting"}
Going == tcpFailed = "no" /\ ~freed

(* As TcpServer::newConnection leaves it: connectEstablished is about to run. *)
TcpInit ==
    /\ tcpState = "kConnecting" /\ events = {} /\ tcpReading = TRUE
    /\ outputBuffer = << >> /\ wire = << >> /\ shutWrite = "no"
    /\ peerGone = FALSE /\ functors = <<<<"connectEstablished", 0>>>> /\ delayed = 0
    /\ call = [t \in OtherThreads |-> "none"]
    /\ holds = {} /\ owned = TRUE /\ freed = FALSE
    /\ sent = << >> /\ accepted = << >> /\ lost = {} /\ shutBy = {} /\ calls = 0
    /\ hazards = {} /\ tcpFailed = "no"

Bytes(m) == [i \in 1..MessageLength |-> <<m, i>>]

streamVars == <<outputBuffer, wire, accepted, lost>>
lifeVars == <<delayed, holds, owned, freed>>

-----------------------------------------------------------------------------
(* Steps of the loop thread.  Each is given the functors left to run. *)

\* Broken variant: writes directly whatever is buffered.
sendInLoopDirectly(m, n, rest) ==
    LET left == SubSeq(Bytes(m), n + 1, MessageLength)
    IN  IF tcpState = "kDisconnected" \/ shutWrite # "no"
        THEN functors' = rest /\ UNCHANGED <<events, streamVars>>
        ELSE /\ wire' = wire \o SubSeq(Bytes(m), 1, n)
             /\ accepted' = accepted \o Bytes(m)
             /\ outputBuffer' = outputBuffer \o left
             /\ events' = IF left = << >> THEN events ELSE events \union {"write"}
             /\ functors' = rest
             /\ UNCHANGED lost

\* Broken variant: buffers the rest without enableWriting().
sendInLoopSilently(m, n, rest) ==
    LET nwrote == IF outputBuffer = << >> THEN n ELSE 0
    IN  IF tcpState = "kDisconnected" \/ shutWrite # "no"
        THEN functors' = rest /\ UNCHANGED <<events, streamVars>>
        ELSE /\ wire' = wire \o SubSeq(Bytes(m), 1, nwrote)
             /\ accepted' = accepted \o Bytes(m)
             /\ outputBuffer' = outputBuffer \o SubSeq(Bytes(m), nwrote + 1, MessageLength)
             /\ functors' = rest
             /\ UNCHANGED <<events, lost>>

(* sendInLoop: `n` bytes go out directly, or the write fails with EPIPE or      *)
(* ECONNRESET, once the socket is shut down or reset by the peer, and the        *)
(* message is dropped.                                                           *)
sendInLoop(m, n, rest) ==
    LET data   == Bytes(m)
        direct == "write" \notin events /\ outputBuffer = << >>
        fault  == direct /\ (shutWrite # "no" \/ peerGone)
        nwrote == IF direct /\ ~fault THEN n ELSE 0
        left   == SubSeq(data, nwrote + 1, MessageLength)
        high   == /\ Len(outputBuffer) + Len(left) >= highWaterMark
                  /\ Len(outputBuffer) < highWaterMark
    IN  IF tcpState = "kDisconnected"
        THEN functors' = rest /\ UNCHANGED <<events, streamVars>>
        ELSE IF fault
        THEN /\ lost' = IF shutWrite # "no" THEN lost \union {m} ELSE lost
             /\ functors' = rest
             /\ UNCHANGED <<events, outputBuffer, wire, accepted>>
        ELSE /\ wire' = wire \o SubSeq(data, 1, nwrote)
             /\ accepted' = accepted \o data
             /\ outputBuffer' = outputBuffer \o left
             /\ events' = IF left = << >> THEN events ELSE events \union {"write"}
             /\ functors' = rest \o (IF left = << >> THEN <<<<"writeComplete", 0>>>>
                                     ELSE IF high THEN <<<<"highWaterMark", 0>>>>
                                     ELSE << >>)
             /\ UNCHANGED lost

\* Broken variant: the owner drops the connection without connectDestroyed().
handleCloseQuietly(rest) ==
    /\ tcpState' = "kDisconnected"
    /\ events' = {}
    /\ owned' = FALSE
    /\ functors' = rest
    /\ UNCHANGED tcpFailed

(* handleClose: kDisconnected, no events, and the owner's closeCallback_, which *)
(* gives its reference to a queued connectDestroyed().                          *)
handleClose(rest) ==
    IF tcpState \notin Up \/ ~owned
    THEN /\ tcpFailed' = "handleClose"
         /\ functors' = rest
         /\ UNCHANGED <<tcpState, events, owned>>
    ELSE /\ tcpState' = "kDisconnected"
         /\ events' = {}
         /\ owned' = FALSE
         /\ functors' = Append(rest, <<"connectDestroyed", 0>>)
         /\ UNCHANGED tcpFailed

(* forceClose on the loop thread or from a timer of it. *)
forceClose(rest) ==
    /\ tcpState' = IF tcpState \in Up THEN "kDisconnecting" ELSE tcpState
    /\ functors' = IF tcpState \in Up THEN Append(rest, <<"forceCloseInLoop", 0>>) ELSE rest

(* ~TcpConnection when the last reference goes: the owner's, another thread's   *)
(* or a functor's.  The functors bound to `this` hold none.                     *)
Shared == {"connectEstablished", "connectDestroyed", "forceCloseInLoop",
           "writeComplete", "highWaterMark"}

TcpReferenced(fs, threads) ==
    owned \/ threads # {} \/ \E i \in DOMAIN fs : fs[i][1] \in Shared

(* A functor or a thread lets go, leaving these. *)
Drop(fs, threads) ==
    /\ freed' = ~TcpReferenced(fs, threads)
    /\ tcpFailed' = IF freed' /\ tcpState # "kDisconnected" THEN "~TcpConnection" ELSE "no"

Head1 == Head(functors)[1]
Rest == Tail(functors)
TcpRuns(name) == Going /\ functors # << >> /\ Head1 = name

(* connectEstablished; connectionCallback_ hands the pointer to other threads. *)
RunEstablished ==
    /\ TcpRuns("connectEstablished")
    /\ tcpState' = "kConnected"
    /\ events' = events \union {"read"}
    /\ holds' = OtherThreads
    /\ functors' = Rest
    /\ UNCHANGED <<tcpReading, shutWrite, peerGone, streamVars, delayed, owned, freed,
                   call, sent, shutBy, calls, hazards, tcpFailed>>

RunSend ==
    /\ TcpRuns("sendInLoop")
    /\ \E n \in 0..MessageLength : sendInLoop(Head(functors)[2], n, Rest)
    /\ UNCHANGED <<tcpState, tcpReading, shutWrite, peerGone, lifeVars, call, sent,
                   shutBy, calls, hazards, tcpFailed>>

\* Broken variant: does not wait for the buffer to drain.
shutdownAtOnce ==
    IF shutWrite = "no" THEN "shutdown" ELSE shutWrite

(* shutdownInLoop: handleWrite does it later if something is still buffered. *)
shutdownInLoop ==
    IF "write" \notin events /\ shutWrite = "no" THEN "shutdown" ELSE shutWrite

RunShutdown ==
    /\ TcpRuns("shutdownInLoop")
    /\ shutWrite' = shutdownInLoop
    /\ functors' = Rest
    /\ UNCHANGED <<tcpState, events, tcpReading, peerGone, streamVars, lifeVars, call,
                   sent, shutBy, calls, hazards, tcpFailed>>

(* startReadInLoop and stopReadInLoop do not look at state_. *)
startReadInLoop ==
    /\ IF ~tcpReading \/ "read" \notin events
       THEN events' = events \union {"read"} /\ tcpReading' = TRUE
       ELSE UNCHANGED <<events, tcpReading>>
    /\ hazards' = hazards \union {h \in {"lateStart"} : ~owned}

stopReadInLoop ==
    /\ IF tcpReading \/ "read" \in events
       THEN events' = events \ {"read"} /\ tcpReading' = FALSE
       ELSE UNCHANGED <<events, tcpReading>>
    /\ UNCHANGED hazards

RunReading ==
    /\ \/ TcpRuns("startReadInLoop") /\ startReadInLoop
       \/ TcpRuns("stopReadInLoop") /\ stopReadInLoop
    /\ functors' = Rest
    /\ UNCHANGED <<tcpState, shutWrite, peerGone, streamVars, lifeVars, call, sent,
                   shutBy, calls, tcpFailed>>

\* Broken variant: does not look at state_ again.
RunForceCloseBlind ==
    /\ TcpRuns("forceCloseInLoop")
    /\ handleClose(Rest)
    /\ UNCHANGED <<tcpReading, shutWrite, peerGone, streamVars, delayed, holds, freed,
                   call, sent, shutBy, calls, hazards>>

RunForceClose ==
    /\ TcpRuns("forceCloseInLoop")
    /\ IF tcpState \in Up THEN handleClose(Rest) /\ UNCHANGED freed
       ELSE functors' = Rest /\ Drop(Rest, holds) /\ UNCHANGED <<tcpState, events, owned>>
    /\ UNCHANGED <<tcpReading, shutWrite, peerGone, streamVars, delayed, holds, call,
                   sent, shutBy, calls, hazards>>

(* writeCompleteCallback_ and highWaterMarkCallback_. *)
RunUserCallback ==
    /\ TcpRuns("writeComplete") \/ TcpRuns("highWaterMark")
    /\ functors' = Rest
    /\ Drop(Rest, holds)
    /\ UNCHANGED <<tcpState, events, tcpReading, shutWrite, peerGone, streamVars,
                   delayed, holds, owned, call, sent, shutBy, calls, hazards>>

(* connectDestroyed, with the asserts of Channel::remove and ~TcpConnection; the *)
(* caller's reference goes with it.                                              *)
connectDestroyed(rest) ==
    LET up   == tcpState = "kConnected"
        st   == IF up THEN "kDisconnected" ELSE tcpState
        ev   == IF up THEN {} ELSE events
        last == holds = {} /\ \A i \in DOMAIN rest : rest[i][1] \notin Shared
    IN  /\ tcpState' = st
        /\ events' = {}
        /\ functors' = rest
        /\ freed' = last
        /\ tcpFailed' = IF ev # {} THEN "remove"
                        ELSE IF last /\ st # "kDisconnected" THEN "~TcpConnection" ELSE "no"
        /\ UNCHANGED <<tcpReading, shutWrite, peerGone, streamVars, delayed, holds,
                       call, sent, shutBy, calls>>

RunDestroyed ==
    /\ TcpRuns("connectDestroyed")
    /\ connectDestroyed(Rest)
    /\ UNCHANGED <<owned, hazards>>

(* ~TcpServer on the connection's own loop destroys it in place. *)
OwnerGoes ==
    /\ Going /\ owned /\ tcpState # "kConnecting"
    /\ owned' = FALSE
    /\ hazards' = hazards
         \union {h \in {"lateCall"} : \E i \in DOMAIN functors : functors[i][1] \notin Shared}
         \union {h \in {"serverWent"} : tcpState = "kDisconnecting"}
    /\ connectDestroyed(functors)

(* A functor bound to `this` runs after ~TcpConnection. *)
RunDangling ==
    /\ tcpFailed = "no" /\ freed /\ functors # << >>
    /\ functors' = Rest
    /\ tcpFailed' = "dangling"
    /\ UNCHANGED <<tcpState, events, tcpReading, shutWrite, peerGone, streamVars,
                   lifeVars, call, sent, shutBy, calls, hazards>>

(* handleRead: n > 0 and n < 0 change nothing here; n = 0 closes. *)
handleRead ==
    /\ Going /\ "read" \in events
    /\ handleClose(functors)
    /\ UNCHANGED <<tcpReading, shutWrite, peerGone, streamVars, delayed, holds, freed,
                   call, sent, shutBy, calls, hazards>>

(* The peer resets the connection (before connectEstablished it would show only *)
(* after) ...                                                                     *)
PeerResets ==
    /\ Going /\ ~peerGone /\ tcpState # "kConnecting"
    /\ peerGone' = TRUE
    /\ UNCHANGED <<tcpState, events, tcpReading, shutWrite, streamVars, functors,
                   lifeVars, call, sent, shutBy, calls, hazards, tcpFailed>>

(* ... and poll() reports it of a channel it watches: handleRead reads the end,  *)
(* or POLLHUP calls handleClose.                                                 *)
HangUp ==
    /\ Going /\ peerGone /\ events # {}
    /\ handleClose(functors)
    /\ UNCHANGED <<tcpReading, shutWrite, peerGone, streamVars, delayed, holds, freed,
                   call, sent, shutBy, calls, hazards>>

\* Broken variant: keeps waiting for writability with nothing left to write.
handleWriteOn ==
    /\ Going /\ "write" \in events
    /\ \E n \in 1..Len(outputBuffer) :
        /\ wire' = wire \o SubSeq(outputBuffer, 1, n)
        /\ outputBuffer' = SubSeq(outputBuffer, n + 1, Len(outputBuffer))
    /\ UNCHANGED <<tcpState, events, functors, shutWrite, peerGone, tcpReading,
                   accepted, lost, lifeVars, call, sent, shutBy, calls, hazards,
                   tcpFailed>>

\* Broken variant: leaves the postponed shutdown out.
handleWriteOnly ==
    /\ Going /\ "write" \in events
    /\ \E n \in 1..Len(outputBuffer) :
        /\ wire' = wire \o SubSeq(outputBuffer, 1, n)
        /\ outputBuffer' = SubSeq(outputBuffer, n + 1, Len(outputBuffer))
        /\ events' = IF n = Len(outputBuffer) THEN events \ {"write"} ELSE events
    /\ UNCHANGED <<tcpState, functors, shutWrite, peerGone, tcpReading, accepted, lost,
                   lifeVars, call, sent, shutBy, calls, hazards, tcpFailed>>

(* A write() that fails is only logged. *)
handleWrite ==
    /\ Going /\ "write" \in events /\ ~peerGone
    /\ \E n \in 1..Len(outputBuffer) :
        LET drained == n = Len(outputBuffer)
        IN  /\ wire' = wire \o SubSeq(outputBuffer, 1, n)
            /\ outputBuffer' = SubSeq(outputBuffer, n + 1, Len(outputBuffer))
            /\ events' = IF drained THEN events \ {"write"} ELSE events
            /\ functors' = IF drained THEN Append(functors, <<"writeComplete", 0>>)
                           ELSE functors
            /\ shutWrite' = IF drained /\ tcpState = "kDisconnecting" /\ shutWrite = "no"
                            THEN "handleWrite" ELSE shutWrite
    /\ UNCHANGED <<tcpState, tcpReading, peerGone, accepted, lost, lifeVars, call, sent,
                   shutBy, calls, hazards, tcpFailed>>

(* The timer of forceCloseWithDelay: a weak callback to forceClose(). *)
DelayOver ==
    /\ delayed > 0 /\ tcpFailed = "no"
    /\ delayed' = delayed - 1
    /\ IF freed THEN UNCHANGED <<tcpState, functors>> ELSE forceClose(functors)
    /\ UNCHANGED <<events, tcpReading, shutWrite, peerGone, streamVars, holds, owned,
                   freed, call, sent, shutBy, calls, hazards, tcpFailed>>

-----------------------------------------------------------------------------
(* The public methods, called on the loop thread, where they run in place. *)

LoopSend ==
    /\ Going /\ tcpState = "kConnected" /\ Len(sent) < MaxSends
    /\ sent' = Append(sent, LoopThread)
    /\ \E n \in 0..MessageLength : sendInLoop(Len(sent'), n, functors)
    /\ UNCHANGED <<tcpState, tcpReading, shutWrite, peerGone, lifeVars, call, shutBy,
                   calls, hazards, tcpFailed>>

\* Broken variant: does not leave kConnected.
LoopShutdownConnected ==
    /\ Going /\ tcpState = "kConnected" /\ calls < MaxCalls
    /\ calls' = calls + 1
    /\ shutBy' = shutBy \union {LoopThread}
    /\ shutWrite' = shutdownInLoop
    /\ UNCHANGED <<tcpState, events, tcpReading, peerGone, functors, streamVars,
                   lifeVars, call, sent, hazards, tcpFailed>>

LoopShutdown ==
    /\ Going /\ tcpState = "kConnected" /\ calls < MaxCalls
    /\ calls' = calls + 1
    /\ tcpState' = "kDisconnecting"
    /\ shutBy' = shutBy \union {LoopThread}
    /\ shutWrite' = shutdownInLoop
    /\ UNCHANGED <<events, tcpReading, peerGone, functors, streamVars, lifeVars, call,
                   sent, hazards, tcpFailed>>

LoopForceClose ==
    /\ Going /\ tcpState \in Up /\ calls < MaxCalls
    /\ calls' = calls + 1
    /\ \/ forceClose(functors) /\ UNCHANGED delayed
       \/ /\ delayed' = delayed + 1
          /\ tcpState' = "kDisconnecting"
          /\ UNCHANGED functors
    /\ UNCHANGED <<events, tcpReading, shutWrite, peerGone, streamVars, holds, owned,
                   freed, call, sent, shutBy, hazards, tcpFailed>>

LoopReading ==
    /\ Going /\ tcpState = "kConnected" /\ calls < MaxCalls
    /\ calls' = calls + 1
    /\ startReadInLoop \/ stopReadInLoop
    /\ UNCHANGED <<tcpState, shutWrite, peerGone, functors, streamVars, lifeVars, call,
                   sent, shutBy, tcpFailed>>

(* The same from another thread: test state_, then write it and queue.  send()  *)
(* does not write it; startRead() and stopRead() do not test it.                *)
MayCall(t) == Going /\ t \in holds /\ call[t] = "none"

TestState(t, method, states) ==
    /\ MayCall(t) /\ tcpState \in states
    /\ call' = [call EXCEPT ![t] = method]
    /\ UNCHANGED <<tcpState, events, tcpReading, shutWrite, peerGone, functors,
                   streamVars, lifeVars, shutBy, hazards, tcpFailed>>

CallSend(t) ==
    /\ Len(sent) < MaxSends
    /\ TestState(t, "send", {"kConnected"})
    /\ sent' = Append(sent, t)
    /\ UNCHANGED calls

CallOther(t) ==
    /\ calls < MaxCalls
    /\ \/ TestState(t, "shutdown", {"kConnected"})
       \/ TestState(t, "forceClose", Up)
       \/ TestState(t, "forceCloseWithDelay", Up)
    /\ calls' = calls + 1
    /\ UNCHANGED sent

LateCall == hazards \union {h \in {"lateCall"} : ~owned}

(* The second step of send(): the message is the last this thread sent. *)
QueueSend(t) ==
    /\ Going /\ call[t] = "send"
    /\ call' = [call EXCEPT ![t] = "none"]
    /\ \E m \in DOMAIN sent :
          /\ sent[m] = t /\ \A k \in DOMAIN sent : sent[k] = t => k <= m
          /\ functors' = Append(functors, <<"sendInLoop", m>>)
    /\ hazards' = LateCall
    /\ UNCHANGED <<tcpState, events, tcpReading, shutWrite, peerGone, streamVars,
                   lifeVars, sent, shutBy, calls, tcpFailed>>

WriteState(t) ==
    /\ Going /\ call[t] \in {"shutdown", "forceClose", "forceCloseWithDelay"}
    /\ call' = [call EXCEPT ![t] = "none"]
    /\ tcpState' = "kDisconnecting"
    /\ hazards' = LateCall \union {h \in {"overwritten"} : tcpState = "kDisconnected"}
    /\ shutBy' = IF call[t] = "shutdown" THEN shutBy \union {t} ELSE shutBy
    /\ functors' = CASE call[t] = "shutdown" -> Append(functors, <<"shutdownInLoop", 0>>)
                     [] call[t] = "forceClose" -> Append(functors, <<"forceCloseInLoop", 0>>)
                     [] OTHER -> functors
    /\ delayed' = IF call[t] = "forceCloseWithDelay" THEN delayed + 1 ELSE delayed
    /\ UNCHANGED <<events, tcpReading, shutWrite, peerGone, streamVars, holds, owned,
                   freed, sent, calls, tcpFailed>>

CallReading(t) ==
    /\ MayCall(t) /\ calls < MaxCalls
    /\ calls' = calls + 1
    /\ functors' \in {Append(functors, <<"startReadInLoop", 0>>),
                      Append(functors, <<"stopReadInLoop", 0>>)}
    /\ hazards' = LateCall
    /\ UNCHANGED <<tcpState, events, tcpReading, shutWrite, peerGone, streamVars,
                   lifeVars, call, sent, shutBy, tcpFailed>>

(* The thread lets its reference go; ~TcpConnection may run on it. *)
Release(t) ==
    /\ MayCall(t)
    /\ holds' = holds \ {t}
    /\ Drop(functors, holds')
    /\ UNCHANGED <<tcpState, events, tcpReading, outputBuffer, wire, accepted, lost,
                   shutWrite, peerGone, functors, delayed, call, owned, sent, shutBy,
                   calls, hazards>>

RunFunctor ==
    \/ RunEstablished \/ RunSend \/ RunShutdown \/ RunReading \/ RunForceClose
    \/ RunUserCallback \/ RunDestroyed \/ RunDangling

TcpNext ==
    \/ RunFunctor \/ handleRead \/ handleWrite \/ DelayOver \/ OwnerGoes
    \/ PeerResets \/ HangUp
    \/ LoopSend \/ LoopShutdown \/ LoopForceClose \/ LoopReading
    \/ \E t \in OtherThreads :
          \/ CallSend(t) \/ QueueSend(t) \/ CallOther(t) \/ WriteState(t)
          \/ CallReading(t) \/ Release(t)

(* The loop runs its functors and timers, the socket becomes writable again and *)
(* again or reports its reset, and a thread inside a call or holding a reference *)
(* goes on.                                                                      *)
TcpFairness ==
    /\ SF_tcpVars(RunFunctor) /\ WF_tcpVars(handleWrite) /\ WF_tcpVars(HangUp)
    /\ WF_tcpVars(DelayOver)
    /\ \A t \in OtherThreads : /\ WF_tcpVars(QueueSend(t) \/ WriteState(t))
                               /\ SF_tcpVars(Release(t))

TcpSpec == TcpInit /\ [][TcpNext]_tcpVars /\ TcpFairness

-----------------------------------------------------------------------------
(* The peer sees a prefix of the bytes in the order sendInLoop() took them: a   *)
(* direct write never overtakes what is still buffered.                          *)
StreamInOrder == wire \o outputBuffer = accepted

(* The channel waits for writability exactly while bytes are buffered, so that   *)
(* none is forgotten and the loop does not spin.                                  *)
WritesWhilePending ==
    tcpState \in Up /\ "overwritten" \notin hazards /\ tcpFailed = "no"
        => (("write" \in events) = (outputBuffer # << >>))

(* The write side of an open connection is shut down only once everything        *)
(* accepted is on the wire.                                                       *)
ShutdownDrains == shutWrite # "no" /\ owned => outputBuffer = << >>

(* Who loses a message because the socket is already shut down: never the loop   *)
(* thread; a thread that sends and then itself shuts down only when handleWrite,   *)
(* draining an older message, saw kDisconnecting before its queued sendInLoop()    *)
(* ran; otherwise a thread that sends while another shuts down.  (A message sent    *)
(* after the peer's reset is dropped too, TcpConnection.cc:165-172.)                *)
SentIsNotLost ==
    \A m \in lost : sent[m] # LoopThread /\ (shutBy = {sent[m]} => shutWrite = "handleWrite")

(* The asserts of handleClose, Channel::remove and ~TcpConnection hold, no         *)
(* functor runs on a destroyed connection and no close reaches a destroyed server,  *)
(* except: a thread's stale test of state_ overwrote kDisconnected (overwritten);   *)
(* startReadInLoop() ran after the close (lateStart); the server went while the     *)
(* connection was kDisconnecting (serverWent); a functor bound to `this` was queued *)
(* after the owner let go, or pending when the server went (lateCall).              *)
TcpAssertsHold ==
    /\ tcpFailed \in {"handleClose", "remove"} =>
           hazards \intersect {"overwritten", "lateStart", "serverWent"} # {}
    /\ tcpFailed = "~TcpConnection" => hazards \intersect {"overwritten", "serverWent"} # {}
    /\ tcpFailed = "dangling" => "lateCall" \in hazards

(* Buffered bytes are written, or the connection ends.                             *)
PendingIsWritten ==
    (outputBuffer # << >>) ~> (outputBuffer = << >> \/ tcpState = "kDisconnected"
                                  \/ freed \/ tcpFailed # "no")

(* shutdown() takes effect once what was buffered is written.                      *)
ShutdownTakesEffect ==
    (shutBy # {}) ~> (shutWrite # "no" \/ tcpState = "kDisconnected" \/ freed \/ tcpFailed # "no")

(* A closed connection is destroyed once every thread lets go of it.              *)
TcpClosedIsFreed ==
    (tcpState = "kDisconnected") ~> (freed \/ tcpFailed # "no")

(* The output path as a whole: bytes in order, writability watched while some wait, *)
(* and the write side shut down only after the last of them.                         *)
OutputIsKept == StreamInOrder /\ WritesWhilePending /\ ShutdownDrains

(* What was begun ends: buffered bytes, a shutdown, a closed connection.             *)
TcpAnswers == PendingIsWritten /\ ShutdownTakesEffect /\ TcpClosedIsFreed
=============================================================================
