-------------------------- MODULE ComponentProofs ---------------------------
(***************************************************************************)
(* The proofs about components that nothing else is proved from: the timer *)
(* queue, the thread of a loop, and the map of peers.                      *)
(***************************************************************************)
EXTENDS TimerQueue, EventLoopThread, PeerMap, SequenceTheorems, FiniteSetTheorems,
        TLAPS

-----------------------------------------------------------------------------
(***************************************************************************)
(* The invariants of TimerQueue for any number of timers, any clock and    *)
(* any interval.  They support each other: an expired timer is neither     *)
(* queued nor deleted, so a cancel from a callback cannot reach it.        *)
(***************************************************************************)

\* What the queue, the batch and the cancelled timers have to do with each
\* other at every point of handleRead().
BatchInv ==
    /\ ~calling => expired = {}
    /\ \A t \in activeTimers \cup expired \cup deleted : expiration[t] # 0
    /\ \A t \in cancelled : t \notin activeTimers /\ (t \in expired => t \in canceling)
    /\ \A t \in cancelled : expiration[t] # 0

IInv ==
    /\ TypeOK /\ SameTimers /\ QueuedOnce /\ NoDeletedTimer
    /\ BatchInv /\ TimerfdCovers

LEMMA InitIInv == Init => IInv
  <1> SUFFICES ASSUME Init PROVE IInv
    OBVIOUS
  <1>0. repeat \in [Timers -> BOOLEAN]
    BY Zenon DEF Init
  <1>1. TypeOK
    <2>1. calling \in BOOLEAN /\ readable \in BOOLEAN
      BY Zenon DEF Init
    <2>2. expiration \in [Timers -> Nat]
      BY DEF Init
    <2> QED
      BY <1>0, <2>1, <2>2 DEF Init, TypeOK
  <1>2. SameTimers
    BY DEF Init, SameTimers
  <1>3. QueuedOnce /\ NoDeletedTimer /\ BatchInv /\ TimerfdCovers
    BY DEF Init, QueuedOnce, NoDeletedTimer, BatchInv, TimerfdCovers
  <1> QED
    BY <1>1, <1>2, <1>3 DEF IInv

LEMMA TickStep == IInv /\ Tick => IInv'
  BY TimerAssumption
  DEF Tick, IInv, TypeOK, SameTimers, QueuedOnce, NoDeletedTimer, BatchInv,
      TimerfdCovers

LEMMA ExpiresStep == IInv /\ TimerfdExpires => IInv'
  BY DEF TimerfdExpires, IInv, TypeOK, SameTimers, QueuedOnce, NoDeletedTimer,
         BatchInv, TimerfdCovers

LEMMA RunStep == ASSUME IInv, NEW t \in Timers, Run(t) PROVE IInv'
  BY DEF Run, IInv, TypeOK, SameTimers, QueuedOnce, NoDeletedTimer, BatchInv,
         TimerfdCovers

LEMMA AddStep ==
  ASSUME IInv, NEW t \in Timers, NEW when \in 1 .. MaxTime, NEW rep \in BOOLEAN,
         AddTimerInLoop(t, when, rep)
  PROVE  IInv'
  <1> USE TimerAssumption DEF AddTimerInLoop, Created
  <1>0. when \in Nat /\ when # 0
    OBVIOUS
  <1>n. t \notin activeTimers /\ t \notin expired /\ t \notin deleted /\ t \notin cancelled
    BY DEF IInv, BatchInv
  <1>1. TypeOK'
    <2>1. armed' \in Nat /\ readable' \in BOOLEAN
      BY Zenon, <1>0 DEF IInv, TypeOK, ResetTimerfd, Later
    <2>2. repeat' \in [Timers -> BOOLEAN]
      BY Zenon DEF IInv, TypeOK
    <2>3. expiration' \in [Timers -> Nat] /\ timers' \subseteq Nat \X Timers
      BY <1>0 DEF IInv, TypeOK
    <2> QED
      BY <2>1, <2>2, <2>3 DEF IInv, TypeOK
  <1>2. SameTimers'
    <2>1. \A u \in activeTimers : expiration'[u] = expiration[u]
      BY <1>n DEF IInv, TypeOK
    <2>2. expiration'[t] = when
      BY DEF IInv, TypeOK
    <2> QED
      BY <2>1, <2>2 DEF IInv, SameTimers
  <1>3. QueuedOnce' /\ NoDeletedTimer'
    BY <1>n DEF IInv, QueuedOnce, NoDeletedTimer
  <1>4. BatchInv'
    BY <1>n, <1>0 DEF IInv, BatchInv, TypeOK
  <1>5. TimerfdCovers'
    <2>1. CASE Before(when, timers)
      BY <2>1, <1>0 DEF IInv, TypeOK, TimerfdCovers, ResetTimerfd, Later, Before
    <2>2. CASE ~Before(when, timers)
      BY <2>2, <1>0 DEF IInv, TypeOK, TimerfdCovers, Before
    <2> QED
      BY <2>1, <2>2
  <1> QED
    BY <1>1, <1>2, <1>3, <1>4, <1>5 DEF IInv

LEMMA CancelStep ==
  ASSUME IInv, NEW t \in Timers, CancelInLoop(t)
  PROVE  IInv'
  <1> USE DEF CancelInLoop, Created
  <1>1. CASE t \in activeTimers
    <2>1. TypeOK' /\ QueuedOnce' /\ NoDeletedTimer' /\ BatchInv'
      BY <1>1 DEF IInv, TypeOK, QueuedOnce, NoDeletedTimer, BatchInv
    <2>2. SameTimers'
      BY <1>1 DEF IInv, SameTimers
    <2>3. TimerfdCovers'
      BY <1>1 DEF IInv, TypeOK, TimerfdCovers
    <2> QED
      BY <2>1, <2>2, <2>3 DEF IInv
  <1>2. CASE t \notin activeTimers
    BY <1>2 DEF IInv, TypeOK, SameTimers, QueuedOnce, NoDeletedTimer, BatchInv,
                TimerfdCovers
  <1> QED
    BY <1>1, <1>2

LEMMA ReadStep == IInv /\ HandleRead => IInv'
  <1> SUFFICES ASSUME IInv, HandleRead PROVE IInv'
    OBVIOUS
  <1> DEFINE due == {p \in timers : p[1] <= now}
             gone == {p[2] : p \in due}
  <1>1. gone = {t \in activeTimers : expiration[t] <= now}
    <2>1. \A p \in timers : p[2] \in activeTimers /\ p[1] = expiration[p[2]]
      BY DEF IInv, SameTimers
    <2>2. \A t \in activeTimers : <<expiration[t], t>> \in timers
      BY DEF IInv, SameTimers
    <2>3. gone \subseteq {t \in activeTimers : expiration[t] <= now}
      BY <2>1
    <2>4. ASSUME NEW t \in activeTimers, expiration[t] <= now PROVE t \in gone
      <3>1. <<expiration[t], t>> \in due
        BY <2>2, <2>4
      <3>2. <<expiration[t], t>>[2] = t
        OBVIOUS
      <3>3. PICK p \in due : p[2] = t
        BY <3>1, <3>2
      <3> QED
        BY <3>3
    <2> QED
      BY <2>3, <2>4
  <1>2. due = {<<expiration[t], t>> : t \in gone}
    <2>1. \A p \in timers : p = <<expiration[p[2]], p[2]>> /\ p[2] \in activeTimers
      BY DEF IInv, SameTimers
    <2>2. \A p \in due : p = <<expiration[p[2]], p[2]>> /\ p[2] \in gone
      BY <2>1
    <2>3. \A t \in gone : <<expiration[t], t>> \in due
      BY <1>1 DEF IInv, SameTimers
    <2> QED
      BY <2>2, <2>3
  <1>3. /\ timers' = timers \ due /\ activeTimers' = activeTimers \ gone
        /\ expired' = gone /\ toRun' = gone /\ expiration' = expiration
        /\ calling' = TRUE /\ canceling' = {} /\ deleted' = deleted
        /\ cancelled' = cancelled
    BY DEF HandleRead
  <1> HIDE DEF due, gone
  <1>4. TypeOK'
    BY Zenon, <1>1, <1>3 DEF HandleRead, IInv, TypeOK
  <1>5. SameTimers'
    BY <1>1, <1>2, <1>3 DEF IInv, SameTimers
  <1>6. QueuedOnce' /\ NoDeletedTimer' /\ BatchInv' /\ TimerfdCovers'
    BY <1>1, <1>3 DEF IInv, QueuedOnce, NoDeletedTimer, BatchInv, TimerfdCovers
  <1> QED
    BY <1>4, <1>5, <1>6 DEF IInv

LEMMA ResetStep == IInv /\ Reset => IInv'
  <1> SUFFICES ASSUME IInv, Reset PROVE IInv'
    OBVIOUS
  <1> USE TimerAssumption
  <1> DEFINE again == {t \in expired : repeat[t] /\ t \notin canceling}
             e == readTime + Interval
             entries == {<<e, t>> : t \in again}
  <1>1. /\ timers' = timers \cup entries /\ activeTimers' = activeTimers \cup again
        /\ expired' = {} /\ toRun' = {} /\ calling' = FALSE
        /\ expiration' = [t \in Timers |-> IF t \in again THEN e ELSE expiration[t]]
        /\ deleted' = deleted \cup (expired \ again)
        /\ cancelled' = cancelled /\ canceling' = canceling
        /\ now' = now /\ repeat' = repeat /\ readTime' = readTime
    BY DEF Reset, IInv, QueuedOnce
  <1>2. again \subseteq expired /\ again \cap canceling = {} /\ e \in Nat \ {0}
    BY DEF IInv, TypeOK
  <1>a. \/ timers' = {} /\ armed' = armed /\ readable' = readable
        \/ \E first \in timers' : /\ \A p \in timers' : first[1] <= p[1]
                                  /\ ResetTimerfd(first[1])
    BY DEF Reset
  <1> HIDE DEF again, e
  <1>3. timers' \subseteq Nat \X Timers
    BY <1>1, <1>2 DEF IInv, TypeOK
  <1>4. TypeOK'
    <2>1. armed' \in Nat /\ readable' \in BOOLEAN
      BY Zenon, <1>a, <1>3 DEF IInv, TypeOK, ResetTimerfd, Later
    <2> QED
      BY Zenon, <2>1, <1>1, <1>2, <1>3 DEF IInv, TypeOK
  <1>5. SameTimers'
    <2>1. \A t \in activeTimers : expiration'[t] = expiration[t]
      BY <1>1, <1>2 DEF IInv, TypeOK, QueuedOnce
    <2>2. \A t \in again : expiration'[t] = e
      BY <1>1, <1>2 DEF IInv, TypeOK
    <2>3. timers' = {<<expiration'[t], t>> : t \in activeTimers \cup again}
      BY Zenon, <2>1, <2>2, <1>1 DEF IInv, SameTimers
    <2> QED
      BY <2>3, <1>1 DEF SameTimers
  <1>6. QueuedOnce' /\ NoDeletedTimer'
    BY <1>1, <1>2 DEF IInv, QueuedOnce, NoDeletedTimer
  <1>7. BatchInv'
    BY <1>1, <1>2 DEF IInv, TypeOK, BatchInv
  <1>8. TimerfdCovers'
    BY <1>a, <1>1, <1>3 DEF IInv, TypeOK, TimerfdCovers, ResetTimerfd, Later
  <1> QED
    BY <1>4, <1>5, <1>6, <1>7, <1>8 DEF IInv

LEMMA Inductive == IInv /\ [Next]_vars => IInv'
  <1> SUFFICES ASSUME IInv, [Next]_vars PROVE IInv'
    OBVIOUS
  <1>1. CASE UNCHANGED vars
    BY <1>1 DEF vars, IInv, TypeOK, SameTimers, QueuedOnce, NoDeletedTimer,
                BatchInv, TimerfdCovers
  <1>2. CASE Next
    BY <1>2, TickStep, ExpiresStep, RunStep, AddStep, CancelStep, ReadStep,
       ResetStep DEF Next
  <1> QED
    BY <1>1, <1>2

LEMMA Invariance == Spec => []IInv
  BY InitIInv, Inductive, PTL DEF Spec

\* timers_ and activeTimers_ hold the same timers, whatever the callbacks of
\* an expired batch add and cancel.
THEOREM SetsAgree == Spec => []SameTimers
  BY Invariance, PTL DEF IInv

\* No timer is used after cancelInLoop() or reset() deleted it.
THEOREM NeverDangling == Spec => []NoDeletedTimer
  BY Invariance, PTL DEF IInv

\* The loop is woken for the earliest timer: insert() and reset() set the
\* timerfd often enough.
THEOREM TimerfdArmed == Spec => []TimerfdCovers
  BY Invariance, PTL DEF IInv

\* After the batch, a cancelled timer is not queued again.
THEOREM CancelHolds == Spec => []CancelledStaysOut
  <1>1. IInv => CancelledStaysOut
    BY DEF IInv, BatchInv, CancelledStaysOut
  <1> QED
    BY <1>1, Invariance, PTL

\* Together: whatever callbacks add and cancel, the two sets agree, a timer is
\* queued or in the batch but not both, and neither a deleted nor a cancelled
\* timer comes back.
THEOREM QueueSound == Spec => []QueueIsSound
  <1>1. IInv => QueueIsSound
    BY DEF IInv, BatchInv, QueueIsSound, CancelledStaysOut
  <1> QED
    BY <1>1, Invariance, PTL

-----------------------------------------------------------------------------
(***************************************************************************)
(* For any number of threads: startLoop() gives out constructed loops only,  *)
(* and no thread is left behind by the destructors, though they test loop_    *)
(* without the lock and skip join() where it is NULL.                         *)
(***************************************************************************)

Constructed == {"published", "looping", "returned", "exited"}

ThreadsTypeOK ==
    /\ thread \in [Threads -> {"none", "init"} \cup Constructed]
    /\ loop_ \in [Threads -> BOOLEAN]
    /\ quit \in [Threads -> {"no", "yes", "cleared"}]
    /\ loops \subseteq Threads
    /\ \/ owner \in {"start", "wait", "destroy", "quit", "join", "crashed"} \X Threads
       \/ owner \in {<<"run", 0>>, <<"done", 0>>}

\* loop_ is set from the time the loop is published until the thread exits.
PointerFollowsThread ==
    \A t \in Threads : loop_[t] <=> thread[t] \in Constructed \ {"exited"}

\* The owner starts the threads in turn, each after the one before is constructed,
\* and leaves each behind exited when it destroys them in turn.
InTurn ==
    \A t \in Threads :
        /\ thread[t] \notin Constructed => owner[1] \in {"start", "wait"} /\ t >= owner[2]
        /\ owner[1] \in {"destroy", "quit", "join"} /\ t < owner[2] => thread[t] = "exited"
        /\ owner[1] = "done" => thread[t] = "exited"
        /\ owner[1] = "start" /\ t = owner[2] => thread[t] = "none"
        /\ owner[1] \in {"start", "wait"} /\ t > owner[2] => thread[t] = "none"

\* A loop ends only after a quit(), which nothing undoes once the loop has begun.
EndedWasQuit ==
    /\ \A t \in Threads : thread[t] \in {"returned", "exited"} => quit[t] = "yes"
    /\ owner[1] = "crashed" => thread[owner[2]] = "exited"

ThreadsInv ==
    ThreadsTypeOK /\ PointerFollowsThread /\ InTurn /\ LoopsAreConstructed /\ EndedWasQuit

\* The invariant holds at first.
LEMMA ThreadsInvInit == ThreadsInit => ThreadsInv
  BY ThreadAssumption
  DEF ThreadsInit, ThreadsInv, ThreadsTypeOK, PointerFollowsThread, InTurn,
      LoopsAreConstructed, EndedWasQuit, Constructed, Threads

\* A thread's own steps move it forward, and set and clear its loop_.
LEMMA ThreadKeeps ==
  ASSUME ThreadsInv, NEW t \in Threads, ThreadStep(t) \/ SelfQuit(t)
  PROVE  ThreadsInv'
<1> USE ThreadAssumption DEF ThreadsInv, Threads, Constructed
<1>1. CASE Publish(t)
  BY <1>1 DEF Publish, ThreadsTypeOK, PointerFollowsThread, InTurn, LoopsAreConstructed,
         EndedWasQuit
<1>2. CASE Loop(t)
  BY <1>2 DEF Loop, ThreadsTypeOK, PointerFollowsThread, InTurn, LoopsAreConstructed,
         EndedWasQuit
<1>3. CASE LoopReturns(t)
  BY <1>3 DEF LoopReturns, ThreadsTypeOK, PointerFollowsThread, InTurn, LoopsAreConstructed,
         EndedWasQuit
<1>4. CASE Exit(t)
  BY <1>4 DEF Exit, ThreadsTypeOK, PointerFollowsThread, InTurn, LoopsAreConstructed,
         EndedWasQuit
<1>5. CASE SelfQuit(t)
  BY <1>5 DEF SelfQuit, ThreadsTypeOK, PointerFollowsThread, InTurn, LoopsAreConstructed,
         EndedWasQuit
<1> QED  BY <1>1, <1>2, <1>3, <1>4, <1>5 DEF ThreadStep

\* The owner's steps: only TestLoop and Join leave a thread behind, the one because
\* loop_ is NULL, the other because the thread has exited.
LEMMA OwnerKeeps ==
  ASSUME ThreadsInv, OwnerStep
  PROVE  ThreadsInv'
<1> USE ThreadAssumption DEF ThreadsInv, Threads, Constructed
<1>1. CASE StartLoop
  BY <1>1 DEF StartLoop, ThreadsTypeOK, PointerFollowsThread, InTurn, LoopsAreConstructed,
         EndedWasQuit
<1>2. CASE StartReturns
  <2>1. owner[1] = "wait" /\ owner[2] \in Threads
    BY <1>2 DEF StartReturns, ThreadsTypeOK
  <2>2. thread[owner[2]] \in Constructed
    BY <1>2, <2>1 DEF StartReturns, PointerFollowsThread
  <2>3. /\ thread' \in [Threads -> {"none", "init"} \cup Constructed]
        /\ loop_' \in [Threads -> BOOLEAN] /\ quit' \in [Threads -> {"no", "yes", "cleared"}]
        /\ loops' \subseteq Threads
    BY Zenon, <1>2, <2>1 DEF StartReturns, ThreadsTypeOK
  <2>4. PointerFollowsThread' /\ LoopsAreConstructed' /\ EndedWasQuit'
    BY <1>2, <2>1, <2>2 DEF StartReturns, PointerFollowsThread, LoopsAreConstructed, EndedWasQuit
  <2>5. CASE owner[2] < NumThreads
    <3>1. owner' = <<"start", owner[2] + 1>> /\ owner[2] + 1 \in Threads
      BY <1>2, <2>1, <2>5 DEF StartReturns
    <3>2. owner' \in {"start", "wait", "destroy", "quit", "join", "crashed"} \X Threads
      BY <3>1
    <3>3. InTurn'
      BY <1>2, <2>1, <2>2, <3>1 DEF StartReturns, InTurn
    <3> QED  BY <2>3, <2>4, <3>2, <3>3 DEF ThreadsTypeOK
  <2>6. CASE ~(owner[2] < NumThreads)
    <3>1. owner' = <<"run", 0>> /\ \A t \in Threads : t <= owner[2]
      BY <1>2, <2>1, <2>6 DEF StartReturns
    <3>2. InTurn'
      BY <1>2, <2>1, <2>2, <3>1 DEF StartReturns, InTurn
    <3> QED  BY <2>3, <2>4, <3>1, <3>2 DEF ThreadsTypeOK
  <2> QED  BY <2>5, <2>6
<1>3. CASE DestroyPool
  BY <1>3 DEF DestroyPool, ThreadsTypeOK, PointerFollowsThread, InTurn, LoopsAreConstructed,
         EndedWasQuit
<1>4. CASE TestLoop
  BY <1>4 DEF TestLoop, Destroyed, ThreadsTypeOK, PointerFollowsThread, InTurn,
              LoopsAreConstructed, EndedWasQuit
<1>5. CASE Quit
  BY <1>5 DEF Quit, ThreadsTypeOK, PointerFollowsThread, InTurn, LoopsAreConstructed,
         EndedWasQuit
<1>6. CASE Join
  BY <1>6 DEF Join, Destroyed, ThreadsTypeOK, PointerFollowsThread, InTurn,
              LoopsAreConstructed, EndedWasQuit
<1> QED  BY SMTT(30), <1>1, <1>2, <1>3, <1>4, <1>5, <1>6 DEF OwnerStep

\* However many threads a pool has and whichever of them quit by themselves, loops_
\* holds constructed loops only, ~EventLoopThread() leaves no thread running, and
\* it calls quit() of a destroyed loop only after somebody else's quit() ended it.
THEOREM ThreadsSound == ThreadsSpec => []ThreadsAreSound
<1>1. ThreadsInv /\ [ThreadsNext]_threadVars => ThreadsInv'
  <2> SUFFICES ASSUME ThreadsInv, [ThreadsNext]_threadVars PROVE ThreadsInv'
    OBVIOUS
  <2>1. CASE OwnerStep
    BY <2>1, OwnerKeeps
  <2>2. CASE \E t \in Threads : ThreadStep(t) \/ SelfQuit(t)
    BY <2>2, ThreadKeeps
  <2>3. CASE UNCHANGED threadVars
    BY <2>3 DEF threadVars, ThreadsInv, ThreadsTypeOK, PointerFollowsThread, InTurn,
                LoopsAreConstructed, EndedWasQuit
  <2> QED  BY <2>1, <2>2, <2>3 DEF ThreadsNext
<1>2. ThreadsInv => ThreadsAreSound
  <2> SUFFICES ASSUME ThreadsInv PROVE ThreadsAreSound
    OBVIOUS
  <2>1. CrashNeedsSelfQuit
    BY DEF ThreadsInv, CrashNeedsSelfQuit, EndedWasQuit, ThreadsTypeOK
  <2> QED  BY <2>1 DEF ThreadsInv, ThreadsAreSound, InTurn, DoneIsExited
<1> QED  BY ThreadsInvInit, <1>1, <1>2, PTL DEF ThreadsSpec

-----------------------------------------------------------------------------
(***************************************************************************)
(* The map of peers, for any set of addresses. The map is right as long as *)
(* no two of its keys come before each other: then it is sorted, and what  *)
(* a search finds is what is there.                                        *)
(***************************************************************************)

\* operator< gives std::map the order it needs on every set of addresses in
\* which no two come before each other, such as those of one host.
THEOREM LessIsOrder ==
  ASSUME NEW S \in SUBSET [ip : Nat, port : Nat], Consistent(S)
  PROVE  StrictTotalOrder(S)
  <1>1. \A a, b \in S : Less(a, b) => a.ip <= b.ip /\ a.port <= b.port
    BY DEF Consistent, Less
  <1>2. \A a, b, c \in S : Less(a, b) /\ Less(b, c) => Less(a, c)
    BY <1>1 DEF Less
  <1>3. \A a, b \in S : a = b \/ Less(a, b) \/ Less(b, a)
    BY DEF Less
  <1>4. \A a \in S : ~Less(a, a)
    BY DEF Less
  <1> QED
    BY <1>2, <1>3, <1>4 DEF StrictTotalOrder

\* The ports of one host are such a set.
THEOREM OneHostIsOrdered ==
  ASSUME NEW S \in SUBSET [ip : Nat, port : Nat], NEW h \in Nat,
         \A a \in S : a.ip = h
  PROVE  Consistent(S) /\ StrictTotalOrder(S)
  <1>1. Consistent(S)
    BY DEF Consistent, Less
  <1> QED
    BY <1>1, LessIsOrder

\* The map as a red-black tree of at most three keys should be: sorted, with a root
\* that balances it, and holding the peers that have a connector.
Sorted == \A i, j \in 1 .. Len(keys) : i < j => Less(keys[i], keys[j])

RootOK ==
    /\ Len(keys) = 0 => root = 0
    /\ Len(keys) = 1 => root = 1
    /\ Len(keys) = 2 => root \in {1, 2}
    /\ Len(keys) = 3 => root = 2

MapInv ==
    /\ keys \in Seq(Peers) /\ Len(keys) \in 0 .. MaxKeys
    /\ Sorted /\ RootOK
    /\ known = {keys[i] : i \in 1 .. Len(keys)}

\* What std::map needs of operator<, for the peers in use.
LEMMA PeersOrdered ==
    ASSUME Consistent(Peers)
    PROVE  /\ \A a \in Peers : ~Less(a, a)
           /\ \A a, b \in Peers : ~(Less(a, b) /\ Less(b, a))
           /\ \A a, b, c \in Peers : Less(a, b) /\ Less(b, c) => Less(a, c)
           /\ \A a, b \in Peers : a = b \/ Less(a, b) \/ Less(b, a)
  BY PeersAssumption, LessIsOrder DEF Consistent, StrictTotalOrder

\* lower_bound() finds the first key that is not less than p.
LEMMA LowerBoundIs ==
    ASSUME MapInv, Consistent(Peers), NEW p \in Peers
    PROVE  /\ LowerBound(p) \in 1 .. Len(keys) + 1
           /\ \A j \in 1 .. Len(keys) : j < LowerBound(p) <=> Less(keys[j], p)
<1> DEFINE n == Len(keys)
<1>1. n \in 0 .. 3 /\ \A i \in 1 .. n : keys[i] \in Peers
  BY ElementOfSeq DEF MapInv, MaxKeys
<1>2. keys = << >> <=> n = 0
  BY EmptySeq DEF MapInv
<1>3. /\ n >= 2 => (Less(keys[2], p) => Less(keys[1], p))
      /\ n >= 3 => (Less(keys[3], p) => Less(keys[2], p))
      /\ n >= 3 => (Less(keys[3], p) => Less(keys[1], p))
  BY <1>1, PeersOrdered DEF MapInv, Sorted
<1>4. CASE n = 0
  BY <1>2, <1>4 DEF LowerBound
<1>5. CASE n = 1
  <2>1. root = 1
    BY <1>5 DEF MapInv, RootOK
  <2> QED  BY <1>2, <1>5, <2>1 DEF LowerBound, Has
<1>6. CASE n = 2
  <2>1. root \in {1, 2}
    BY <1>6 DEF MapInv, RootOK
  <2> QED  BY <1>2, <1>3, <1>6, <2>1 DEF LowerBound, Has
<1>7. CASE n = 3
  <2>1. root = 2
    BY <1>7 DEF MapInv, RootOK
  <2> QED  BY <1>2, <1>3, <1>7, <2>1 DEF LowerBound, Has
<1> QED  BY <1>1, <1>4, <1>5, <1>6, <1>7

\* find() finds exactly the keys of the map, each at its place.
LEMMA FindIs ==
    ASSUME MapInv, Consistent(Peers), NEW p \in Peers
    PROVE  /\ Find(p) \in 0 .. Len(keys)
           /\ \A i \in 1 .. Len(keys) : keys[i] = p => Find(p) = i
           /\ Find(p) # 0 => keys[Find(p)] = p
<1> DEFINE L == LowerBound(p)
<1>1. Len(keys) \in Nat /\ \A i \in 1 .. Len(keys) : keys[i] \in Peers
  BY ElementOfSeq DEF MapInv, MaxKeys
<1>2. L \in 1 .. Len(keys) + 1 /\ \A j \in 1 .. Len(keys) : j < L <=> Less(keys[j], p)
  BY LowerBoundIs
<1> HIDE DEF L
<1>3. Find(p) = IF L \notin 1 .. Len(keys) \/ Less(p, keys[L]) THEN 0 ELSE L
  BY DEF Find, Has, L
<1>4. ASSUME NEW i \in 1 .. Len(keys), keys[i] = p
      PROVE  L = i
  <2>1. ~Less(keys[i], p)
    BY <1>4, PeersOrdered
  <2>2. L <= i
    BY <1>2, <2>1
  <2>3. L < i => Less(keys[L], p)
    BY <1>1, <1>2, <1>4 DEF MapInv, Sorted
  <2> QED  BY <1>2, <2>2, <2>3
<1>5. L \in 1 .. Len(keys) /\ ~Less(p, keys[L]) => keys[L] = p
  BY <1>1, <1>2, PeersOrdered
<1>6. \A i \in 1 .. Len(keys) : keys[i] = p => Find(p) = i
  BY <1>3, <1>4, PeersOrdered
<1> QED  BY <1>1, <1>2, <1>3, <1>5, <1>6

\* operator[] puts a new peer where lower_bound() points, under a node whose side is free.
LEMMA PlaceIs ==
    ASSUME MapInv, Consistent(Peers), NEW p \in Peers, Len(keys) < MaxKeys, Find(p) = 0
    PROVE  /\ keys # << >> => Hinted(p) /\ ~Overwrites(p)
           /\ PlaceOf(p) = LowerBound(p)
           /\ \A j \in 1 .. Len(keys) : ~(j < LowerBound(p)) => Less(p, keys[j])
<1> DEFINE L == LowerBound(p)
           n == Len(keys)
<1>1. n \in 0 .. 2 /\ \A i \in 1 .. n : keys[i] \in Peers
  BY SMTT(30), ElementOfSeq DEF MapInv, MaxKeys
<1>2. L \in 1 .. n + 1 /\ \A j \in 1 .. n : j < L <=> Less(keys[j], p)
  BY LowerBoundIs
<1>3. keys = << >> <=> n = 0
  BY EmptySeq DEF MapInv
<1>4. \A j \in 1 .. n : ~(j < L) => Less(p, keys[j])
  <2> SUFFICES ASSUME NEW j \in 1 .. n, ~(j < L) PROVE Less(p, keys[j])
    OBVIOUS
  <2>1. keys[j] # p
    BY FindIs
  <2> QED  BY <1>1, <1>2, <2>1, PeersOrdered
<1>5. \A j \in 1 .. n : j < L => ~Less(p, keys[j])
  BY <1>1, <1>2, PeersOrdered
<1> HIDE DEF L
<1>6. Hinted(p) <=> L = 1 \/ Less(keys[L - 1], p)
  BY DEF Hinted, L
<1>7. Hinted(p)
  BY <1>1, <1>2, <1>6
<1>8. Parent(p) = IF L > 1 /\ ~(L - 1 = root /\ L \in 1 .. n) THEN L - 1 ELSE L
  BY <1>7 DEF Parent, Has, L
<1>9. Left(p) <=> Parent(p) = L \/ Less(p, keys[Parent(p)])
  BY <1>7 DEF Left, L
<1>10. CASE n = 0
  BY <1>2, <1>3, <1>4, <1>10 DEF PlaceOf, L
<1>11. CASE n = 1
  <2>1. root = 1
    BY <1>11 DEF MapInv, RootOK
  <2>2. CASE L = 1
    <3>1. Parent(p) = 1 /\ Left(p)
      BY <1>8, <1>9, <2>2
    <3> QED  BY <1>3, <1>4, <1>7, <1>11, <2>1, <2>2, <3>1 DEF PlaceOf, Overwrites, Has, L
  <2>3. CASE L = 2
    <3>1. Parent(p) = 1 /\ ~Left(p)
      BY <1>5, <1>8, <1>9, <1>11, <2>1, <2>3
    <3> QED  BY <1>3, <1>4, <1>7, <1>11, <2>1, <2>3, <3>1 DEF PlaceOf, Overwrites, Has, L
  <2> QED  BY <1>2, <1>11, <2>2, <2>3
<1>12. CASE n = 2
  <2>1. root \in {1, 2}
    BY <1>12 DEF MapInv, RootOK
  <2>2. CASE L = 1
    <3>1. Parent(p) = 1 /\ Left(p)
      BY <1>8, <1>9, <2>2
    <3> QED  BY SMTT(30), <1>3, <1>4, <1>7, <1>12, <2>1, <2>2, <3>1 DEF PlaceOf, Overwrites, Has, L
  <2>3. CASE L = 2
    <3>1. /\ root = 1 => Parent(p) = 2 /\ Left(p)
          /\ root = 2 => Parent(p) = 1 /\ ~Left(p)
      BY <1>5, <1>8, <1>9, <1>12, <2>1, <2>3
    <3> QED  BY <1>3, <1>4, <1>7, <1>12, <2>1, <2>3, <3>1 DEF PlaceOf, Overwrites, Has, L
  <2>4. CASE L = 3
    <3>1. Parent(p) = 2 /\ ~Left(p)
      BY <1>5, <1>8, <1>9, <1>12, <2>1, <2>4
    <3> QED  BY <1>3, <1>4, <1>7, <1>12, <2>1, <2>4, <3>1 DEF PlaceOf, Overwrites, Has, L
  <2> QED  BY <1>2, <1>12, <2>2, <2>3, <2>4
<1> QED  BY <1>1, <1>10, <1>11, <1>12

PutAt(s, i, p) == SubSeq(s, 1, i - 1) \o <<p>> \o SubSeq(s, i, Len(s))

\* A key put at place i.
LEMMA InsertAt ==
    ASSUME NEW S, NEW s \in Seq(S), NEW i \in 1 .. Len(s) + 1, NEW p \in S
    PROVE  /\ PutAt(s, i, p) \in Seq(S) /\ Len(PutAt(s, i, p)) = Len(s) + 1
           /\ \A j \in 1 .. Len(s) + 1 :
                 PutAt(s, i, p)[j] = IF j < i THEN s[j] ELSE IF j = i THEN p ELSE s[j - 1]
<1> DEFINE a == SubSeq(s, 1, i - 1)
           b == SubSeq(s, i, Len(s))
<1>1. Len(s) \in Nat /\ \A k \in 1 .. Len(s) : s[k] \in S
  BY LenProperties, ElementOfSeq
<1>2. a \in Seq(S) /\ Len(a) = i - 1 /\ \A k \in 1 .. i - 1 : a[k] = s[k]
  BY <1>1, SubSeqProperties
<1>3. b \in Seq(S) /\ Len(b) = Len(s) - i + 1 /\ \A k \in 1 .. Len(b) : b[k] = s[i + k - 1]
  BY <1>1, SubSeqProperties
<1> HIDE DEF a, b
<1>4. <<p>> \in Seq(S) /\ Len(<<p>>) = 1 /\ <<p>>[1] = p
  OBVIOUS
<1> DEFINE c == a \o <<p>>
<1>5. /\ c \in Seq(S) /\ Len(c) = i
      /\ \A k \in 1 .. i : c[k] = IF k < i THEN s[k] ELSE p
  BY <1>1, <1>2, <1>4, ConcatProperties
<1> HIDE DEF c
<1>6. /\ c \o b \in Seq(S) /\ Len(c \o b) = Len(c) + Len(b)
      /\ \A k \in 1 .. Len(c) + Len(b) : (c \o b)[k] = IF k <= Len(c) THEN c[k] ELSE b[k - Len(c)]
  BY <1>3, <1>5, ConcatProperties
<1>7. Len(c) = i /\ Len(c) + Len(b) = Len(s) + 1
  BY <1>1, <1>3, <1>5
<1>8. ASSUME NEW j \in 1 .. Len(s) + 1
      PROVE  (c \o b)[j] = IF j < i THEN s[j] ELSE IF j = i THEN p ELSE s[j - 1]
  <2>0. i \in Int /\ j \in Int /\ (j <= i \/ j > i)
    BY <1>1
  <2>1. CASE j <= i
    BY <1>1, <1>5, <1>6, <1>7, <2>0, <2>1
  <2>2. CASE j > i
    <3>1. j - i \in 1 .. Len(b) /\ i + (j - i) - 1 = j - 1
      BY <1>1, <1>3, <2>0, <2>2
    <3>2. b[j - i] = s[j - 1]
      BY <1>3, <3>1
    <3> QED  BY <1>1, <1>6, <1>7, <2>0, <2>2, <3>2
  <2> QED  BY Zenon, <2>0, <2>1, <2>2
<1> QED  BY Zenon, <1>6, <1>7, <1>8 DEF PutAt, a, b, c

\* handleRead() of a peer without a connector.
LEMMA InsertKeeps ==
    ASSUME MapInv, Consistent(Peers), NEW p \in Peers, AcceptorHandleRead(p)
    PROVE  MapInv'
<1> DEFINE L == LowerBound(p)
           n == Len(keys)
<1>1. n \in 0 .. 2 /\ Find(p) = 0 /\ n < MaxKeys /\ keys \in Seq(Peers)
  BY SMTT(30) DEF AcceptorHandleRead, MapInv, MaxKeys
<1>2. /\ keys # << >> => Hinted(p) /\ ~Overwrites(p)
      /\ PlaceOf(p) = L
      /\ \A j \in 1 .. n : ~(j < L) => Less(p, keys[j])
  BY <1>1, PlaceIs
<1>3. L \in 1 .. n + 1 /\ \A j \in 1 .. n : j < L <=> Less(keys[j], p)
  BY LowerBoundIs
<1>4. keys = << >> <=> n = 0
  BY <1>1, EmptySeq
<1> HIDE DEF L
<1>5. /\ keys' = PutAt(keys, L, p)
      /\ root' = RootAfterInsert(p) /\ known' = known \cup {p}
  BY Zenon, <1>2 DEF AcceptorHandleRead, Inserted, PutAt
<1>6. /\ keys' \in Seq(Peers) /\ Len(keys') = n + 1
      /\ \A j \in 1 .. n + 1 :
            keys'[j] = IF j < L THEN keys[j] ELSE IF j = L THEN p ELSE keys[j - 1]
  BY SMTT(30), <1>1, <1>3, <1>5, InsertAt
<1>7. Sorted'
  <2> SUFFICES ASSUME NEW i \in 1 .. n + 1, NEW j \in 1 .. n + 1, i < j
               PROVE  Less(keys'[i], keys'[j])
    BY <1>6 DEF Sorted
  <2>1. n \in Nat /\ L \in Nat
    BY <1>1, <1>3
  <2>2. CASE j < L
    BY <1>3, <1>6, <2>1, <2>2 DEF MapInv, Sorted
  <2>3. CASE j = L
    <3>1. keys'[i] = keys[i] /\ keys'[j] = p /\ i \in 1 .. n /\ i < L
      BY <1>3, <1>6, <2>1, <2>3
    <3> QED  BY <1>3, <3>1
  <2>4. CASE j > L /\ i < L
    <3>1. keys'[i] = keys[i] /\ keys'[j] = keys[j - 1] /\ i \in 1 .. n /\ j - 1 \in 1 .. n /\ i < j - 1
      BY <1>3, <1>6, <2>1, <2>4
    <3> QED  BY <3>1 DEF MapInv, Sorted
  <2>5. CASE j > L /\ i = L
    <3>1. keys'[i] = p /\ keys'[j] = keys[j - 1] /\ j - 1 \in 1 .. n /\ ~(j - 1 < L)
      BY <1>3, <1>6, <2>1, <2>5
    <3> QED  BY <1>2, <3>1
  <2>6. CASE i > L
    <3>1. /\ keys'[i] = keys[i - 1] /\ keys'[j] = keys[j - 1] /\ i - 1 \in 1 .. n
          /\ j - 1 \in 1 .. n /\ i - 1 < j - 1
      BY <1>3, <1>6, <2>1, <2>6
    <3> QED  BY Zenon, <3>1 DEF MapInv, Sorted
  <2> QED  BY <2>1, <2>2, <2>3, <2>4, <2>5, <2>6
<1>8. RootOK'
  <2>1. CASE n = 0
    BY <1>4, <1>5, <1>6, <2>1 DEF RootAfterInsert, RootOK
  <2>2. CASE n = 1
    BY <1>2, <1>4, <1>5, <1>6, <2>2 DEF RootAfterInsert, RootOK
  <2>3. CASE n = 2
    <3>1. RootAfterInsert(p) = 2
      BY <1>2, <1>4, <2>3 DEF RootAfterInsert
    <3> QED  BY <1>5, <1>6, <2>3, <3>1 DEF RootOK
  <2> QED  BY <1>1, <2>1, <2>2, <2>3
<1>9. known' = {keys'[i] : i \in 1 .. n + 1}
  <2>1. ASSUME NEW q \in known' PROVE \E i \in 1 .. n + 1 : keys'[i] = q
    <3>1. CASE q = p
      BY <1>1, <1>3, <1>6, <3>1
    <3>2. CASE q \in known
      <4>1. PICK i \in 1 .. n : keys[i] = q
        BY <3>2 DEF MapInv
      <4>2. CASE i < L
        BY <1>1, <1>3, <1>6, <4>1, <4>2
      <4>3. CASE ~(i < L)
        <5>1. i + 1 \in 1 .. n + 1 /\ ~(i + 1 < L) /\ i + 1 # L /\ (i + 1) - 1 = i
          BY <1>1, <1>3, <4>3
        <5> QED  BY <1>6, <4>1, <5>1
      <4> QED  BY <4>2, <4>3
    <3> QED  BY Zenon, <1>5, <2>1, <3>1, <3>2
  <2>2. ASSUME NEW i \in 1 .. n + 1 PROVE keys'[i] \in known'
    <3>1. CASE i < L
      <4>1. i \in 1 .. n /\ keys'[i] = keys[i]
        BY <1>1, <1>3, <1>6, <3>1
      <4> QED  BY Zenon, <1>5, <4>1 DEF MapInv
    <3>2. CASE i = L
      BY <1>5, <1>6, <3>2
    <3>3. CASE i > L
      <4>1. i - 1 \in 1 .. n /\ keys'[i] = keys[i - 1]
        BY <1>1, <1>3, <1>6, <3>3
      <4> QED  BY Zenon, <1>5, <4>1 DEF MapInv
    <3> QED  BY <1>1, <1>3, <3>1, <3>2, <3>3
  <2> QED  BY <2>1, <2>2
<1> QED  BY <1>1, <1>6, <1>7, <1>8, <1>9 DEF MapInv, MaxKeys

\* EraseConnector() of a peer the map finds.
LEMMA EraseKeeps ==
    ASSUME MapInv, Consistent(Peers), NEW p \in Peers, EraseConnector(p)
    PROVE  MapInv'
<1> DEFINE n == Len(keys)
           e == Find(p)
<1>1. /\ n \in 0 .. 3 /\ keys \in Seq(Peers) /\ \A i \in 1 .. n : keys[i] \in Peers
  BY ElementOfSeq DEF MapInv, MaxKeys
<1>2. e \in 1 .. n /\ keys[e] = p /\ \A i \in 1 .. n : keys[i] = p => i = e
  BY <1>1, FindIs DEF EraseConnector
<1> HIDE DEF e
<1>3. /\ keys' = [j \in 1 .. n - 1 |-> IF j < e THEN keys[j] ELSE keys[j + 1]]
      /\ root' = RootAfterErase(e) /\ known' = known \ {p}
  BY DEF EraseConnector, e
<1>4. /\ keys' \in Seq(Peers) /\ Len(keys') = n - 1
      /\ \A j \in 1 .. n - 1 : keys'[j] = IF j < e THEN keys[j] ELSE keys[j + 1]
  <2>1. \A j \in 1 .. n - 1 : (IF j < e THEN keys[j] ELSE keys[j + 1]) \in Peers
    BY <1>1, <1>2
  <2>2. n - 1 \in Nat
    BY <1>1, <1>2
  <2> QED  BY <1>3, <2>1, <2>2
<1>5. Sorted'
  <2> SUFFICES ASSUME NEW i \in 1 .. n - 1, NEW j \in 1 .. n - 1, i < j
               PROVE  Less(keys'[i], keys'[j])
    BY <1>4 DEF Sorted
  <2>1. /\ i \in 1 .. n /\ i + 1 \in 1 .. n /\ j \in 1 .. n /\ j + 1 \in 1 .. n
        /\ i < j + 1 /\ i + 1 < j + 1
        /\ i < e \/ ~(j < e)
    BY <1>1, <1>2
  <2>2. /\ keys'[i] = IF i < e THEN keys[i] ELSE keys[i + 1]
        /\ keys'[j] = IF j < e THEN keys[j] ELSE keys[j + 1]
    BY <1>4
  <2>3. /\ Less(keys[i], keys[j]) /\ Less(keys[i], keys[j + 1])
        /\ Less(keys[i + 1], keys[j + 1])
    BY <2>1 DEF MapInv, Sorted
  <2> QED  BY <2>1, <2>2, <2>3
<1>6. RootOK'
  <2>1. n \in {1, 2, 3}
    BY <1>1, <1>2
  <2>2. /\ n = 1 => root' = 0
        /\ n = 2 => root' = 1
        /\ n = 3 => root' \in {1, 2}
    BY <1>3 DEF RootAfterErase
  <2> QED  BY <1>4, <2>1, <2>2 DEF RootOK
<1>7. known' = {keys'[i] : i \in 1 .. n - 1}
  <2>1. ASSUME NEW q \in known' PROVE \E i \in 1 .. n - 1 : keys'[i] = q
    <3>1. PICK i \in 1 .. n : keys[i] = q
      BY <1>3, <2>1 DEF MapInv
    <3>2. i # e
      BY <1>2, <1>3, <2>1, <3>1
    <3>3. CASE i < e
      <4>1. i \in 1 .. n - 1
        BY <1>1, <1>2, <3>3
      <4> QED  BY <1>4, <3>1, <3>3, <4>1
    <3>4. CASE i > e
      <4>1. i - 1 \in 1 .. n - 1 /\ ~(i - 1 < e) /\ (i - 1) + 1 = i
        BY <1>1, <1>2, <3>4
      <4> QED  BY <1>4, <3>1, <4>1
    <3> QED  BY <1>1, <1>2, <3>2, <3>3, <3>4
  <2>2. ASSUME NEW i \in 1 .. n - 1 PROVE keys'[i] \in known'
    <3>1. PICK k \in 1 .. n : keys'[i] = keys[k] /\ k # e
      BY SMTT(30), <1>1, <1>2, <1>4
    <3>2. keys[k] # p
      BY <1>2, <3>1
    <3> QED  BY <1>3, <3>1, <3>2 DEF MapInv
  <2> QED  BY <2>1, <2>2
<1> QED  BY <1>1, <1>2, <1>4, <1>5, <1>6, <1>7 DEF MapInv, MaxKeys

\* The map stays a sorted, balanced tree of the peers that have a connector.
LEMMA MapInvAlways ==
    ASSUME Consistent(Peers)
    PROVE  PeersSpec => []MapInv
<1>1. PeersInit => MapInv
  BY DEF PeersInit, MapInv, Sorted, RootOK, MaxKeys
<1>2. MapInv /\ [PeersNext]_peerVars => MapInv'
  <2> SUFFICES ASSUME MapInv, [PeersNext]_peerVars PROVE MapInv'
    OBVIOUS
  <2>1. CASE UNCHANGED peerVars
    BY <2>1 DEF peerVars, MapInv, Sorted, RootOK
  <2>2. CASE PeersNext
    BY <2>2, InsertKeeps, EraseKeeps DEF PeersNext
  <2> QED  BY <2>1, <2>2
<1> QED  BY <1>1, <1>2, PTL DEF PeersSpec

\* On peers of which no two come before each other, such as those of one host, the map
\* finds every peer that has a connector at its own key, whatever is inserted and erased.
THEOREM KnownAreFound ==
    ASSUME Consistent(Peers)
    PROVE  PeersSpec => []FindsKnown
<1>1. MapInv => FindsKnown
  <2> SUFFICES ASSUME MapInv, NEW p \in known PROVE Find(p) # 0 /\ keys[Find(p)] = p
    BY DEF FindsKnown
  <2>1. PICK i \in 1 .. Len(keys) : keys[i] = p
    BY DEF MapInv
  <2>2. p \in Peers /\ Len(keys) \in Nat
    BY <2>1, ElementOfSeq DEF MapInv, MaxKeys
  <2> QED  BY <2>1, <2>2, FindIs
<1> QED  BY <1>1, MapInvAlways, PTL

\* On such peers the map has one entry for each peer that has a connector, and no
\* other: handleRead() makes no second connector, and an erased one leaves no entry.
THEOREM EntriesAreKnown ==
    ASSUME Consistent(Peers)
    PROVE  PeersSpec => []OneEntryEach
<1>1. MapInv => OneEntryEach
  <2> SUFFICES ASSUME MapInv PROVE OneEntryEach
    OBVIOUS
  <2> DEFINE n == Len(keys)
             at == [i \in 1 .. n |-> keys[i]]
  <2>1. n \in Nat /\ \A i \in 1 .. n : keys[i] \in Peers
    BY ElementOfSeq DEF MapInv, MaxKeys
  <2>2. known = {keys[i] : i \in 1 .. n}
    BY DEF MapInv
  <2>3. ASSUME NEW i \in 1 .. n, NEW j \in 1 .. n, keys[i] = keys[j]
        PROVE  i = j
    <3>1. ~(i < j) /\ ~(j < i)
      BY <2>1, <2>3, PeersOrdered DEF MapInv, Sorted
    <3> QED  BY <2>1, <3>1
  <2>4. at \in Bijection(1 .. n, known)
    BY <2>2, <2>3 DEF Bijection, Injection, Surjection, IsInjective
  <2>5. ExistsBijection(1 .. n, known)
    BY Zenon, <2>4 DEF ExistsBijection
  <2>6. Cardinality(known) = n
    BY <2>1, <2>5, FS_CountingElements
  <2> QED  BY Zenon, <2>2, <2>6 DEF OneEntryEach
<1> QED  BY <1>1, MapInvAlways, PTL
=============================================================================
