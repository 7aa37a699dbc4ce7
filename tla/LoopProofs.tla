----------------------------- MODULE LoopProofs -----------------------------
(***************************************************************************)
(* The proofs about the two places where threads hand each other work: the *)
(* queue of an event loop, and that of a thread pool.                      *)
(***************************************************************************)
EXTENDS EventLoop, ThreadPool, TLAPS

-----------------------------------------------------------------------------
(***************************************************************************)
(* Machine-checked proofs about EventLoop, for any set of threads and any  *)
(* number of functors: type correctness, no lost wakeup, the state in      *)
(* which loop() returns, and that functors run once each in the order in   *)
(* which they were queued.                                                 *)
(***************************************************************************)

\* doPendingFunctors() holds callingPendingFunctors_ up while it runs its
\* batch, and only then is there a batch.
CallingInv ==
    /\ pc \in {"swap", "run", "queued"} => callingPendingFunctors
    /\ pc \notin {"run", "queued"} => functors = <<>>

\* NoLostWakeup strengthened to every control state outside the stretch from
\* poll() to the swap, where the coming swap makes the wakeup unnecessary; a
\* functor inside queueInLoop() is about to write the eventfd itself.
WakeInv ==
    pc \notin {"events", "swap"} =>
        \A i \in 1 .. Len(pendingFunctors) :
            Late(pendingFunctors[i]) => wakeupFd > 0 \/ Waking \/ pc = "queued"

\* loop() leaves its while only with quit_ set, and nothing clears it after.
ReturnInv == pc = "returned" => quit /\ ~looping

\* The inductive invariant.
IInv == TypeOK /\ CallingInv /\ WakeInv /\ ReturnInv

-----------------------------------------------------------------------------
\* The variables have their types in every step of the loop (EventLoop.cc).
LEMMA TypeStep == TypeOK /\ [Next]_vars => TypeOK'
<1> SUFFICES ASSUME TypeOK, [Next]_vars PROVE TypeOK'
  OBVIOUS
<1> USE MaxFunctorsAssumption DEF TypeOK, Functors
<1>1. CASE QueueBeforeLoop
  BY <1>1 DEF QueueBeforeLoop, Push, loopState
<1>2. CASE Loop
  BY Zenon, <1>2 DEF Loop
<1>3. CASE WhileNotQuit
  BY <1>3 DEF WhileNotQuit
<1>4. CASE PollWakeup
  BY <1>4 DEF PollWakeup
<1>5. CASE PollOther
  BY Zenon, <1>5 DEF PollOther
<1>6. CASE HandleRead
  BY Zenon, <1>6 DEF HandleRead
<1>7. CASE BeginFunctors
  BY <1>7 DEF BeginFunctors
<1>8. CASE SwapFunctors
  BY <1>8 DEF SwapFunctors
<1>9. CASE RunFunctor
  BY <1>9 DEF RunFunctor
<1>10. CASE FunctorWakeup
  BY <1>10 DEF FunctorWakeup, Wakeup, loopState
<1>11. CASE EndFunctors
  BY Zenon, <1>11 DEF EndFunctors
<1>12. CASE HandlerQueues
  BY <1>12 DEF HandlerQueues, Push, loopState
<1>13. CASE HandlerQuits
  BY <1>13 DEF HandlerQuits, loopState
<1>14. CASE FunctorQueues
  BY <1>14 DEF FunctorQueues, Push, loopState
<1>15. CASE FunctorQuits
  BY <1>15 DEF FunctorQuits, loopState
<1>16. ASSUME NEW t \in Threads, QueueInLoop(t) PROVE TypeOK'
  BY <1>16 DEF QueueInLoop, Push, loopState
<1>17. ASSUME NEW t \in Threads, Quit(t) PROVE TypeOK'
  BY <1>17 DEF Quit, loopState
<1>18. ASSUME NEW t \in Threads, ThreadWakeup(t) PROVE TypeOK'
  BY <1>18 DEF ThreadWakeup, Wakeup, loopState
<1>19. CASE UNCHANGED vars
  BY <1>19 DEF vars
<1> QED
  BY <1>1, <1>2, <1>3, <1>4, <1>5, <1>6, <1>7, <1>8, <1>9, <1>10, <1>11,
     <1>12, <1>13, <1>14, <1>15, <1>16, <1>17, <1>18, <1>19 DEF Next, Handle

\* IInv is inductive: one step per operation of the loop and of its callers.
LEMMA InductiveStep == IInv /\ [Next]_vars => IInv'
<1> SUFFICES ASSUME IInv, [Next]_vars PROVE CallingInv' /\ WakeInv' /\ ReturnInv'
  BY TypeStep DEF IInv
<1> USE DEF IInv, TypeOK, CallingInv, WakeInv, ReturnInv, Late, Waking
<1>1. CASE QueueBeforeLoop
  BY <1>1 DEF QueueBeforeLoop, Push, loopState
<1>2. CASE Loop
  BY <1>2 DEF Loop
<1>3. CASE WhileNotQuit
  BY Zenon, <1>3 DEF WhileNotQuit
<1>4. CASE PollWakeup
  BY <1>4 DEF PollWakeup
<1>5. CASE PollOther
  BY <1>5 DEF PollOther
<1>6. CASE HandleRead
  BY <1>6 DEF HandleRead
<1>7. CASE BeginFunctors
  BY <1>7 DEF BeginFunctors
<1>8. CASE SwapFunctors
  BY <1>8 DEF SwapFunctors
<1>9. CASE RunFunctor
  BY <1>9 DEF RunFunctor
<1>10. CASE FunctorWakeup
  BY <1>10 DEF FunctorWakeup, Wakeup, loopState
<1>11. CASE EndFunctors
  BY <1>11 DEF EndFunctors
<1>12. CASE HandlerQueues
  BY <1>12 DEF HandlerQueues, Push, loopState
<1>13. CASE HandlerQuits
  BY <1>13 DEF HandlerQuits, loopState
<1>14. CASE FunctorQueues
  BY <1>14 DEF FunctorQueues, Push, loopState
<1>15. CASE FunctorQuits
  BY <1>15 DEF FunctorQuits, loopState
<1>16. ASSUME NEW t \in Threads, QueueInLoop(t)
       PROVE  CallingInv' /\ WakeInv' /\ ReturnInv'
  <2>1. Waking'
    BY <1>16 DEF QueueInLoop
  <2> QED
    BY <1>16, <2>1 DEF QueueInLoop, loopState
<1>17. ASSUME NEW t \in Threads, Quit(t)
       PROVE  CallingInv' /\ WakeInv' /\ ReturnInv'
  <2>1. Waking'
    BY <1>17 DEF Quit
  <2> QED
    BY <1>17, <2>1 DEF Quit, loopState
<1>18. ASSUME NEW t \in Threads, ThreadWakeup(t)
       PROVE  CallingInv' /\ WakeInv' /\ ReturnInv'
  <2>1. wakeupFd' > 0
    BY <1>18 DEF ThreadWakeup, Wakeup
  <2> QED
    BY <1>18, <2>1 DEF ThreadWakeup, loopState
<1>19. CASE UNCHANGED vars
  BY <1>19 DEF vars
<1> QED
  BY <1>1, <1>2, <1>3, <1>4, <1>5, <1>6, <1>7, <1>8, <1>9, <1>10, <1>11,
     <1>12, <1>13, <1>14, <1>15, <1>16, <1>17, <1>18, <1>19 DEF Next, Handle

\* A constructed loop (EventLoop::EventLoop()) satisfies the invariant.
LEMMA InitInductive == Init => IInv
<1> SUFFICES ASSUME Init PROVE IInv
  OBVIOUS
<1> USE DEF Init
<1>1. TypeOK
  <2>1. nextFunctor \in 1 .. MaxFunctors + 1
    BY MaxFunctorsAssumption
  <2>2. tpc \in [Threads -> {"idle", "wakeup"}]
    OBVIOUS
  <2>3. <<>> \in Seq(Functors)
    OBVIOUS
  <2>4. pc \in {"created", "while", "poll", "events", "swap", "run", "queued",
                "returned"}
    OBVIOUS
  <2>5. wakeupFd \in Nat /\ early \subseteq Functors
    OBVIOUS
  <2> QED
    BY Zenon, <2>1, <2>2, <2>3, <2>4, <2>5 DEF TypeOK
<1>2. CallingInv /\ ReturnInv
  BY DEF CallingInv, ReturnInv
<1>3. WakeInv
  BY DEF WakeInv
<1> QED
  BY <1>1, <1>2, <1>3 DEF IInv

\* IInv holds throughout.
LEMMA Inductive == Spec => []IInv
BY InitInductive, InductiveStep, PTL DEF Spec

-----------------------------------------------------------------------------
\* Type correctness of the loop's state.
THEOREM TypeCorrect == Spec => []TypeOK
<1>1. IInv => TypeOK
  BY DEF IInv
<1> QED
  BY <1>1, Inductive, PTL

\* The loop thread never sleeps on a functor whose wakeup was lost.
THEOREM WakeupsNotLost == Spec => []NoLostWakeup
<1>1. IInv => NoLostWakeup
  BY DEF IInv, WakeInv, NoLostWakeup
<1> QED
  BY <1>1, Inductive, PTL

\* loop() returns only after a quit() and never in the middle of a batch.
THEOREM ReturnsAfterBatch == Spec => []ReturnAfterBatch
<1>1. IInv => ReturnAfterBatch
  BY DEF IInv, CallingInv, ReturnInv, ReturnAfterBatch
<1> QED
  BY <1>1, Inductive, PTL

-----------------------------------------------------------------------------
\* Implementation of FunctorQueue: a push appends to the abstract queue, the
\* swap leaves it as it is, and running a functor takes its head.
LEMMA PushEnqueues ==
    ASSUME IInv, Push, UNCHANGED <<functors, ran>>
    PROVE  FunctorQueueSpec!Next
<1> USE DEF IInv, TypeOK
<1>1. nextFunctor \in Functors
  BY MaxFunctorsAssumption DEF Push, Functors
<1>2. functors' \o pendingFunctors' = Append(functors \o pendingFunctors, nextFunctor)
  BY <1>1 DEF Push
<1>3. FunctorQueueSpec!Enqueue(nextFunctor)
  BY <1>2 DEF FunctorQueueSpec!Enqueue
<1> QED
  BY <1>1, <1>3 DEF FunctorQueueSpec!Next

\* The head of a concatenation goes with its first part.
LEMMA TailOfConcat ==
    ASSUME NEW s \in Seq(Nat), NEW t \in Seq(Nat), s # <<>>
    PROVE  Tail(s \o t) = Tail(s) \o t
BY SMTT(60)

\* functors[i]() takes the head of the abstract queue.
LEMMA RunTakesHead == ASSUME IInv, RunFunctor PROVE FunctorQueueSpec!Next
<1> USE DEF IInv, TypeOK, RunFunctor
<1> DEFINE q == functors \o pendingFunctors
<1>1. q # <<>> /\ Head(q) = Head(functors)
  OBVIOUS
<1>2. functors' \o pendingFunctors' = Tail(q)
  <2>1. functors \in Seq(Nat) /\ pendingFunctors \in Seq(Nat) /\ functors # <<>>
    BY MaxFunctorsAssumption DEF Functors
  <2>2. functors' = Tail(functors) /\ pendingFunctors' = pendingFunctors
    OBVIOUS
  <2> QED
    BY ONLY Zenon, <2>1, <2>2, TailOfConcat
<1>3. FunctorQueueSpec!Run
  BY <1>1, <1>2 DEF FunctorQueueSpec!Run
<1> QED
  BY <1>3 DEF FunctorQueueSpec!Next

\* The swap under mutex_ moves functors without reordering them.
LEMMA SwapStutters ==
    ASSUME IInv, SwapFunctors PROVE UNCHANGED FunctorQueueSpec!vars
<1> USE DEF IInv, TypeOK, CallingInv, SwapFunctors
<1>1. functors = <<>>
  OBVIOUS
<1>2. functors' \o pendingFunctors' = functors \o pendingFunctors
  BY <1>1
<1> QED
  BY <1>2 DEF FunctorQueueSpec!vars

\* Every step of the loop is a step of the queue or leaves it alone.
LEMMA StepRefines == IInv /\ [Next]_vars => [FunctorQueueSpec!Next]_FunctorQueueSpec!vars
<1> SUFFICES ASSUME IInv, [Next]_vars
             PROVE  [FunctorQueueSpec!Next]_FunctorQueueSpec!vars
  OBVIOUS
<1>1. CASE QueueBeforeLoop \/ HandlerQueues \/ FunctorQueues
           \/ \E t \in Threads : QueueInLoop(t)
  BY <1>1, PushEnqueues
     DEF QueueBeforeLoop, HandlerQueues, FunctorQueues, QueueInLoop, loopState
<1>2. CASE RunFunctor
  BY <1>2, RunTakesHead
<1>3. CASE SwapFunctors
  BY <1>3, SwapStutters
<1>4. CASE UNCHANGED <<functors, pendingFunctors, ran>>
  BY <1>4 DEF FunctorQueueSpec!vars
<1> QED
  BY <1>1, <1>2, <1>3, <1>4
     DEF Next, Handle, vars, Loop, WhileNotQuit, PollWakeup, PollOther,
         HandleRead, BeginFunctors, FunctorWakeup, EndFunctors, HandlerQuits,
         FunctorQuits, Quit, ThreadWakeup, loopState

\* Every behaviour of the loop is one of the first-in first-out queue.
THEOREM ImplementsFunctorQueue == Spec => RunsInOrder
<1>1. Init => FunctorQueueSpec!Init
  BY DEF Init, FunctorQueueSpec!Init
<1> QED
  BY <1>1, Inductive, StepRefines, PTL DEF Spec, RunsInOrder, FunctorQueueSpec!Spec

-----------------------------------------------------------------------------
(***************************************************************************)
(* ThreadPool is a bounded first-in first-out queue of tasks for any number  *)
(* of workers and producers, any bound and either build, whatever the        *)
(* conditions wake and when.                                                 *)
(***************************************************************************)

Tasks == Producers \X Nat

PoolTypeOK ==
    /\ maxQueueSize \in Nat
    /\ poolBuild \in {"linux", "win"}
    /\ queue_ \in Seq(Tasks) /\ taken \in Seq(Tasks)
    /\ next \in [Producers -> Nat \ {0}]
    /\ turn \in Nat
    /\ tid \in [Workers -> BOOLEAN]
    /\ latch \in [Workers -> {0, 1}]

\* A pool without threads runs its tasks in place and queues none.
InPlace ==
    /\ producer \in [Producers -> {"idle", "run", "notFull"}]
    /\ Workers = {} => queue_ = << >> /\ \A p \in Producers : producer[p] = "idle"

\* The latch of a thread is down once its id is set, and start() has passed the
\* threads before `turn`.
LatchAfterTid ==
    /\ \A w \in Workers : latch[w] = 0 => tid[w]
    /\ poolOwner = "new" => turn = 1
    /\ poolBuild = "linux" =>
           \A w \in Workers :
               poolOwner \in {"starting", "latched", "running"} /\ w < turn => tid[w]

PoolInv == PoolTypeOK /\ InPlace /\ LatchAfterTid /\ QueueIsBounded /\ TakenInOrder

-----------------------------------------------------------------------------
(* Sequences *)

\* What moves from the head of one sequence to the end of another leaves their
\* concatenation as it is.
LEMMA HeadMoves ==
    ASSUME NEW S, NEW s \in Seq(S), NEW q \in Seq(S), q # << >>
    PROVE  Append(s, Head(q)) \o Tail(q) = s \o q
  BY SMTT(60)

\* A predicate of its own, so that the lemma is instantiated without sequences.
AppendsBehind(s, q, e) == s \o Append(q, e) = Append(s \o q, e)

\* Pushing behind the queue pushes behind all tasks.
LEMMA AppendToConcat ==
    ASSUME NEW S, NEW s \in Seq(S), NEW q \in Seq(S), NEW e \in S
    PROVE  AppendsBehind(s, q, e)
  BY SMTT(60) DEF AppendsBehind

\* run() gives the producer's next task a place behind all others.
LEMMA NextTaskInOrder ==
    ASSUME NEW all \in Seq(Tasks), NEW given \in [Producers -> Nat \ {0}],
           NEW p \in Producers, EveryTaskInOrder(all, given)
    PROVE  EveryTaskInOrder(Append(all, <<p, given[p]>>), [given EXCEPT ![p] = @ + 1])
<1> DEFINE more == Append(all, <<p, given[p]>>)
           then == [given EXCEPT ![p] = @ + 1]
<1>1. /\ Len(all) \in Nat
      /\ DOMAIN all = 1 .. Len(all) /\ DOMAIN more = 1 .. Len(all) + 1
      /\ \A k \in DOMAIN all : more[k] = all[k] /\ all[k] \in Tasks
      /\ more[Len(all) + 1] = <<p, given[p]>>
  BY DEF Tasks
<1>2. \A q \in Producers : given[q] \in Nat \ {0} /\ then[q] = IF q = p THEN given[q] + 1 ELSE given[q]
  OBVIOUS
<1>3. \A k \in DOMAIN all : all[k][1] \in Producers /\ all[k][2] \in Nat
  BY <1>1 DEF Tasks
<1>t. <<p, given[p]>>[1] = p /\ <<p, given[p]>>[2] = given[p]
  OBVIOUS
<1> HIDE DEF more, then
<1>u. \A q \in Producers : given[q] <= then[q] /\ given[q] \in Nat /\ then[q] \in Nat
  BY <1>2
<1>a. \A k \in DOMAIN all : k \in DOMAIN more /\ more[k] = all[k]
  BY <1>1
<1>4. \A k \in DOMAIN more : more[k][2] < then[more[k][1]]
  <2> SUFFICES ASSUME NEW k \in DOMAIN more PROVE more[k][2] < then[more[k][1]]
    OBVIOUS
  <2>1. CASE k \in DOMAIN all
    <3>1. all[k][2] < given[all[k][1]]
      BY <2>1 DEF EveryTaskInOrder
    <3>2. /\ given[all[k][1]] <= then[all[k][1]]
          /\ given[all[k][1]] \in Nat /\ then[all[k][1]] \in Nat /\ all[k][2] \in Nat
      BY <2>1, <1>3, <1>u, Zenon
    <3>3. all[k][2] < then[all[k][1]]
      BY <3>1, <3>2
    <3> QED  BY <2>1, <3>3, <1>a, Zenon
  <2>2. CASE k = Len(all) + 1
    BY <2>2, <1>1, <1>2, <1>t
  <2> QED  BY <1>1, <2>1, <2>2
<1>5. \A q \in Producers : \A i \in 1 .. then[q] - 1 : \E k \in DOMAIN more : more[k] = <<q, i>>
  <2> SUFFICES ASSUME NEW q \in Producers, NEW i \in 1 .. then[q] - 1
               PROVE  \E k \in DOMAIN more : more[k] = <<q, i>>
    OBVIOUS
  <2>1. CASE i \in 1 .. given[q] - 1
    <3>1. PICK k \in DOMAIN all : all[k] = <<q, i>>
      BY <2>1 DEF EveryTaskInOrder
    <3> QED  BY <3>1, <1>a, Zenon
  <2>2. CASE q = p /\ i = given[p]
    BY <2>2, <1>1
  <2> QED  BY <1>2, <2>1, <2>2
<1>6. \A j, k \in DOMAIN more : j < k /\ more[j][1] = more[k][1] => more[j][2] < more[k][2]
  <2> SUFFICES ASSUME NEW j \in DOMAIN more, NEW k \in DOMAIN more, j < k,
                      more[j][1] = more[k][1]
               PROVE  more[j][2] < more[k][2]
    OBVIOUS
  <2>1. j \in DOMAIN all
    BY <1>1
  <2>2. CASE k \in DOMAIN all
    BY <2>1, <2>2, <1>1 DEF EveryTaskInOrder
  <2>3. CASE k = Len(all) + 1
    BY <2>1, <2>3, <1>1, <1>t DEF EveryTaskInOrder
  <2> QED  BY <1>1, <2>2, <2>3
<1> QED  BY Zenon, <1>4, <1>5, <1>6 DEF EveryTaskInOrder, more, then

-----------------------------------------------------------------------------
(* The inductive invariant *)

\* The invariant holds at first.
LEMMA PoolInvInit == PoolInit => PoolInv
<1> SUFFICES ASSUME PoolInit PROVE PoolInv
  OBVIOUS
<1>1. PoolTypeOK
  <2>1. tid \in [Workers -> BOOLEAN]
    BY DEF PoolInit
  <2>2. queue_ \in Seq(Tasks) /\ taken \in Seq(Tasks)
    BY DEF PoolInit
  <2>3. poolBuild \in {"linux", "win"} /\ maxQueueSize \in Nat
    BY PoolAssumption DEF PoolInit
  <2> QED  BY <2>1, <2>2, <2>3 DEF PoolInit, PoolTypeOK
<1>2. InPlace
  BY DEF PoolInit, InPlace
<1>3. LatchAfterTid
  <2>1. \A w \in Workers : latch[w] = 1
    BY DEF PoolInit
  <2> QED  BY <2>1 DEF PoolInit, LatchAfterTid
<1>4. QueueIsBounded
  BY <1>1 DEF PoolInit, QueueIsBounded, PoolTypeOK
<1>5. TakenInOrder
  <2>1. taken \o queue_ = << >>
    BY DEF PoolInit
  <2>2. \A p \in Producers : next[p] = 1
    BY DEF PoolInit
  <2> QED  BY <2>1, <2>2 DEF TakenInOrder, EveryTaskInOrder
<1> QED  BY <1>1, <1>2, <1>3, <1>4, <1>5 DEF PoolInv

\* take(): the head of the queue becomes the last task taken.
LEMMA TakeKeeps ==
    ASSUME PoolInv, NEW w \in Workers, take(w)
    PROVE  PoolInv'
<1> USE DEF PoolInv
<1>1. producer' \in [Producers -> {"idle", "run", "notFull"}]
  BY DEF take, InPlace, Notify
<1>2. LatchAfterTid'
  BY DEF take, LatchAfterTid
<1>3. CASE queue_ = << >>
  <2>1. UNCHANGED <<poolBuild, maxQueueSize, queue_, tid, latch, next, turn, taken>>
    BY <1>3 DEF take
  <2>2. PoolTypeOK' /\ QueueIsBounded' /\ TakenInOrder'
    BY <2>1 DEF PoolTypeOK, QueueIsBounded, TakenInOrder
  <2>3. InPlace'
    BY <2>1, <1>1 DEF InPlace
  <2> QED  BY <1>2, <2>2, <2>3
<1>4. CASE queue_ # << >>
  <2>1. /\ UNCHANGED <<poolBuild, maxQueueSize, tid, latch, next, turn>>
        /\ taken' = Append(taken, Head(queue_)) /\ queue_' = Tail(queue_)
    BY <1>4 DEF take
  <2>2. /\ queue_' \in Seq(Tasks) /\ taken' \in Seq(Tasks)
        /\ Len(queue_') = Len(queue_) - 1 /\ Len(queue_) \in Nat
    BY <1>4, <2>1 DEF PoolTypeOK
  <2>3. PoolTypeOK'
    BY <2>1, <2>2 DEF PoolTypeOK
  <2>4. QueueIsBounded'
    BY <2>1, <2>2 DEF QueueIsBounded, PoolTypeOK
  <2>5. taken' \o queue_' = taken \o queue_
    BY <1>4, <2>1, HeadMoves DEF PoolTypeOK
  <2>6. TakenInOrder'
    BY Zenon, <2>1, <2>5 DEF TakenInOrder
  <2>7. InPlace'
    BY <1>1 DEF InPlace
  <2> QED  BY <1>2, <2>3, <2>4, <2>6, <2>7
<1> QED  BY <1>3, <1>4

\* run(): waits when the queue is full, else queues the producer's next task.
LEMMA RunKeeps ==
    ASSUME PoolInv, NEW p \in Producers, run(p)
    PROVE  PoolInv'
<1> USE DEF PoolInv
<1>0. Workers # {}
  BY DEF run, InPlace
<1>1. InPlace'
  BY <1>0 DEF run, InPlace
<1>2. LatchAfterTid'
  BY DEF run, LatchAfterTid
<1>3. CASE isFull
  <2>1. UNCHANGED <<poolBuild, maxQueueSize, queue_, tid, latch, next, turn, taken>>
    BY <1>3 DEF run
  <2> QED  BY <1>1, <1>2, <2>1 DEF PoolTypeOK, QueueIsBounded, TakenInOrder
<1>4. CASE ~isFull
  <2>1. /\ UNCHANGED <<poolBuild, maxQueueSize, tid, latch, turn, taken>>
        /\ queue_' = Append(queue_, <<p, next[p]>>)
        /\ next' = [next EXCEPT ![p] = @ + 1]
    BY <1>4 DEF run
  <2>2. <<p, next[p]>> \in Tasks /\ next' \in [Producers -> Nat \ {0}]
    BY <2>1 DEF PoolTypeOK, Tasks
  <2>3. /\ queue_' \in Seq(Tasks)
        /\ Len(queue_') = Len(queue_) + 1 /\ Len(queue_) \in Nat
    BY <2>1, <2>2 DEF PoolTypeOK
  <2>4. PoolTypeOK'
    BY <2>1, <2>2, <2>3 DEF PoolTypeOK
  <2>5. QueueIsBounded'
    BY <1>4, <2>1, <2>3 DEF QueueIsBounded, PoolTypeOK, isFull, isFullLinux, isFullWin
  <2>6. taken' \o queue_' = Append(taken \o queue_, <<p, next[p]>>)
    <3>1. taken \in Seq(Tasks) /\ queue_ \in Seq(Tasks)
      BY DEF PoolTypeOK
    <3>2. AppendsBehind(taken, queue_, <<p, next[p]>>)
      BY <2>2, <3>1, AppendToConcat, Zenon
    <3> QED  BY <2>1, <3>2 DEF AppendsBehind
  <2>7. taken \o queue_ \in Seq(Tasks)
    BY DEF PoolTypeOK
  <2>8. TakenInOrder'
    BY Zenon, <2>1, <2>6, <2>7, NextTaskInOrder DEF TakenInOrder, PoolTypeOK
  <2> QED  BY <1>1, <1>2, <2>4, <2>5, <2>8
<1> QED  BY <1>3, <1>4

\* A call of run() on a pool without threads runs the task there and then.
LEMMA CallRunKeeps ==
    ASSUME PoolInv, NEW p \in Producers, CallRun(p)
    PROVE  PoolInv'
<1> USE DEF PoolInv
<1>1. LatchAfterTid' /\ QueueIsBounded'
  BY DEF CallRun, LatchAfterTid, QueueIsBounded
<1>2. CASE Workers = {}
  <2>1. /\ UNCHANGED <<poolBuild, maxQueueSize, queue_, tid, latch, turn, producer>>
        /\ taken' = Append(taken, <<p, next[p]>>)
        /\ next' = [next EXCEPT ![p] = @ + 1]
    BY <1>2 DEF CallRun
  <2>2. <<p, next[p]>> \in Tasks /\ next' \in [Producers -> Nat \ {0}]
    BY <2>1 DEF PoolTypeOK, Tasks
  <2>3. PoolTypeOK' /\ InPlace'
    BY <2>1, <2>2 DEF PoolTypeOK, InPlace
  <2>4. taken \o queue_ = taken /\ taken' \o queue_' = taken'
    BY <1>2, <2>1, <2>3 DEF PoolTypeOK, InPlace
  <2>5. TakenInOrder'
    BY Zenon, <2>1, <2>4, NextTaskInOrder DEF TakenInOrder, PoolTypeOK
  <2> QED  BY <1>1, <2>3, <2>5
<1>3. CASE Workers # {}
  <2>1. /\ UNCHANGED <<poolBuild, maxQueueSize, queue_, tid, latch, next, turn, taken>>
        /\ producer' = [producer EXCEPT ![p] = "run"]
    BY <1>3 DEF CallRun
  <2> QED  BY <1>1, <1>3, <2>1 DEF PoolTypeOK, InPlace, TakenInOrder
<1> QED  BY <1>2, <1>3

\* The starting and stopping thread, and the threads it starts.
LEMMA OwnerKeeps ==
    ASSUME PoolInv, OwnerNext \/ stop
    PROVE  PoolInv'
<1> USE DEF PoolInv
<1>1. UNCHANGED <<poolBuild, maxQueueSize, queue_, tid, latch, producer, next, taken>>
  BY DEF OwnerNext, start, StartThread, ThreadStarted, Started, stop, join
<1>2. turn' \in Nat
  BY DEF OwnerNext, start, StartThread, ThreadStarted, Started, stop, join, PoolTypeOK
<1>3. PoolTypeOK' /\ InPlace' /\ QueueIsBounded' /\ TakenInOrder'
  BY <1>1, <1>2 DEF PoolTypeOK, InPlace, QueueIsBounded, TakenInOrder
<1>4. LatchAfterTid'
  <2>1. CASE ThreadStarted
    <3>1. poolBuild = "linux" => latch[turn] = 0
      BY <2>1 DEF ThreadStarted
    <3>2. \A w \in Workers : w < turn' => w < turn \/ w = turn
      BY <2>1, PoolAssumption DEF ThreadStarted, PoolTypeOK
    <3> QED  BY <1>1, <2>1, <3>1, <3>2 DEF ThreadStarted, LatchAfterTid
  <2>2. CASE start
    <3>1. \A w \in Workers : ~(w < turn')
      BY <2>2, PoolAssumption DEF start, LatchAfterTid
    <3> QED  BY <1>1, <2>2, <3>1 DEF start, LatchAfterTid
  <2>3. CASE StartThread \/ Started
    BY <1>1, <2>3 DEF StartThread, Started, LatchAfterTid
  <2>4. CASE stop \/ join
    BY <1>1, <2>4 DEF stop, join, LatchAfterTid
  <2> QED  BY <2>1, <2>2, <2>3, <2>4 DEF OwnerNext
<1> QED  BY <1>3, <1>4

\* The steps of a worker.
LEMMA WorkerKeeps ==
    ASSUME PoolInv, NEW w \in Workers,
           ThreadRuns(w) \/ runInThread(w) \/ RunTask(w) \/ SpuriousWakeup(w)
    PROVE  PoolInv'
<1> USE DEF PoolInv
<1>1. UNCHANGED <<poolBuild, maxQueueSize, queue_, producer, next, taken, turn, poolOwner>>
  BY DEF ThreadRuns, runInThread, RunTask, SpuriousWakeup
<1>2. /\ tid' \in [Workers -> BOOLEAN] /\ latch' \in [Workers -> {0, 1}]
      /\ \A v \in Workers : (tid[v] => tid'[v]) /\ (latch'[v] = 0 => latch[v] = 0 \/ tid'[v])
  BY Zenon DEF ThreadRuns, runInThread, RunTask, SpuriousWakeup, PoolTypeOK
<1>3. PoolTypeOK' /\ InPlace' /\ QueueIsBounded' /\ TakenInOrder'
  BY <1>1, <1>2 DEF PoolTypeOK, InPlace, QueueIsBounded, TakenInOrder
<1>4. LatchAfterTid'
  BY <1>1, <1>2 DEF LatchAfterTid
<1> QED  BY <1>3, <1>4

\* For any workers, producers and bound: the queue stays within its bound, every
\* task is queued or taken once and in its producer's order, and start() passes a
\* thread only after its id is set (ThreadPool.cc, Thread.cc).
THEOREM PoolQueue == PoolSpec => []PoolIsQueue
<1>1. PoolInv /\ [PoolNext]_threadPoolVars => PoolInv'
  <2> SUFFICES ASSUME PoolInv, [PoolNext]_threadPoolVars PROVE PoolInv'
    OBVIOUS
  <2>1. CASE UNCHANGED threadPoolVars
    BY <2>1 DEF threadPoolVars, PoolInv, PoolTypeOK, InPlace, LatchAfterTid, QueueIsBounded,
                TakenInOrder
  <2>2. CASE OwnerNext \/ stop
    BY <2>2, OwnerKeeps
  <2>3. ASSUME NEW w \in Workers, WorkerNext(w) \/ SpuriousWakeup(w) PROVE PoolInv'
    BY <2>3, WorkerKeeps, TakeKeeps DEF WorkerNext
  <2>4. ASSUME NEW p \in Producers, CallRun(p) \/ ProducerNext(p) PROVE PoolInv'
    BY <2>4, CallRunKeeps, RunKeeps DEF ProducerNext
  <2> QED  BY <2>1, <2>2, <2>3, <2>4 DEF PoolNext
<1>2. PoolInv => PoolIsQueue
  BY DEF PoolInv, PoolIsQueue, LatchAfterTid, StartedHasTid
<1> QED  BY PoolInvInit, <1>1, <1>2, PTL DEF PoolSpec
=============================================================================
