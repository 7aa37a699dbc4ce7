----------------------------- MODULE EventLoop -----------------------------
(***************************************************************************)
(* muduo's EventLoop: one loop thread that polls, handles events and runs  *)
(* the functors other threads queue, and the eventfd that wakes it up.     *)
(* Locked regions are atomic; the steps between them interleave.           *)
(***************************************************************************)
EXTENDS Naturals, Sequences

CONSTANTS Threads,      \* threads other than the loop thread
          MaxFunctors   \* bound on the number of functors ever queued

ASSUME MaxFunctorsAssumption == MaxFunctors \in Nat

Functors == 1 .. MaxFunctors

VARIABLES
    looping,                 \* looping_
    quit,                    \* quit_
    callingPendingFunctors,  \* callingPendingFunctors_
    pendingFunctors,         \* pendingFunctors_, guarded by mutex_
    functors,                \* the batch doPendingFunctors() swapped out
    wakeupFd,                \* counter of the eventfd
    active,                  \* the poll reported the wakeup channel readable
    pc,                      \* control state of the loop thread
    tpc,                     \* control state of the other threads
    nextFunctor,             \* the next functor to be queued (identity only)
    early,                   \* functors the loop thread queued before loop()
    ran                      \* functors run so far

vars == <<looping, quit, callingPendingFunctors, pendingFunctors, functors,
          wakeupFd, active, pc, tpc, nextFunctor, early, ran>>

loopState == <<looping, callingPendingFunctors, functors, active, ran>>

Init ==
    /\ looping = FALSE
    /\ quit = FALSE
    /\ callingPendingFunctors = FALSE
    /\ pendingFunctors = <<>>
    /\ functors = <<>>
    /\ wakeupFd = 0
    /\ active = FALSE
    /\ pc = "created"
    /\ tpc = [t \in Threads |-> "idle"]
    /\ nextFunctor = 1
    /\ early = {}
    /\ ran = <<>>

-----------------------------------------------------------------------------
\* The locked push of queueInLoop(), for whichever thread calls it.
Push ==
    /\ nextFunctor <= MaxFunctors
    /\ pendingFunctors' = Append(pendingFunctors, nextFunctor)
    /\ nextFunctor' = nextFunctor + 1

\* wakeup(): adds one to the eventfd.
Wakeup == wakeupFd' = wakeupFd + 1

\* Another thread's queueInLoop(), or its runInLoop(), which queues because
\* isInLoopThread() is false there: the push, and next its wakeup().
QueueInLoop(t) ==
    /\ tpc[t] = "idle"
    /\ Push
    /\ tpc' = [tpc EXCEPT ![t] = "wakeup"]
    /\ UNCHANGED <<loopState, quit, wakeupFd, pc, early>>

\* Broken variant: quit() that never wakes the loop.
QuitNoWakeup(t) ==
    /\ tpc[t] = "idle"
    /\ ~quit
    /\ quit' = TRUE
    /\ UNCHANGED <<loopState, pendingFunctors, wakeupFd, pc, tpc, nextFunctor,
                   early>>

\* Another thread's quit(): the flag, and next its wakeup().  Bound: no thread
\* calls it again while quit_ is set (that would only add to the eventfd).
Quit(t) ==
    /\ tpc[t] = "idle"
    /\ ~quit
    /\ quit' = TRUE
    /\ tpc' = [tpc EXCEPT ![t] = "wakeup"]
    /\ UNCHANGED <<loopState, pendingFunctors, wakeupFd, pc, nextFunctor, early>>

\* Broken variant: the write to the eventfd is lost.
ThreadWakeupLost(t) ==
    /\ tpc[t] = "wakeup"
    /\ tpc' = [tpc EXCEPT ![t] = "idle"]
    /\ UNCHANGED <<loopState, quit, pendingFunctors, wakeupFd, pc, nextFunctor,
                   early>>

\* The wakeup() that ends another thread's queueInLoop() or quit().
ThreadWakeup(t) ==
    /\ tpc[t] = "wakeup"
    /\ Wakeup
    /\ tpc' = [tpc EXCEPT ![t] = "idle"]
    /\ UNCHANGED <<loopState, quit, pendingFunctors, pc, nextFunctor, early>>

-----------------------------------------------------------------------------
\* queueInLoop() on the loop thread before loop(): it does not wake the loop.
QueueBeforeLoop ==
    /\ pc = "created"
    /\ Push
    /\ early' = early \cup {nextFunctor}
    /\ UNCHANGED <<loopState, quit, wakeupFd, pc, tpc>>

\* loop() up to its while: note that quit_ is cleared.
Loop ==
    /\ pc = "created"
    /\ looping' = TRUE
    /\ quit' = FALSE
    /\ pc' = "while"
    /\ UNCHANGED <<callingPendingFunctors, pendingFunctors, functors, wakeupFd,
                   active, tpc, nextFunctor, early, ran>>

\* The test of while ( !quit_ ), and the end of loop().
WhileNotQuit ==
    /\ pc = "while"
    /\ pc' = IF quit THEN "returned" ELSE "poll"
    /\ looping' = ~quit
    /\ UNCHANGED <<quit, callingPendingFunctors, pendingFunctors, functors,
                   wakeupFd, active, tpc, nextFunctor, early, ran>>

\* poll() returns because the wakeup channel is readable.
PollWakeup ==
    /\ pc = "poll"
    /\ wakeupFd > 0
    /\ active' = TRUE
    /\ pc' = "events"
    /\ UNCHANGED <<looping, quit, callingPendingFunctors, pendingFunctors,
                   functors, wakeupFd, tpc, nextFunctor, early, ran>>

\* poll() returns for another channel, or after kPollTimeMs.
PollOther ==
    /\ pc = "poll"
    /\ wakeupFd = 0
    /\ active' = FALSE
    /\ pc' = "events"
    /\ UNCHANGED <<looping, quit, callingPendingFunctors, pendingFunctors,
                   functors, wakeupFd, tpc, nextFunctor, early, ran>>

\* Broken variant: runs after every poll and takes one off the counter.
HandleReadAlways ==
    /\ pc = "events"
    /\ wakeupFd' = wakeupFd - 1
    /\ active' = FALSE
    /\ UNCHANGED <<looping, quit, callingPendingFunctors, pendingFunctors,
                   functors, pc, tpc, nextFunctor, early, ran>>

\* EventLoop::handleRead(), the wakeup channel's callback: empties the eventfd.
HandleRead ==
    /\ pc = "events"
    /\ active
    /\ wakeupFd' = 0
    /\ active' = FALSE
    /\ UNCHANGED <<looping, quit, callingPendingFunctors, pendingFunctors,
                   functors, pc, tpc, nextFunctor, early, ran>>

\* The handler of another channel calls queueInLoop(): it runs on the loop
\* thread with callingPendingFunctors_ false, so there is no wakeup().
HandlerQueues ==
    /\ pc = "events"
    /\ Push
    /\ UNCHANGED <<loopState, quit, wakeupFd, pc, tpc, early>>

\* The handler of another channel calls quit(): no wakeup() on this thread.
HandlerQuits ==
    /\ pc = "events"
    /\ quit' = TRUE
    /\ UNCHANGED <<loopState, pendingFunctors, wakeupFd, pc, tpc, nextFunctor,
                   early>>

\* doPendingFunctors() sets callingPendingFunctors_ before it takes mutex_.
BeginFunctors ==
    /\ pc = "events"
    /\ ~active
    /\ callingPendingFunctors' = TRUE
    /\ pc' = "swap"
    /\ UNCHANGED <<looping, quit, pendingFunctors, functors, wakeupFd, active,
                   tpc, nextFunctor, early, ran>>

\* Broken variant: copies the queue instead of swapping it out.
SwapFunctorsCopy ==
    /\ pc = "swap"
    /\ functors' = pendingFunctors
    /\ pc' = "run"
    /\ UNCHANGED <<looping, quit, callingPendingFunctors, pendingFunctors,
                   wakeupFd, active, tpc, nextFunctor, early, ran>>

\* functors.swap( pendingFunctors_ ) under mutex_.
SwapFunctors ==
    /\ pc = "swap"
    /\ functors' = pendingFunctors
    /\ pendingFunctors' = <<>>
    /\ pc' = "run"
    /\ UNCHANGED <<looping, quit, callingPendingFunctors, wakeupFd, active, tpc,
                   nextFunctor, early, ran>>

\* functors[i]() for the next i.
RunFunctor ==
    /\ pc = "run"
    /\ functors # <<>>
    /\ ran' = Append(ran, Head(functors))
    /\ functors' = Tail(functors)
    /\ UNCHANGED <<looping, quit, callingPendingFunctors, pendingFunctors,
                   wakeupFd, active, pc, tpc, nextFunctor, early>>

\* queueInLoop() called by a functor: the push ...
FunctorQueues ==
    /\ pc = "run"
    /\ ran # <<>>
    /\ Push
    /\ pc' = "queued"
    /\ UNCHANGED <<loopState, quit, wakeupFd, tpc, early>>

\* Broken variant: the loop thread never wakes itself up.
FunctorWakeupNever ==
    /\ pc = "queued"
    /\ pc' = "run"
    /\ UNCHANGED <<loopState, quit, pendingFunctors, wakeupFd, tpc, nextFunctor,
                   early>>

\* ... and the test of callingPendingFunctors_ that decides on wakeup().
FunctorWakeup ==
    /\ pc = "queued"
    /\ IF callingPendingFunctors THEN Wakeup ELSE UNCHANGED wakeupFd
    /\ pc' = "run"
    /\ UNCHANGED <<loopState, quit, pendingFunctors, tpc, nextFunctor, early>>

\* A functor calls quit().
FunctorQuits ==
    /\ pc = "run"
    /\ ran # <<>>
    /\ quit' = TRUE
    /\ UNCHANGED <<loopState, pendingFunctors, wakeupFd, pc, tpc, nextFunctor,
                   early>>

\* Broken variant: leaves the batch as soon as quit_ is set.
EndFunctorsOnQuit ==
    /\ pc = "run"
    /\ functors = <<>> \/ quit
    /\ callingPendingFunctors' = FALSE
    /\ pc' = "while"
    /\ UNCHANGED <<looping, quit, pendingFunctors, functors, wakeupFd, active,
                   tpc, nextFunctor, early, ran>>

\* The end of doPendingFunctors().
EndFunctors ==
    /\ pc = "run"
    /\ functors = <<>>
    /\ callingPendingFunctors' = FALSE
    /\ pc' = "while"
    /\ UNCHANGED <<looping, quit, pendingFunctors, functors, wakeupFd, active,
                   tpc, nextFunctor, early, ran>>

-----------------------------------------------------------------------------
Handle == HandleRead \/ BeginFunctors \/ SwapFunctors \/ RunFunctor
            \/ FunctorWakeup \/ EndFunctors

Next ==
    \/ QueueBeforeLoop \/ Loop \/ WhileNotQuit \/ PollWakeup \/ PollOther
    \/ Handle
    \/ HandlerQueues \/ HandlerQuits \/ FunctorQueues \/ FunctorQuits
    \/ \E t \in Threads : QueueInLoop(t) \/ Quit(t) \/ ThreadWakeup(t)

Spec == Init /\ [][Next]_vars

\* The loop thread and the threads inside queueInLoop() or quit() are
\* scheduled.  Nothing is assumed of PollOther: no other channel need ever
\* become ready and the ten second timeout of the poll is not relied on.
Fairness ==
    /\ WF_vars(Loop) /\ WF_vars(WhileNotQuit) /\ WF_vars(PollWakeup)
    /\ WF_vars(Handle)
    /\ \A t \in Threads : WF_vars(ThreadWakeup(t))

FairSpec == Spec /\ Fairness

-----------------------------------------------------------------------------
TypeOK ==
    /\ looping \in BOOLEAN
    /\ quit \in BOOLEAN
    /\ callingPendingFunctors \in BOOLEAN
    /\ pendingFunctors \in Seq(Functors)
    /\ functors \in Seq(Functors)
    /\ wakeupFd \in Nat
    /\ active \in BOOLEAN
    /\ pc \in {"created", "while", "poll", "events", "swap", "run", "queued",
               "returned"}
    /\ tpc \in [Threads -> {"idle", "wakeup"}]
    /\ nextFunctor \in 1 .. MaxFunctors + 1
    /\ early \subseteq Functors
    /\ ran \in Seq(Functors)

\* Someone between the push of queueInLoop() and its wakeup().
Waking == \E t \in Threads : tpc[t] = "wakeup"

\* Queued by a thread that has to wake the loop up.
Late(f) == f \notin early

\* No lost wakeup (queueInLoop(), EventLoop.cc:160-171): the loop thread
\* never sleeps in poll() on a functor that another thread or another functor
\* queued unless the eventfd is readable or its writer is about to write it.
NoLostWakeup ==
    pc \in {"while", "poll"} =>
        \A i \in 1 .. Len(pendingFunctors) :
            Late(pendingFunctors[i]) => wakeupFd > 0 \/ Waking

\* loop() returns only for a quit(), and with no functor of the batch it was
\* running left behind: what a return abandons is in pendingFunctors_ only.
ReturnAfterBatch == pc = "returned" => quit /\ ~looping /\ functors = <<>>

\* Functors are run once each and in the order in which they were queued.
FunctorQueueSpec ==
    INSTANCE FunctorQueue WITH queue <- functors \o pendingFunctors
RunsInOrder == FunctorQueueSpec!Spec

\* A functor that had to wake the loop up is run, or the loop is quit, even
\* if nothing else ever happens on the loop's descriptors.
LateFunctorsRun ==
    \A f \in Functors :
        (\E i \in 1 .. Len(pendingFunctors) : pendingFunctors[i] = f /\ Late(f))
            ~> ((\E i \in 1 .. Len(ran) : ran[i] = f) \/ pc = "returned")

\* quit() from any thread, once loop() has started, ends loop().
QuitReturns == (quit /\ pc # "created") ~> (pc = "returned")

\* The loop answers: a functor that had to wake it up is run, and quit() ends it.
LoopAnswers == LateFunctorsRun /\ QuitReturns
=============================================================================
