--------------------------- MODULE EventLoopThread ---------------------------
(***************************************************************************)
(* EventLoopThread, and the EventLoopThreadPool that starts several of     *)
(* them in turn and destroys them in turn: the pointer loop_ that a thread *)
(* publishes and clears, the condition its starter waits on, quit() and    *)
(* join().  The loop itself is EventLoop.tla; here it runs until quit_.    *)
(***************************************************************************)
EXTENDS Integers

CONSTANT NumThreads     \* numThreads_

ASSUME ThreadAssumption == NumThreads \in Nat \ {0}

Threads == 1 .. NumThreads

VARIABLES
    thread,    \* where each thread is in threadFunc()
    loop_,     \* loop_ is not NULL
    quit,      \* quit_ of each loop; "cleared": FALSE after a quit() that loop() undid
    owner,     \* where the starting and destroying thread is, <<step, thread>>
    loops      \* loops_: the pointers that startLoop() returned

threadVars == <<thread, loop_, quit, owner, loops>>

ThreadsInit ==
    /\ thread = [t \in Threads |-> "none"]
    /\ loop_ = [t \in Threads |-> FALSE]
    /\ quit = [t \in Threads |-> "no"]
    /\ owner = <<"start", 1>>
    /\ loops = {}

-----------------------------------------------------------------------------
(* threadFunc() *)

\* The loop and its init callback, and the lock in which loop_ is published.
Publish(t) ==
    /\ thread[t] = "init"
    /\ thread' = [thread EXCEPT ![t] = "published"]
    /\ loop_' = [loop_ EXCEPT ![t] = TRUE]
    /\ UNCHANGED <<quit, owner, loops>>

\* loop() begins: it clears quit_.
Loop(t) ==
    /\ thread[t] = "published"
    /\ thread' = [thread EXCEPT ![t] = "looping"]
    /\ quit' = [quit EXCEPT ![t] = IF @ = "yes" THEN "cleared" ELSE "no"]
    /\ UNCHANGED <<loop_, owner, loops>>

\* Code that runs in the loop calls quit(); it got the pointer from loops_.
SelfQuit(t) ==
    /\ t \in loops /\ thread[t] = "looping"
    /\ quit' = [quit EXCEPT ![t] = "yes"]
    /\ UNCHANGED <<thread, loop_, owner, loops>>

\* while ( !quit_ ) ends.
LoopReturns(t) ==
    /\ thread[t] = "looping" /\ quit[t] = "yes"
    /\ thread' = [thread EXCEPT ![t] = "returned"]
    /\ UNCHANGED <<loop_, quit, owner, loops>>

\* loop_ is cleared and the loop, a local variable, is destroyed.
Exit(t) ==
    /\ thread[t] = "returned"
    /\ thread' = [thread EXCEPT ![t] = "exited"]
    /\ loop_' = [loop_ EXCEPT ![t] = FALSE]
    /\ UNCHANGED <<quit, owner, loops>>

-----------------------------------------------------------------------------
(* The owner: EventLoopThreadPool::start() and the destructors *)

\* thread_.start() in startLoop()
StartLoop ==
    LET t == owner[2] IN
    /\ owner[1] = "start"
    /\ thread' = [thread EXCEPT ![t] = "init"]
    /\ owner' = <<"wait", t>>
    /\ UNCHANGED <<loop_, quit, loops>>

\* Broken variant: does not test loop_ under the lock.
StartReturnsUnchecked ==
    LET t == owner[2] IN
    /\ owner[1] = "wait"
    /\ loops' = loops \cup {t}
    /\ owner' = IF t < NumThreads THEN <<"start", t + 1>> ELSE <<"run", 0>>
    /\ UNCHANGED <<thread, loop_, quit>>

\* while ( loop_ == NULL ) cond_.wait(), and startLoop() returns.
StartReturns ==
    LET t == owner[2] IN
    /\ owner[1] = "wait" /\ loop_[t]
    /\ loops' = loops \cup {t}
    /\ owner' = IF t < NumThreads THEN <<"start", t + 1>> ELSE <<"run", 0>>
    /\ UNCHANGED <<thread, loop_, quit>>

\* The pool is destroyed: ~EventLoopThread() of each thread in turn.
DestroyPool ==
    /\ owner[1] = "run"
    /\ owner' = <<"destroy", 1>>
    /\ UNCHANGED <<thread, loop_, quit, loops>>

Destroyed(t) == IF t < NumThreads THEN <<"destroy", t + 1>> ELSE <<"done", 0>>

\* if ( loop_ != NULL ): read without the lock.
TestLoop ==
    LET t == owner[2] IN
    /\ owner[1] = "destroy"
    /\ owner' = IF loop_[t] THEN <<"quit", t>> ELSE Destroyed(t)
    /\ UNCHANGED <<thread, loop_, quit, loops>>

\* Broken variant: does not set quit_.
QuitNot ==
    LET t == owner[2] IN
    /\ owner[1] = "quit"
    /\ owner' = <<"join", t>>
    /\ UNCHANGED <<thread, loop_, quit, loops>>

\* loop_->quit(): of NULL or of a destroyed loop if the thread exited since the test.
Quit ==
    LET t == owner[2] IN
    /\ owner[1] = "quit"
    /\ \/ /\ thread[t] # "exited"
          /\ owner' = <<"join", t>>
          /\ quit' = [quit EXCEPT ![t] = "yes"]
       \/ /\ thread[t] = "exited"
          /\ owner' = <<"crashed", t>>
          /\ UNCHANGED quit
    /\ UNCHANGED <<thread, loop_, loops>>

\* Broken variant: does not wait for the thread.
JoinNot ==
    /\ owner[1] = "join"
    /\ owner' = Destroyed(owner[2])
    /\ UNCHANGED <<thread, loop_, quit, loops>>

\* thread_.join()
Join ==
    /\ owner[1] = "join" /\ thread[owner[2]] = "exited"
    /\ owner' = Destroyed(owner[2])
    /\ UNCHANGED <<thread, loop_, quit, loops>>

OwnerStep == StartLoop \/ StartReturns \/ DestroyPool \/ TestLoop \/ Quit \/ Join
ThreadStep(t) == Publish(t) \/ Loop(t) \/ LoopReturns(t) \/ Exit(t)

\* All is done: every thread has ended.
Finished == owner[1] = "done" /\ \A t \in Threads : thread[t] = "exited"

ThreadsNext ==
    \/ OwnerStep
    \/ owner[1] # "crashed" /\ \E t \in Threads : ThreadStep(t) \/ SelfQuit(t)
    \/ Finished /\ UNCHANGED threadVars

ThreadsSpec == ThreadsInit /\ [][ThreadsNext]_threadVars

\* The threads are scheduled; nobody has to destroy the pool.
ThreadsFairSpec ==
    /\ ThreadsSpec
    /\ WF_threadVars(StartLoop \/ StartReturns \/ TestLoop \/ Quit \/ Join)
    /\ \A t \in Threads : WF_threadVars(ThreadStep(t))

-----------------------------------------------------------------------------
\* startLoop() returned each pointer of loops_ after its loop was constructed
\* (the while loop and the lock of startLoop()).
LoopsAreConstructed == \A t \in loops : thread[t] \notin {"none", "init"}

\* When the destructors have returned, every thread has left its loop and
\* cleared its loop_: none uses a member of an EventLoopThread that is gone,
\* though join() is skipped where loop_ was NULL.
DoneIsExited == owner[1] = "done" => \A t \in Threads : thread[t] = "exited"

\* The destructors call quit() of a loop that is gone only where the thread left
\* it by itself, by a quit() of somebody else, between the test of loop_ and the
\* call ("still a tiny chance to call destructed object, if threadFunc exits just
\* now", EventLoopThread.cc:29): no loop ends without a quit().
CrashNeedsSelfQuit == owner[1] = "crashed" => quit[owner[2]] = "yes"

\* The destruction of the pool ends: quit() ends each loop, "Quits loop."
\* (EventLoop.h:54), and join() returns.  Two windows are left: the loop that has
\* gone when quit() is called, and quit() before loop(), which clears quit_
\* (EventLoop.cc:108): then join() waits for ever.
DestroyReturns ==
    owner[1] = "destroy" ~>
        \/ owner[1] \in {"done", "crashed"}
        \/ owner[1] = "join" /\ quit[owner[2]] = "cleared"

\* Loops are given out once constructed, no thread outlives its object, and a loop
\* that is gone is called only after it was quit by somebody else.
ThreadsAreSound == LoopsAreConstructed /\ DoneIsExited /\ CrashNeedsSelfQuit
=============================================================================
