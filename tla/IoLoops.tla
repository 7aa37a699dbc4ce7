------------------------------ MODULE IoLoops ------------------------------
(***************************************************************************)
(* The event loops a UdpServer runs on, at the grain of one handler or one *)
(* functor per step: loop 0 is the server's own loop and loops 1 .. N are  *)
(* the threads of its EventLoopThreadPool.  EventLoop.tla models what lies *)
(* below: that a queued functor is run, in order and without a lost wakeup.*)
(* A failed assert ends the process: it is recorded in failed and disables *)
(* every action.                                                           *)
(***************************************************************************)
EXTENDS Naturals, Sequences

CONSTANT NumThreads   \* EventLoopThreadPool::numThreads_

ASSUME NumThreadsAssumption == NumThreads \in Nat

Base == 0
Loops == 0 .. NumThreads

VARIABLES
    phase,     \* where the loop thread is in EventLoop::loop()
    ready,     \* what this round's poll may have reported and is not handled
    pending,   \* pendingFunctors_
    batch,     \* the functors doPendingFunctors() swapped out; it holds what
               \* they are bound to until the whole batch has run
    pos,       \* index in batch of the next functor to run
    session,   \* the KcpSession call, or channel, the loop thread is inside
    nextLoop,  \* EventLoopThreadPool::next_, counted from 1
    failed     \* the assert that ended the process, or "no"

loopVars == <<phase, ready, pending, batch, pos, session, nextLoop, failed>>

NoSession == [fn |-> "none", conn |-> 0]

LoopsInit ==
    /\ phase = [l \in Loops |-> "poll"]
    /\ ready = [l \in Loops |-> {}]
    /\ pending = [l \in Loops |-> <<>>]
    /\ batch = [l \in Loops |-> <<>>]
    /\ pos = [l \in Loops |-> 1]
    /\ session = [l \in Loops |-> NoSession]
    /\ nextLoop = 1
    /\ failed = "no"

\* A functor: which member function, bound to which connection or peer.
Functor(op, arg) == [op |-> op, arg |-> arg]

\* EventLoopThreadPool::getNextLoop(): round robin, the base loop if no threads.
GetNextLoop == IF NumThreads = 0 THEN Base ELSE nextLoop
AdvanceLoop == IF nextLoop >= NumThreads THEN 1 ELSE nextLoop + 1

\* What a handled event leaves of the round: poll fills activeChannels_ in
\* the order of pollfds_, the timerfd first and the acceptor before the
\* connections, whose own order is arbitrary.
Rank(e) == CASE e.op \in {"update", "retry", "erase"} -> 1
             [] e.op = "accept" -> 2
             [] OTHER -> 3
After(l, e) == {r \in ready[l] \ {e} : Rank(r) >= Rank(e)}

Handling(l) == failed = "no" /\ phase[l] = "events" /\ session[l] = NoSession
Takes(l, e) == Handling(l) /\ e \in ready[l] /\ ready' = [ready EXCEPT ![l] = After(l, e)]

Inside(l, fn) == failed = "no" /\ session[l].fn \in fn
Enter(l, fn, c) == session' = [session EXCEPT ![l] = [fn |-> fn, conn |-> c]]
Leave(l) == session' = [session EXCEPT ![l] = NoSession]

\* poll() returns with what is ready, or because queueInLoop() woke it up.
Poll(l, events) ==
    /\ failed = "no"
    /\ phase[l] = "poll"
    /\ events # {} \/ pending[l] # <<>>
    /\ phase' = [phase EXCEPT ![l] = "events"]
    /\ ready' = [ready EXCEPT ![l] = events]
    /\ UNCHANGED <<pending, batch, pos, session, nextLoop, failed>>

\* The remaining channels were not active: doPendingFunctors() swaps.
SwapFunctors(l) ==
    /\ Handling(l)
    /\ phase' = [phase EXCEPT ![l] = "functors"]
    /\ ready' = [ready EXCEPT ![l] = {}]
    /\ batch' = [batch EXCEPT ![l] = pending[l]]
    /\ pending' = [pending EXCEPT ![l] = <<>>]
    /\ pos' = [pos EXCEPT ![l] = 1]
    /\ UNCHANGED <<session, nextLoop, failed>>

\* The next functor of the batch is a call of op; arg is what it is bound to.
Runs(l, op) ==
    /\ failed = "no"
    /\ phase[l] = "functors"
    /\ session[l] = NoSession
    /\ pos[l] <= Len(batch[l])
    /\ batch[l][pos[l]].op = op
    /\ pos' = [pos EXCEPT ![l] = pos[l] + 1]
    /\ UNCHANGED <<phase, ready, batch, nextLoop>>
Arg(l) == batch[l][pos[l]].arg

\* The batch has run: its functors, and their bound arguments, are destroyed.
EndFunctors(l) ==
    /\ failed = "no"
    /\ phase[l] = "functors"
    /\ session[l] = NoSession
    /\ pos[l] > Len(batch[l])
    /\ phase' = [phase EXCEPT ![l] = "poll"]
    /\ batch' = [batch EXCEPT ![l] = <<>>]
    /\ pos' = [pos EXCEPT ![l] = 1]
    /\ UNCHANGED <<ready, session, nextLoop>>

\* Entries of the loops' queues, run ones included: they still hold their
\* arguments.
Queued(queues, op, arg) ==
    \E l \in Loops : \E i \in 1 .. Len(queues[l]) : queues[l][i] = Functor(op, arg)

\* How often a functor is in one queue.
Times(q, f) == Len(SelectSeq(q, LAMBDA g : g = f))
=============================================================================
