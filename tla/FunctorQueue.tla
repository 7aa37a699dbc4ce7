---------------------------- MODULE FunctorQueue ----------------------------
(***************************************************************************)
(* What EventLoop::queueInLoop promises its callers: a first-in first-out  *)
(* queue of functors, each run once and in the order in which they were    *)
(* queued.  EventLoop.tla is shown to implement this specification.        *)
(***************************************************************************)
EXTENDS Naturals, Sequences

CONSTANT Functors  \* everything that may ever be queued

VARIABLES queue,   \* queued and not yet run, oldest first
          ran      \* already run, oldest first

vars == <<queue, ran>>

Init == queue = <<>> /\ ran = <<>>

Enqueue(f) ==
    /\ queue' = Append(queue, f)
    /\ UNCHANGED ran

Run ==
    /\ queue # <<>>
    /\ ran' = Append(ran, Head(queue))
    /\ queue' = Tail(queue)

Next == Run \/ \E f \in Functors : Enqueue(f)

Spec == Init /\ [][Next]_vars
=============================================================================
