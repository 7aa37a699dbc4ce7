------------------------------ MODULE WinTimers ------------------------------
(***************************************************************************)
(* The timers of the Windows loop: a binary heap of Timer pointers ordered   *)
(* by expiration, in which each timer keeps its own position (min_heap_idx),  *)
(* and the TimerQueue that runs a timer's callback before it pops it.  All    *)
(* of it happens on the loop thread; a callback may add and cancel timers.    *)
(***************************************************************************)
EXTENDS Integers, Sequences, FiniteSets

CONSTANTS
    WinTimerIds,       \* the timers the program makes: 1, 2, ...
    Repeating,         \* those with an interval
    WinInterval,
    Expirations,       \* the times timers are set for
    LastTick           \* bound on time

VARIABLES
    ticks,             \* Timestamp::now()
    heap,              \* event[0 .. size - 1], as a sequence
    idx,               \* min_heap_idx; Unset before the first push
    expiration,
    armed,             \* ghost: added and neither cancelled nor run for the last time
    running,           \* the timer whose callback runs, or NoTimer
    processed,         \* expiredProcess() was done for this tick
    misuse             \* ghost: calls after which the heap and `armed` may differ

winVars == <<ticks, heap, idx, expiration, armed, running, processed, misuse>>

NoTimer == 0
Unset == -2
Size == Len(heap)
Event(h, i) == h[i + 1]

GET_RIGHT_CHILD(i) == (i + 1) * 2
GET_PARENT(i) == (i - 1) \div 2
min_heap_elem_greater(e, t, u) == e[t] > e[u]

(* event[i] = t and t->min_heap_idx = i, on a pair of array and positions. *)
Place(s, i, t) ==
    [event |-> [s.event EXCEPT ![i + 1] = t], idx |-> [s.idx EXCEPT ![t] = i]]

RECURSIVE min_heap_shift_up_(_, _, _, _)
min_heap_shift_up_(s, e, hole, t) ==
    IF hole > 0 /\ min_heap_elem_greater(e, Event(s.event, GET_PARENT(hole)), t)
    THEN min_heap_shift_up_(Place(s, hole, Event(s.event, GET_PARENT(hole))), e,
                            GET_PARENT(hole), t)
    ELSE Place(s, hole, t)

(* `size` bounds the children; the array is longer by the element taken out. *)
RECURSIVE min_heap_shift_down_(_, _, _, _, _)
min_heap_shift_down_(s, e, size, hole, t) ==
    LET right == GET_RIGHT_CHILD(hole)
        left  == right = size
                   \/ min_heap_elem_greater(e, Event(s.event, right), Event(s.event, right - 1))
        child == IF left THEN right - 1 ELSE right
    IN  IF right <= size /\ min_heap_elem_greater(e, t, Event(s.event, child))
        THEN min_heap_shift_down_(Place(s, hole, Event(s.event, child)), e, size, child, t)
        ELSE Place(s, hole, t)

Heap == [event |-> heap, idx |-> idx]
Cut(s, size) == [s EXCEPT !.event = SubSeq(s.event, 1, size)]

min_heap_push(s, e, t) ==
    min_heap_shift_up_([s EXCEPT !.event = Append(s.event, t)], e, Len(s.event), t)

min_heap_pop(s, e) ==
    IF s.event = << >> THEN s
    ELSE LET size == Len(s.event) - 1
         IN  Cut(min_heap_shift_down_(s, e, size, 0, Event(s.event, size)), size)

\* Broken variant: the last timer is only ever shifted down.
min_heap_erase_down(s, e, t) ==
    LET size == Len(s.event) - 1
        at   == s.idx[t]
    IN  IF at = -1 THEN s
        ELSE [Cut(min_heap_shift_down_(s, e, size, at, Event(s.event, size)), size)
                 EXCEPT !.idx[t] = -1]

min_heap_erase(s, e, t) ==
    LET size == Len(s.event) - 1
        last == Event(s.event, size)
        at   == s.idx[t]
        up   == at > 0 /\ min_heap_elem_greater(e, Event(s.event, GET_PARENT(at)), last)
        shifted == IF up THEN min_heap_shift_up_(s, e, at, last)
                   ELSE min_heap_shift_down_(s, e, size, at, last)
    IN  IF at = -1 THEN s
        ELSE [Cut(shifted, size) EXCEPT !.idx[t] = -1]

WinBecome(s) == heap' = s.event /\ idx' = s.idx

WinInit ==
    /\ ticks = 0 /\ heap = << >> /\ idx = [t \in WinTimerIds |-> Unset]
    /\ expiration = [t \in WinTimerIds |-> 0]
    /\ armed = {} /\ running = NoTimer /\ processed = TRUE /\ misuse = {}

(* Once the heap and the timers disagree a later call may leave the array. *)
WinGoing == misuse = {}

(* Timers are numbered as they are made. *)
NextTimer == 1 + Cardinality({u \in WinTimerIds : idx[u] # Unset})

(* addTimerInLoop.  From a callback, a timer that is due before the running one   *)
(* takes its place at the top.                                                     *)
addTimerInLoop ==
    /\ WinGoing
    /\ \E t \in WinTimerIds, when \in Expirations :
        /\ t = NextTimer
        /\ expiration' = [expiration EXCEPT ![t] = when]
        /\ WinBecome(min_heap_push(Heap, expiration', t))
        /\ armed' = armed \union {t}
        /\ misuse' = {m \in {"overtakes"} : running # NoTimer /\ when < expiration[running]}
    /\ UNCHANGED <<ticks, running, processed>>

(* cancelInLoop, of a timer that is armed, is cancelled already, runs, or has run *)
(* for the last time: min_heap_pop() left the last two a position.                *)
cancelInLoop ==
    /\ WinGoing
    /\ \E t \in WinTimerIds :
        /\ idx[t] # Unset
        /\ WinBecome(IF heap = << >> THEN Heap ELSE min_heap_erase(Heap, expiration, t))
        /\ armed' = armed \ {t}
        /\ misuse' = {m \in {"cancelsItself"} : t = running}
              \union {m \in {"cancelsExpired"} : t \notin armed /\ idx[t] # -1}
    /\ UNCHANGED <<ticks, expiration, running, processed>>

(* expiredProcess: run the callback of the top timer, *)
RunTop ==
    /\ WinGoing /\ ~processed /\ running = NoTimer /\ heap # << >>
    /\ expiration[Event(heap, 0)] <= ticks
    /\ running' = Event(heap, 0)
    /\ UNCHANGED <<ticks, heap, idx, expiration, armed, processed, misuse>>

\* Broken variant: a repeating timer is not pushed again.
PopTopOnly ==
    /\ running # NoTimer
    /\ WinBecome(min_heap_pop(Heap, expiration))
    /\ armed' = IF running \in Repeating THEN armed ELSE armed \ {running}
    /\ running' = NoTimer
    /\ UNCHANGED <<ticks, expiration, processed, misuse>>

(* then pop the top, whatever the callback did, and push it again if it repeats. *)
PopTop ==
    /\ running # NoTimer
    /\ LET t      == running
           popped == min_heap_pop(Heap, expiration)
           again  == t \in Repeating
       IN  /\ expiration' = IF again THEN [expiration EXCEPT ![t] = ticks + WinInterval]
                            ELSE expiration
           /\ WinBecome(IF again THEN min_heap_push(popped, expiration', t) ELSE popped)
           /\ armed' = IF again THEN armed ELSE armed \ {t}
    /\ running' = NoTimer
    /\ UNCHANGED <<ticks, processed, misuse>>

\* Broken variant: stops at a timer that is due right now.
ProcessEndsEarly ==
    /\ WinGoing /\ ~processed /\ running = NoTimer
    /\ heap # << >> => expiration[Event(heap, 0)] >= ticks
    /\ processed' = TRUE
    /\ UNCHANGED <<ticks, heap, idx, expiration, armed, running, misuse>>

ProcessEnds ==
    /\ WinGoing /\ ~processed /\ running = NoTimer
    /\ heap # << >> => expiration[Event(heap, 0)] > ticks
    /\ processed' = TRUE
    /\ UNCHANGED <<ticks, heap, idx, expiration, armed, running, misuse>>

(* poll() returns later. *)
WinTick ==
    /\ WinGoing /\ processed /\ ticks < LastTick
    /\ ticks' = ticks + 1
    /\ processed' = FALSE
    /\ UNCHANGED <<heap, idx, expiration, armed, running, misuse>>

WinNext == addTimerInLoop \/ cancelInLoop \/ RunTop \/ PopTop \/ ProcessEnds \/ WinTick

-----------------------------------------------------------------------------
(* Every push, pop and erase leaves a heap in which each timer knows its place.  *)
HeapIsOrdered ==
    misuse = {} =>
        \A i \in 0..Size - 1 :
            /\ idx[Event(heap, i)] = i
            /\ i > 0 => expiration[Event(heap, GET_PARENT(i))] <= expiration[Event(heap, i)]

(* The heap holds exactly the timers that are armed, so that none is run after it  *)
(* was cancelled and none is forgotten, unless a callback cancels its own timer or  *)
(* adds an earlier one, or a timer that has run for the last time is cancelled.     *)
HeapIsArmed == misuse = {} => {heap[i] : i \in DOMAIN heap} = armed

(* After expiredProcess() nothing that is due is left waiting.                      *)
DueTimersRan ==
    [][processed' /\ ~processed => \A t \in armed' : expiration'[t] > ticks]_winVars

(* The heap is one, holds the armed timers, and every due timer is run.             *)
WinTimersRun == [](HeapIsOrdered /\ HeapIsArmed) /\ DueTimersRan
=============================================================================
