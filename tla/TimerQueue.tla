----------------------------- MODULE TimerQueue -----------------------------
(***************************************************************************)
(* muduo's TimerQueue, on its loop thread: the two sets that hold the same *)
(* timers, the timerfd that has to be armed for the earliest of them, and  *)
(* the callbacks, which may add and cancel timers while a batch of expired *)
(* ones is being run.  A unit of time is longer than the 100 us that       *)
(* howMuchTimeFromNow() waits at least: a timer that is due when the       *)
(* timerfd is set makes it expire within the current unit.                 *)
(***************************************************************************)
EXTENDS Integers, FiniteSets

CONSTANTS
    Timers,      \* the timers that may be created, in order of address
    MaxTime,     \* bound on the clock, and on the expirations asked for
    Interval     \* interval_ of the repeating timers

ASSUME TimerAssumption ==
    /\ Timers \subseteq Nat
    /\ MaxTime \in Nat
    /\ Interval \in Nat \ {0}

VARIABLES
    now,            \* Timestamp::now()
    expiration,     \* expiration_ of each timer
    repeat,         \* repeat_ of each timer
    timers,         \* timers_: pairs of an expiration and a timer
    activeTimers,   \* activeTimers_
    calling,        \* callingExpiredTimers_
    canceling,      \* cancelingTimers_
    expired,        \* the timers handleRead() got from getExpired()
    toRun,          \* those of them whose callback has not been run
    readTime,       \* the now of handleRead()
    armed,          \* when the timerfd will expire, 0 if it is disarmed
    readable,       \* the timerfd has expired and was not read
    deleted,        \* timers that were deleted
    cancelled       \* timers for which cancelInLoop() has returned

vars == <<now, expiration, repeat, timers, activeTimers, calling, canceling,
          expired, toRun, readTime, armed, readable, deleted, cancelled>>

Init ==
    /\ now = 1
    /\ expiration = [t \in Timers |-> 0]
    /\ repeat = [t \in Timers |-> FALSE]
    /\ timers = {} /\ activeTimers = {}
    /\ calling = FALSE /\ canceling = {}
    /\ expired = {} /\ toRun = {} /\ readTime = 0
    /\ armed = 0 /\ readable = FALSE
    /\ deleted = {} /\ cancelled = {}

Created(t) == expiration[t] # 0

\* The loop runs other code than handleRead(), or a callback that it called.
InLoopCode == calling => toRun # expired

Later(m, n) == IF m < n THEN n ELSE m
Before(when, list) == \A p \in list : when < p[1]

\* resetTimerfd(): sets the time and forgets an expiration not yet read.
ResetTimerfd(when) ==
    /\ armed' = Later(when, now)
    /\ readable' = FALSE

\* The clock.
Tick ==
    /\ now < MaxTime
    /\ now' = now + 1
    /\ UNCHANGED <<expiration, repeat, timers, activeTimers, calling, canceling,
                   expired, toRun, readTime, armed, readable, deleted, cancelled>>

\* The timerfd expires, once, some time after the time it was set for.
TimerfdExpires ==
    /\ armed # 0 /\ armed <= now
    /\ armed' = 0
    /\ readable' = TRUE
    /\ UNCHANGED <<now, expiration, repeat, timers, activeTimers, calling,
                   canceling, expired, toRun, readTime, deleted, cancelled>>

\* Broken variant: the timerfd is set only when the queue was empty.
AddTimerNoReset(t, when, rep) ==
    /\ InLoopCode /\ ~Created(t)
    /\ expiration' = [expiration EXCEPT ![t] = when]
    /\ repeat' = [repeat EXCEPT ![t] = rep]
    /\ timers' = timers \cup {<<when, t>>}
    /\ activeTimers' = activeTimers \cup {t}
    /\ IF timers = {} THEN ResetTimerfd(when) ELSE UNCHANGED <<armed, readable>>
    /\ UNCHANGED <<now, calling, canceling, expired, toRun, readTime, deleted,
                   cancelled>>

\* addTimerInLoop() of a new timer, and insert().
AddTimerInLoop(t, when, rep) ==
    /\ InLoopCode /\ ~Created(t)
    /\ expiration' = [expiration EXCEPT ![t] = when]
    /\ repeat' = [repeat EXCEPT ![t] = rep]
    /\ timers' = timers \cup {<<when, t>>}
    /\ activeTimers' = activeTimers \cup {t}
    /\ IF Before(when, timers)
       THEN ResetTimerfd(when)
       ELSE UNCHANGED <<armed, readable>>
    /\ UNCHANGED <<now, calling, canceling, expired, toRun, readTime, deleted,
                   cancelled>>

\* Broken variant: deletes the timer whether or not it is in activeTimers_.
CancelDeletes(t) ==
    /\ InLoopCode /\ Created(t) /\ t \notin cancelled
    /\ cancelled' = cancelled \cup {t}
    /\ timers' = timers \ {<<expiration[t], t>>}
    /\ activeTimers' = activeTimers \ {t}
    /\ deleted' = deleted \cup {t}
    /\ UNCHANGED <<now, expiration, repeat, calling, canceling, expired, toRun,
                   readTime, armed, readable>>

\* Broken variant: leaves the entry in timers_.
CancelHalf(t) ==
    /\ InLoopCode /\ t \in activeTimers
    /\ cancelled' = cancelled \cup {t}
    /\ activeTimers' = activeTimers \ {t}
    /\ deleted' = deleted \cup {t}
    /\ UNCHANGED <<now, expiration, repeat, timers, calling, canceling, expired,
                   toRun, readTime, armed, readable>>

\* Broken variant: does not remember the cancel of a timer that is running.
CancelForgets(t) ==
    /\ InLoopCode /\ Created(t) /\ t \notin cancelled
    /\ cancelled' = cancelled \cup {t}
    /\ timers' = timers \ {<<expiration[t], t>>}
    /\ activeTimers' = activeTimers \ {t}
    /\ deleted' = deleted \cup (activeTimers \cap {t})
    /\ UNCHANGED <<now, expiration, repeat, calling, canceling, expired, toRun,
                   readTime, armed, readable>>

\* cancelInLoop(): a timer of the batch being run is only kept from starting
\* again.
CancelInLoop(t) ==
    /\ InLoopCode /\ Created(t) /\ t \notin cancelled
    /\ cancelled' = cancelled \cup {t}
    /\ \/ /\ t \in activeTimers
          /\ timers' = timers \ {<<expiration[t], t>>}
          /\ activeTimers' = activeTimers \ {t}
          /\ deleted' = deleted \cup {t}
          /\ UNCHANGED canceling
       \/ /\ t \notin activeTimers
          /\ canceling' = IF calling THEN canceling \cup {t} ELSE canceling
          /\ UNCHANGED <<timers, activeTimers, deleted>>
    /\ UNCHANGED <<now, expiration, repeat, calling, expired, toRun, readTime,
                   armed, readable>>

\* Broken variant: getExpired() leaves the expired timers in activeTimers_.
HandleReadKeeps ==
    LET due == {p \in timers : p[1] <= now} IN
    /\ readable /\ ~calling
    /\ readable' = FALSE
    /\ readTime' = now
    /\ expired' = {p[2] : p \in due}
    /\ toRun' = {p[2] : p \in due}
    /\ timers' = timers \ due
    /\ calling' = TRUE
    /\ canceling' = {}
    /\ UNCHANGED <<now, expiration, repeat, activeTimers, armed, deleted, cancelled>>

\* handleRead() up to its callbacks: reads the timerfd; getExpired().
HandleRead ==
    LET due == {p \in timers : p[1] <= now} IN
    /\ readable /\ ~calling
    /\ readable' = FALSE
    /\ readTime' = now
    /\ expired' = {p[2] : p \in due}
    /\ toRun' = {p[2] : p \in due}
    /\ timers' = timers \ due
    /\ activeTimers' = activeTimers \ {p[2] : p \in due}
    /\ calling' = TRUE
    /\ canceling' = {}
    /\ UNCHANGED <<now, expiration, repeat, armed, deleted, cancelled>>

\* it->second->run(), in the order of timers_: by expiration, then address.
Run(t) ==
    /\ calling
    /\ t \in toRun
    /\ \A u \in toRun : expiration[t] < expiration[u]
                          \/ (expiration[t] = expiration[u] /\ t <= u)
    /\ toRun' = toRun \ {t}
    /\ UNCHANGED <<now, expiration, repeat, timers, activeTimers, calling,
                   canceling, expired, readTime, armed, readable, deleted, cancelled>>

\* Broken variant: does not arm the timerfd for the timers that are left.
ResetNoArm ==
    LET again == {t \in expired : repeat[t] /\ t \notin canceling}
        entries == {<<readTime + Interval, t>> : t \in again}
    IN  /\ calling /\ toRun = {}
        /\ calling' = FALSE
        /\ expired' = {}
        /\ expiration' = [t \in Timers |-> IF t \in again THEN readTime + Interval
                                           ELSE expiration[t]]
        /\ timers' = timers \cup entries
        /\ activeTimers' = activeTimers \cup again
        /\ deleted' = deleted \cup (expired \ again)
        /\ UNCHANGED <<now, repeat, canceling, toRun, readTime, cancelled, armed,
                       readable>>

\* The end of handleRead(): reset() restarts the repeating timers that were
\* not cancelled, deletes the others and arms the timerfd for the earliest.
Reset ==
    LET again == {t \in expired : repeat[t] /\ t \notin canceling}
        entries == {<<readTime + Interval, t>> : t \in again}
    IN  /\ calling /\ toRun = {}
        /\ calling' = FALSE
        /\ expired' = {}
        /\ expiration' = [t \in Timers |-> IF t \in again THEN readTime + Interval
                                           ELSE expiration[t]]
        /\ timers' = timers \cup entries
        /\ activeTimers' = activeTimers \cup again
        /\ deleted' = deleted \cup (expired \ again)
        /\ \/ timers' = {} /\ UNCHANGED <<armed, readable>>
           \/ \E first \in timers' : /\ \A p \in timers' : first[1] <= p[1]
                                     /\ ResetTimerfd(first[1])
        /\ UNCHANGED <<now, repeat, canceling, toRun, readTime, cancelled>>

Next ==
    \/ Tick \/ TimerfdExpires \/ HandleRead \/ Reset
    \/ \E t \in Timers : \/ Run(t) \/ CancelInLoop(t)
                         \/ \E when \in 1 .. MaxTime, rep \in BOOLEAN :
                                AddTimerInLoop(t, when, rep)

Spec == Init /\ [][Next]_vars

\* Time passes and the loop thread handles what is readable.
FairSpec ==
    /\ Spec
    /\ WF_vars(Tick) /\ WF_vars(TimerfdExpires)
    /\ WF_vars(HandleRead) /\ WF_vars(Reset)
    /\ \A t \in Timers : WF_vars(Run(t))

-----------------------------------------------------------------------------
TypeOK ==
    /\ now \in Nat \ {0} /\ readTime \in Nat /\ armed \in Nat
    /\ expiration \in [Timers -> Nat]
    /\ repeat \in [Timers -> BOOLEAN]
    /\ timers \subseteq Nat \X Timers
    /\ calling \in BOOLEAN /\ readable \in BOOLEAN
    /\ activeTimers \subseteq Timers /\ canceling \subseteq Timers
    /\ expired \subseteq Timers /\ toRun \subseteq Timers
    /\ deleted \subseteq Timers /\ cancelled \subseteq Timers

\* timers_ and activeTimers_ hold the same timers, each under its current
\* expiration (the asserts on their sizes and on erase() in TimerQueue.cc).
SameTimers == timers = {<<expiration[t], t>> : t \in activeTimers}

\* No deleted timer is queued, run or restarted: a cancel() from a callback
\* never deletes a timer of the batch (TimerQueue.cc:144-162, :207-226).
NoDeletedTimer == (activeTimers \cup expired) \cap deleted = {}

\* A timer is in the queue or in the batch, not in both.
QueuedOnce == activeTimers \cap expired = {} /\ toRun \subseteq expired

\* The timerfd will wake the loop for the earliest timer: it has expired, or
\* is armed for a time that has come or is no later than that timer's.
TimerfdCovers ==
    (timers # {} /\ ~calling) =>
        readable \/ (armed # 0 /\ (armed <= now \/ \A p \in timers : armed <= p[1]))

\* Once the batch in which it was cancelled is over, a cancelled timer does
\* not come back: a repeating timer may be cancelled by its own callback.
CancelledStaysOut == ~calling => cancelled \cap activeTimers = {}

\* A timer whose time comes within the bound is run or cancelled.
TimersRun ==
    \A t \in Timers :
        (t \in activeTimers /\ expiration[t] <= MaxTime)
            ~> (t \notin activeTimers)

\* Whatever callbacks add and cancel while the expired timers are run: both
\* sets agree, no timer is queued twice, run after its deletion or queued
\* again after its cancellation.
QueueIsSound == SameTimers /\ NoDeletedTimer /\ QueuedOnce /\ CancelledStaysOut
=============================================================================
