------------------------------- MODULE WinLoop -------------------------------
(***************************************************************************)
(* The event loop of the Windows build.  It differs from the Linux one in how *)
(* it wakes up: wakeup() writes one message into a pair of sockets, of which   *)
(* handleRead() takes one per round, and there is no timer descriptor: poll()  *)
(* is given the time to the earliest timer.                                    *)
(*                                                                           *)
(* The timers are those of WinTimers.tla, here a set.  Time has the unit of    *)
(* Timestamp, of which poll() is given whole multiples.  The pair of sockets   *)
(* is taken to hold every message written: there are at most MaxPosts.         *)
(***************************************************************************)
EXTENDS Integers, Sequences, FiniteSets

CONSTANTS
    WinPosters,             \* the threads that are not the loop's
    MaxPosts,               \* bound on the calls made, by all threads
    kMicroSecondsPerMillisecond,
    defaultOuttime,         \* in milliseconds
    defaultTimeout,
    TimerTimes,             \* the expirations that timers are given
    MaxWork,                \* bound on the time from one poll() to the next
    LastInstant             \* bound on time

ASSUME WinLoopAssumption ==
    /\ {MaxPosts, defaultOuttime, defaultTimeout, MaxWork, LastInstant} \subseteq Nat
    /\ kMicroSecondsPerMillisecond \in Nat \ {0} /\ TimerTimes \subseteq Nat

VARIABLES
    instant,           \* Timestamp::now()
    wloop,             \* where the loop thread is
    wquit,             \* quit_
    wpending,          \* pendingFunctors_
    wfunctors,         \* those swapped out and not run
    wpipe,             \* messages in the pair of sockets
    wsleep,            \* poll()'s timeout, then the time at which it ends
    wreadable,         \* activeChannels_ holds the wakeup channel
    wreturn,           \* pollReturnTime_
    wtimers,           \* the timers in the heap, and since when they could run
    wposter,           \* threads between what they stored and wakeup()
    wposts,            \* calls made
    wwork              \* time used since poll() returned

winLoopVars == <<instant, wloop, wquit, wpending, wfunctors, wpipe, wsleep, wreadable,
                 wreturn, wtimers, wposter, wposts, wwork>>
clock == <<instant, wwork>>
polled == <<wsleep, wreadable, wreturn>>

Later(a, b) == IF a > b THEN a ELSE b
TimerFor(due) == [due |-> due, since |-> Later(due, instant)]
ApplicationFunctor == -1    \* any other functor adds the timer with its expiration

WinLoopInit ==
    /\ instant = 0 /\ wloop = "created" /\ wquit = FALSE
    /\ wpending = << >> /\ wfunctors = << >> /\ wpipe = 0
    /\ wsleep = 0 /\ wreadable = FALSE /\ wreturn = 0
    /\ wtimers = {} /\ wposter = {} /\ wposts = 0 /\ wwork = 0

-----------------------------------------------------------------------------
(* loop(), which forgets a quit() that came before it. *)
WinLoopStart ==
    /\ wloop = "created"
    /\ wloop' = "while" /\ wquit' = FALSE
    /\ UNCHANGED <<clock, polled, wpending, wfunctors, wpipe, wtimers, wposter, wposts>>

(* The first of the heap; milliseconds are rounded down. *)
Earliest == CHOOSE t \in wtimers : \A u \in wtimers : t.due <= u.due
timeDifferenceMs(high, low) == (high - low) \div kMicroSecondsPerMillisecond

\* Broken variant: a timer that is due already counts as none.
earliestExpiredTimeDue ==
    IF wtimers = {} \/ Earliest.due <= instant THEN defaultTimeout
    ELSE timeDifferenceMs(Earliest.due, instant)

earliestExpiredTime ==
    IF wtimers = {} THEN defaultTimeout
    ELSE IF Earliest.due > instant THEN timeDifferenceMs(Earliest.due, instant)
    ELSE defaultOuttime

(* while (!quit_), and the argument of poll(). *)
WhileNotQuitWin ==
    /\ wloop = "while"
    /\ wloop' = IF wquit THEN "returned" ELSE "timeout"
    /\ wsleep' = IF wquit THEN 0 ELSE earliestExpiredTime
    /\ UNCHANGED <<clock, wquit, wpending, wfunctors, wpipe, wreadable, wreturn, wtimers,
                   wposter, wposts>>

(* poll() begins to wait, *)
PollBegins ==
    /\ wloop = "timeout"
    /\ wloop' = "poll"
    /\ wsleep' = instant + wsleep * kMicroSecondsPerMillisecond
    /\ UNCHANGED <<clock, wquit, wpending, wfunctors, wpipe, wreadable, wreturn, wtimers,
                   wposter, wposts>>

(* and returns because of the wakeup channel or its timeout. *)
PollReturns ==
    /\ wloop = "poll"
    /\ wpipe > 0 \/ instant >= wsleep
    /\ wloop' = "timers" /\ wreturn' = instant /\ wreadable' = (wpipe > 0)
    /\ wsleep' = 0 /\ wwork' = 0
    /\ UNCHANGED <<instant, wquit, wpending, wfunctors, wpipe, wtimers, wposter, wposts>>

(* Another channel is active. *)
PollReturnsOther ==
    /\ wloop = "poll" /\ wpipe = 0 /\ instant < wsleep
    /\ wloop' = "timers" /\ wreturn' = instant
    /\ wsleep' = 0 /\ wwork' = 0
    /\ UNCHANGED <<instant, wquit, wpending, wfunctors, wpipe, wreadable, wtimers,
                   wposter, wposts>>

-----------------------------------------------------------------------------
\* Broken variant: only a thread that is not the loop's wakes the loop up.
WinQueueQuiet(f) ==
    /\ wpending' = Append(wpending, f)
    /\ wpipe' = wpipe

(* queueInLoop() on the loop thread: wakeup() only while functors are called. *)
WinQueue(f) ==
    /\ wpending' = Append(wpending, f)
    /\ wpipe' = IF wloop = "functors" THEN wpipe + 1 ELSE wpipe

(* What the application calls from a functor: nothing, queueInLoop(), runAt(),   *)
(* which adds the timer in place, or quit(), which need not wake the loop up.    *)
Callback ==
    \/ UNCHANGED <<wpending, wpipe, wposts, wtimers, wquit>>
    \/ /\ wposts < MaxPosts /\ wposts' = wposts + 1
       /\ \/ WinQueue(ApplicationFunctor) /\ UNCHANGED <<wtimers, wquit>>
          \/ /\ \E due \in TimerTimes : wtimers' = wtimers \union {TimerFor(due)}
             /\ UNCHANGED <<wpending, wpipe, wquit>>
          \/ wquit' = TRUE /\ UNCHANGED <<wpending, wpipe, wtimers>>

(* expiredProcess(): the callback of each timer that was due when poll()        *)
(* returned, earliest first; it may queue a functor.                            *)
ExpiredProcess ==
    /\ wloop = "timers"
    /\ wtimers # {} /\ Earliest.due <= wreturn
    /\ \/ wtimers' = wtimers \ {Earliest} /\ UNCHANGED <<wpending, wpipe, wposts>>
       \/ /\ wposts < MaxPosts /\ wposts' = wposts + 1
          /\ wtimers' = wtimers \ {Earliest}
          /\ WinQueue(ApplicationFunctor)
    /\ UNCHANGED <<clock, polled, wloop, wquit, wfunctors, wposter>>

ExpiredDone ==
    /\ wloop = "timers"
    /\ wtimers # {} => Earliest.due > wreturn
    /\ wloop' = "channels"
    /\ UNCHANGED <<clock, polled, wquit, wpending, wfunctors, wpipe, wtimers, wposter, wposts>>

(* The active channels: handleRead() takes one message. *)
WinHandleRead ==
    /\ wloop = "channels"
    /\ wpipe' = IF wreadable THEN wpipe - 1 ELSE wpipe
    /\ wreadable' = FALSE
    /\ wloop' = "swap"
    /\ UNCHANGED <<clock, wsleep, wreturn, wquit, wpending, wfunctors, wtimers, wposter, wposts>>

(* doPendingFunctors(): the swap under mutex_, *)
DoPendingFunctors ==
    /\ wloop = "swap"
    /\ wfunctors' = wpending /\ wpending' = << >>
    /\ wloop' = "functors"
    /\ UNCHANGED <<clock, polled, wquit, wpipe, wtimers, wposter, wposts>>

(* and each functor in turn: addTimerInLoop(), or one of the application's. *)
WinRunFunctor ==
    /\ wloop = "functors" /\ wfunctors # << >>
    /\ wfunctors' = Tail(wfunctors)
    /\ IF Head(wfunctors) # ApplicationFunctor
       THEN /\ wtimers' = wtimers \union {TimerFor(Head(wfunctors))}
            /\ UNCHANGED <<wpending, wpipe, wposts, wquit>>
       ELSE Callback
    /\ UNCHANGED <<clock, polled, wloop, wposter>>

WinFunctorsDone ==
    /\ wloop = "functors" /\ wfunctors = << >>
    /\ wloop' = "while"
    /\ UNCHANGED <<clock, polled, wquit, wpending, wfunctors, wpipe, wtimers, wposter, wposts>>

-----------------------------------------------------------------------------
(* queueInLoop() or addTimer() on another thread: the push under mutex_, then  *)
(* wakeup(); quit() stores quit_, then wakeup().                                *)
WinPush(p) ==
    /\ p \notin wposter /\ wposts < MaxPosts
    /\ \E f \in TimerTimes \union {ApplicationFunctor} : wpending' = Append(wpending, f)
    /\ wposter' = wposter \union {p} /\ wposts' = wposts + 1
    /\ UNCHANGED <<clock, polled, wloop, wquit, wfunctors, wpipe, wtimers>>

WinQuit(p) ==
    /\ p \notin wposter /\ wposts < MaxPosts
    /\ wquit' = TRUE
    /\ wposter' = wposter \union {p} /\ wposts' = wposts + 1
    /\ UNCHANGED <<clock, polled, wloop, wpending, wfunctors, wpipe, wtimers>>

\* Broken variant: only a loop that waits already is woken up.
WinWakeupOnce(p) ==
    /\ p \in wposter
    /\ wpipe' = IF wloop = "poll" THEN wpipe + 1 ELSE wpipe
    /\ wposter' = wposter \ {p}
    /\ UNCHANGED <<clock, polled, wloop, wquit, wpending, wfunctors, wtimers, wposts>>

WinWakeup(p) ==
    /\ p \in wposter
    /\ wpipe' = wpipe + 1
    /\ wposter' = wposter \ {p}
    /\ UNCHANGED <<clock, polled, wloop, wquit, wpending, wfunctors, wtimers, wposts>>

(* Time passes: until poll() has a reason to return, or while the loop works.   *)
WinTimePasses ==
    /\ instant < LastInstant
    /\ IF wloop = "poll" THEN wpipe = 0 /\ instant < wsleep /\ wwork' = wwork
       ELSE wwork < MaxWork /\ wwork' = wwork + 1
    /\ instant' = instant + 1
    /\ UNCHANGED <<polled, wloop, wquit, wpending, wfunctors, wpipe, wtimers, wposter, wposts>>

WinLoopThread ==
    \/ WinLoopStart \/ WhileNotQuitWin \/ PollBegins \/ PollReturns \/ ExpiredProcess
    \/ ExpiredDone \/ WinHandleRead \/ DoPendingFunctors \/ WinRunFunctor \/ WinFunctorsDone

WinLoopNext ==
    \/ WinLoopThread \/ PollReturnsOther \/ WinTimePasses
    \/ \E p \in WinPosters : WinPush(p) \/ WinQuit(p) \/ WinWakeup(p)

(* The loop's thread and those that call it are scheduled, and time passes.    *)
WinLoopSpec ==
    /\ WinLoopInit /\ [][WinLoopNext]_winLoopVars
    /\ WF_winLoopVars(WinLoopThread)
    /\ \A p \in WinPosters : WF_winLoopVars(WinWakeup(p))

-----------------------------------------------------------------------------
(* A loop that waits in poll() has nothing to do: whoever queued a functor or    *)
(* called quit() has left a message in the sockets, or is about to, whatever     *)
(* handleRead() has taken for earlier ones (EventLoop.cc:205-217, :252-260).     *)
WinSleepIsIdle ==
    wloop = "poll" /\ (wpending # << >> \/ wquit) => wpipe > 0 \/ wposter # {}

(* A timer waits, past its expiration or past its addition when that is later,    *)
(* for two rounds of work and defaultOuttime at most, although the timeout of     *)
(* poll() is computed before poll() starts and is rounded (TimerQueue.cc:90-102). *)
WinTimersPrompt ==
    wloop # "returned" => \A t \in wtimers :
        instant <= t.since + 2 * MaxWork + defaultOuttime * kMicroSecondsPerMillisecond

(* What was queued is taken, by a swap that takes all of it, and quit() ends the  *)
(* loop, unless loop() was called only after quit().                             *)
WinFunctorsTaken == wpending # << >> ~> (wquit \/ wpending = << >>)
WinQuitEnds == (wquit /\ wloop # "created") ~> wloop = "returned"

(* The loop sleeps only when it may, runs timers in time, and answers its callers. *)
WinLoopAnswers == [](WinSleepIsIdle /\ WinTimersPrompt) /\ WinFunctorsTaken /\ WinQuitEnds
=============================================================================
