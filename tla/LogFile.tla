------------------------------- MODULE LogFile -------------------------------
(***************************************************************************)
(* LogFile and FileUtil::AppendFile of the Windows build: a log that starts  *)
(* a new file when the current one is large or its period is over.           *)
(***************************************************************************)
EXTENDS Integers

CONSTANTS
    rollSize, flushInterval, checkEveryN,
    kRollPerSeconds,      \* 60 * 60 * 24 in the code
    LineLengths,          \* the lengths of the lines appended
    LastTime              \* bound: the clock

VARIABLES
    clock,                \* time(NULL)
    startOfPeriod, lashFlush, count,
    writtenBytes,         \* of the current file, as AppendFile counts them
    late,                 \* appends to the current file after its period ended
    over                  \* clock at which the current file outgrew rollSize, or -1

logFileVars == <<clock, startOfPeriod, lashFlush, count, writtenBytes, late, over>>

PeriodOf(t) == (t \div kRollPerSeconds) * kRollPerSeconds

(* The constructor calls rollFile(), with lashFlush_ = 0. *)
LogFileInit ==
    /\ clock = kRollPerSeconds
    /\ startOfPeriod = PeriodOf(clock) /\ lashFlush = clock
    /\ count = 0 /\ writtenBytes = 0
    /\ late = 0 /\ over = -1

(* AppendFile::append: fwrite until all is written or it fails; either way the *)
(* whole line is counted.                                                       *)
AppendFile_append(len) ==
    /\ writtenBytes' = writtenBytes + len
    /\ late' = IF PeriodOf(clock) # startOfPeriod THEN late + 1 ELSE late
    /\ over' = IF over = -1 /\ writtenBytes' > rollSize THEN clock ELSE over

\* Broken variant: compares with the time of the last roll plus an interval.
rollFileRarely(len) ==
    IF clock > lashFlush + flushInterval
    THEN /\ lashFlush' = clock /\ startOfPeriod' = PeriodOf(clock)
         /\ writtenBytes' = 0 /\ late' = 0 /\ over' = -1
    ELSE AppendFile_append(len) /\ UNCHANGED <<lashFlush, startOfPeriod>>

(* rollFile(), after the line went to the old file: refused in the second of   *)
(* the last roll or flush, because it compares with lashFlush_.                 *)
rollFile(len) ==
    IF clock > lashFlush
    THEN /\ lashFlush' = clock /\ startOfPeriod' = PeriodOf(clock)
         /\ writtenBytes' = 0 /\ late' = 0 /\ over' = -1
    ELSE AppendFile_append(len) /\ UNCHANGED <<lashFlush, startOfPeriod>>

\* Broken variant: a flush comes before the check of the period.
append_unlockFlushing(len) ==
    LET checks == count + 1 >= checkEveryN
        large  == writtenBytes + len > rollSize
    IN  /\ UNCHANGED clock
        /\ count' = IF large THEN count ELSE IF checks THEN 0 ELSE count + 1
        /\ IF large THEN rollFile(len)
           ELSE /\ AppendFile_append(len)
                /\ lashFlush' = IF checks /\ clock - lashFlush > flushInterval
                                THEN clock ELSE lashFlush
                /\ UNCHANGED startOfPeriod

append_unlock(len) ==
    LET checks == count + 1 >= checkEveryN
        large  == writtenBytes + len > rollSize
    IN  /\ UNCHANGED clock
        /\ count' = IF large THEN count ELSE IF checks THEN 0 ELSE count + 1
        /\ IF large \/ (checks /\ PeriodOf(clock) # startOfPeriod)
           THEN rollFile(len)
           ELSE /\ AppendFile_append(len)
                /\ lashFlush' = IF checks /\ clock - lashFlush > flushInterval
                                THEN clock ELSE lashFlush
                /\ UNCHANGED startOfPeriod

ClockTicks ==
    /\ clock < LastTime
    /\ clock' = clock + 1
    /\ UNCHANGED <<startOfPeriod, lashFlush, count, writtenBytes, late, over>>

(* The bound on a file's size: it grows on while rolling is refused. *)
MaxFile == 4 * rollSize

LogFileNext ==
    \/ \E len \in LineLengths : writtenBytes + len <= MaxFile /\ append_unlock(len)
    \/ ClockTicks

LogFileSpec == LogFileInit /\ [][LogFileNext]_logFileVars

-----------------------------------------------------------------------------
(* A file takes fewer than checkEveryN_ lines after its period is over: the    *)
(* check that comes every checkEveryN_ appends is never refused its roll.       *)
PeriodsAreKept == late < checkEveryN

(* A file outgrows rollSize_ only within the second in which it did: the first  *)
(* append of a later second, at the latest, starts a new file, although the     *)
(* roll is refused in a second that already saw a roll or a flush.              *)
OversizeIsBrief ==
    [][\A len \in LineLengths :
          append_unlock(len) /\ over # -1 /\ clock > over => writtenBytes' = 0]_logFileVars
=============================================================================
