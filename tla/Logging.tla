------------------------------ MODULE Logging ------------------------------
(***************************************************************************)
(* LogStream, FixedBuffer and Logger of muduo's base library: the pieces   *)
(* that a log statement puts in its buffer, and the formatted second that  *)
(* each thread caches.  A piece is its kind and its length; a buffer is    *)
(* its length, the length it was asked to hold, and whether it holds all.  *)
(***************************************************************************)
EXTENDS Integers, Sequences

CONSTANTS LogThreads,    \* threads that log
          Texts,         \* lengths of the texts that statements append
          MaxTexts,      \* texts of a statement
          LastSecond     \* the clock stops here

VARIABLES second,        \* the wall clock, in seconds
          g_logTimeZone, \* "utc" when no zone is set
          zoneSetIn,     \* the seconds in which setTimeZone was called
          t_time,        \* per thread: t_lastSecond, and the zone t_time shows it in
          stmt,          \* per thread: the log statement under way, or the last line
          aborted

loggingVars == <<second, g_logTimeZone, zoneSetIn, t_time, stmt, aborted>>

kSmallBuffer == 4000
kMaxNumericSize == 32
BasenameLen == 12

-----------------------------------------------------------------------------
\* FixedBuffer and LogStream.

Empty == [length |-> 0, asked |-> 0, whole |-> TRUE]

avail(buffer) == kSmallBuffer - buffer.length

Hold(buffer, len, fits) ==
    [length |-> IF fits THEN buffer.length + len ELSE buffer.length,
     asked |-> buffer.asked + len, whole |-> buffer.whole /\ fits]

\* FixedBuffer::append leaves out a piece that would not leave a byte free.
appendPiece(buffer, piece) ==
    Hold(buffer, piece.len, avail(buffer) > piece.len)

\* Broken variant: a number must leave a whole buffer's worth of digits free.
formatIntegerTwice(buffer, piece) ==
    Hold(buffer, piece.len, avail(buffer) >= 2 * kMaxNumericSize)

\* formatInteger, and operator<< for pointers and doubles, write in place.
formatInteger(buffer, piece) ==
    Hold(buffer, piece.len, avail(buffer) >= kMaxNumericSize)

Put(buffer, piece) ==
    IF piece.kind = "number" THEN formatInteger(buffer, piece) ELSE appendPiece(buffer, piece)

RECURSIVE PutAll(_, _)
PutAll(buffer, pieces) ==
    IF pieces = <<>> THEN buffer ELSE PutAll(Put(buffer, Head(pieces)), Tail(pieces))

Text(n) == [kind |-> "text", len |-> n]
Number(n) == [kind |-> "number", len |-> n]

-----------------------------------------------------------------------------
\* Logger.

LoggingInit ==
    /\ second = 1
    /\ g_logTimeZone = "utc"
    /\ zoneSetIn = {}
    /\ t_time = [t \in LogThreads |-> [second |-> 0, zone |-> "utc"]]
    /\ stmt = [t \in LogThreads |-> [at |-> "idle", line |-> Empty]]
    /\ aborted = FALSE

\* Broken variant: the cached second is looked up but not refreshed.
FormattedOnce(t) ==
    IF t_time[t].second # 0 THEN t_time[t] ELSE [second |-> second, zone |-> g_logTimeZone]

\* Impl::formatTime
Formatted(t) ==
    IF t_time[t].second = second THEN t_time[t] ELSE [second |-> second, zone |-> g_logTimeZone]

\* The pieces of Impl's constructor: the time and its microseconds, the thread
\* id, the level, and the error text when errno is set
Header(errno) ==
    <<Text(17), Text(IF g_logTimeZone = "utc" THEN 9 ELSE 8), Text(6), Text(6)>>
      \o (IF errno THEN <<Text(20), Text(8), Number(3), Text(2)>> ELSE <<>>)

\* Impl::finish
Footer == <<Text(3), Text(BasenameLen), Text(1), Number(3), Text(1)>>

\* LOG_INFO, LOG_SYSERR, which shows errno, and LOG_FATAL: Impl's constructor up to
\* where formatTime has the formatted second.  It reads g_logTimeZone again below,
\* and nothing keeps another thread's setTimeZone out in between.
LogStart(t) ==
    /\ ~aborted
    /\ stmt[t].at = "idle"
    /\ \E level \in {"INFO", "ERROR", "FATAL"} :
          stmt' = [stmt EXCEPT ![t] =
                [at |-> "format", level |-> level, started |-> second, shown |-> Formatted(t)]]
    /\ t_time' = [t_time EXCEPT ![t] = Formatted(t)]
    /\ UNCHANGED <<second, g_logTimeZone, zoneSetIn, aborted>>

LogHeader(t) ==
    /\ ~aborted
    /\ stmt[t].at = "format"
    /\ stmt' = [stmt EXCEPT ![t] =
          [at |-> "stream", level |-> @.level, started |-> @.started, headed |-> second,
           shown |-> @.shown, zulu |-> g_logTimeZone = "utc",
           texts |-> 0, buffer |-> PutAll(Empty, Header(@.level = "ERROR"))]]
    /\ UNCHANGED <<second, g_logTimeZone, zoneSetIn, t_time, aborted>>

\* operator<< of a text or of an integer
LogPiece(t) ==
    /\ ~aborted
    /\ stmt[t].at = "stream"
    /\ stmt[t].texts < MaxTexts
    /\ \E piece \in {Text(n) : n \in Texts} \cup {Number(11)} :
          stmt' = [stmt EXCEPT ![t].texts = @ + 1,
                               ![t].buffer = Put(@, piece)]
    /\ UNCHANGED <<second, g_logTimeZone, zoneSetIn, t_time, aborted>>

\* ~Logger: finish, output, and abort for FATAL
LogEnd(t) ==
    /\ ~aborted
    /\ stmt[t].at = "stream"
    /\ aborted' = (stmt[t].level = "FATAL")
    /\ stmt' = [stmt EXCEPT ![t] = [at |-> "idle", line |-> PutAll(@.buffer, Footer)]]
    /\ UNCHANGED <<second, g_logTimeZone, zoneSetIn, t_time>>

setTimeZone ==
    /\ ~aborted
    /\ g_logTimeZone' \in {"utc", "local"}
    /\ zoneSetIn' = zoneSetIn \cup {second}
    /\ UNCHANGED <<second, t_time, stmt, aborted>>

Tick ==
    /\ ~aborted
    /\ second < LastSecond
    /\ second' = second + 1
    /\ UNCHANGED <<g_logTimeZone, zoneSetIn, t_time, stmt, aborted>>

LoggingNext ==
    \/ \E t \in LogThreads : LogStart(t) \/ LogHeader(t) \/ LogPiece(t) \/ LogEnd(t)
    \/ setTimeZone \/ Tick

-----------------------------------------------------------------------------
\* Properties.

\* A log line never runs past its FixedBuffer, and a line whose pieces fit,
\* with kMaxNumericSize bytes to spare, is output with all of them: the file,
\* the line number and the newline included.
LinesFit ==
    \A t \in LogThreads :
        stmt[t].at = "idle" =>
            /\ stmt[t].line.length < kSmallBuffer
            /\ stmt[t].line.whole \/ stmt[t].line.asked > kSmallBuffer - kMaxNumericSize

\* The time a line shows is that of the second it was logged in, and it shows it in
\* the zone its suffix tells, unless setTimeZone was called in that very second, of
\* which each thread has the last formatted text in its cache, or before the suffix
\* was written.
ShownTimeIsCurrent ==
    \A t \in LogThreads :
        stmt[t].at = "stream" =>
            /\ stmt[t].shown.second = stmt[t].started
            /\ (stmt[t].shown.zone = "utc") = stmt[t].zulu
                 \/ zoneSetIn \cap (stmt[t].started .. stmt[t].headed) # {}

=============================================================================
