------------------------------- MODULE MCData --------------------------------
(***************************************************************************)
(* The sequential parts, each on its own: data structures, codecs, clocks,   *)
(* logs, and the pollers and timers of a loop.                                *)
(***************************************************************************)
EXTENDS MCPeerMap, Aes, Any, Base64, Buffer, Calendar, ConfigFile, LogConvert, LogFile,
        Logging, Md5, Poller, WinTimers

VARIABLE subject    \* the part that this behaviour runs

allVars == <<subject, peerVars, aesVars, anyVars, base64, bufferVars, calendarVars,
             configVars, numberVars, logFileVars, loggingVars, md5, pollerVars, winVars>>

-----------------------------------------------------------------------------
(* Instances *)

Line(c, b, n) == [i \in 1 .. n |-> (c * i + b) % 256]
Keys == {Line(c, 200, n) : c \in {1, 37}, n \in {16, 24, 32}}
Blocks == {Line(c, 239, 16) : c \in {17, 91}}

\* Around the 56 and 64 bytes at which the padding takes another block.
Lengths == {0, 1, 54, 55, 56, 57, 63, 64, 65, 119, 120, 121, 127, 128, 129, 183, 184,
            192, 193, 256, 257, 300}

\* A summer time of an hour or of half an hour, and clocks put back for good.
Zone(offset, change, dst) ==
    [times |-> <<1000000, 16000000, 32000000>>, indices |-> <<2, 1, 2>>,
     types |-> <<[gmtOffset |-> offset, isDst |-> FALSE],
                 [gmtOffset |-> offset + change, isDst |-> dst]>>]
Zones == {Zone(o, 3600, TRUE) : o \in {-18000, 0, 28800}}
            \cup {Zone(37800, 1800, TRUE), Zone(10800, -3600, FALSE)}
AroundTransitions == {-7201, -7200, -3601, -3600, -1800, -1, 0, 1, 1800, 3599, 3600,
                      3601, 7200}

Integers16 == {-2}

Names == {<<"a">>, <<"b", " ", "c">>}
Values == {<<"1">>, <<"1", "=", "2">>, <<" ", "1">>, <<"1", "#">>}
\* With a comment, blanks, an empty line, a name given twice and no last newline.
OldText == <<"a", "=", "1", "\n", " ", "b", "\t", "=", "2", " ", "#", "x", "\n", "\n",
             "a", "=", "3">>
OldTexts == {<< >>, OldText}

Revents == {{"in", "hup"}, {"hup"}, {"err", "out"}}

-----------------------------------------------------------------------------
Parts == {"peers", "aes", "any", "base64", "buffer", "calendar", "config", "number",
          "log file", "logging", "md5", "poller", "timers"}

MCInit ==
    /\ subject \in Parts
    /\ PeersInit /\ AesInit /\ AnyInit /\ Base64Init /\ BufferInit /\ CalendarInit
    /\ ConfigInit /\ NumberInit /\ LogFileInit /\ LoggingInit /\ Md5Init /\ PollerInit /\ WinInit
    /\ subject # "buffer" => build = CHOOSE b \in BufferBuilds : TRUE
    /\ subject # "config" => configText = << >>
    /\ subject # "poller" => kind = CHOOSE k \in PollerKinds : TRUE

\* The other parts stand still.
Only(part) ==
    /\ IF part = "peers" THEN TRUE ELSE UNCHANGED peerVars
    /\ IF part = "aes" THEN TRUE ELSE UNCHANGED aesVars
    /\ IF part = "any" THEN TRUE ELSE UNCHANGED anyVars
    /\ IF part = "base64" THEN TRUE ELSE UNCHANGED base64
    /\ IF part = "buffer" THEN TRUE ELSE UNCHANGED bufferVars
    /\ IF part = "calendar" THEN TRUE ELSE UNCHANGED calendarVars
    /\ IF part = "config" THEN TRUE ELSE UNCHANGED configVars
    /\ IF part = "number" THEN TRUE ELSE UNCHANGED numberVars
    /\ IF part = "log file" THEN TRUE ELSE UNCHANGED logFileVars
    /\ IF part = "logging" THEN TRUE ELSE UNCHANGED loggingVars
    /\ IF part = "md5" THEN TRUE ELSE UNCHANGED md5
    /\ IF part = "poller" THEN TRUE ELSE UNCHANGED pollerVars
    /\ IF part = "timers" THEN TRUE ELSE UNCHANGED winVars

MCNext ==
    /\ UNCHANGED subject
    /\ \/ subject = "peers" /\ PeersNext /\ Only("peers")
       \/ subject = "aes" /\ AesNext /\ Only("aes")
       \/ subject = "any" /\ AnyNext /\ Only("any")
       \/ subject = "base64" /\ Base64Next /\ Only("base64")
       \/ subject = "buffer" /\ BufferNext /\ Only("buffer")
       \/ subject = "calendar" /\ CalendarNext /\ Only("calendar")
       \/ subject = "config" /\ ConfigNext /\ Only("config")
       \/ subject = "number" /\ ConvertInteger /\ Only("number")
       \/ subject = "log file" /\ LogFileNext /\ Only("log file")
       \/ subject = "logging" /\ LoggingNext /\ Only("logging")
       \/ subject = "md5" /\ MD5_Calculate /\ Only("md5")
       \/ subject = "poller" /\ PollerNext /\ Only("poller")
       \/ subject = "timers" /\ WinNext /\ Only("timers")

MCSpec == MCInit /\ [][MCNext]_allVars

\* What a log line says and where it goes: integers in shortest form, lines within
\* their buffer showing the current second, files rolled by size and by period.
LogIsRight ==
    [](ConvertIsShortest /\ LinesFit /\ ShownTimeIsCurrent /\ PeriodsAreKept) /\ OversizeIsBrief

\* The codes of base/security are those of their standards: AES of FIPS 197 and its
\* inverse, Base64 of RFC 4648 and its inverse for all but the empty string, on which
\* base64_encode aborts, and the blocks of RFC 1321.
StandardsAreMet ==
    CipherIsFips /\ [](DecryptInverts /\ EncodeIsRfc4648 /\ DecodeInverts /\ BlocksAreRfc1321)
=============================================================================
