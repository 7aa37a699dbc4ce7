----------------------------- MODULE ConfigFile ------------------------------
(***************************************************************************)
(* ConfigFileReader: a text file of name=value lines that is read when a      *)
(* program starts and rewritten as a whole by every SetConfigValue().  The     *)
(* program may end at any point, between two fwrite() too, and start again;     *)
(* fopen() and fwrite() may fail.                                              *)
(*                                                                           *)
(* Text is a sequence of characters, because the property is about what        *)
(* formatting and parsing make of it.                                          *)
(***************************************************************************)
EXTENDS Integers, Sequences, FiniteSets, SequencesExt, Functions

CONSTANTS
    ConfigNames, ConfigValues,  \* the arguments of SetConfigValue()
    FirstFiles,                 \* what the file may hold at first
    LineBuffer,                 \* sizeof buf in _LoadFile()
    PairBuffer,                 \* sizeof szPaire in _WriteFile()
    MaxSets                     \* bound on the calls of SetConfigValue()

VARIABLES
    configText,       \* the file
    m_config_map,     \* a function from names to values
    m_load_ok,        \* in the program that runs
    configState,      \* "ended", "running", or "writing" inside _WriteFile()
    toWrite,          \* the names _WriteFile() has not written
    stream,           \* what fwrite() took and fclose() has not flushed
    configSets,       \* calls made
    kept              \* ghost: the map that the file should give back, or Unknown

configVars == <<configText, m_config_map, m_load_ok, configState, toWrite, stream,
                configSets, kept>>

NoText == << >>              \* the empty function, and the empty text
Unknown == [n \in {NoText} |-> NoText]
Blank == {" ", "\t"}

-----------------------------------------------------------------------------
(* Text *)

Index(c, text) ==           \* strchr(), or 0
    IF \E i \in DOMAIN text : text[i] = c
    THEN CHOOSE i \in DOMAIN text : text[i] = c /\ \A j \in 1 .. i - 1 : text[j] # c
    ELSE 0
Before(i, text) == SubSeq(text, 1, i - 1)
From(i, text) == SubSeq(text, i, Len(text))

\* Broken variant: a text ends at its first blank.
TrimSpaceInner(text) ==
    LET solid == {i \in DOMAIN text : text[i] \notin Blank}
        start == CHOOSE i \in solid : \A j \in solid : i <= j
    IN  IF solid = {} THEN NoText
        ELSE SubSeq(text, start, CHOOSE i \in solid : start .. i \subseteq solid
                                                       /\ i + 1 \notin solid)

(* _TrimSpace(), where NoText stands for NULL. *)
TrimSpace(text) ==
    LET solid == {i \in DOMAIN text : text[i] \notin Blank}
    IN  IF solid = {} THEN NoText
        ELSE SubSeq(text, CHOOSE i \in solid : \A j \in solid : i <= j,
                          CHOOSE i \in solid : \A j \in solid : i >= j)

(* insert(), which keeps what the map has. *)
Insert(map, name, value) ==
    IF name \in DOMAIN map THEN map
    ELSE [n \in DOMAIN map \union {name} |-> IF n = name THEN value ELSE map[n]]

\* Broken variant: a value ends at an equals sign too.
ParseLineLast(map, line) ==
    LET eq    == IF \E i \in DOMAIN line : line[i] = "="
                 THEN CHOOSE i \in DOMAIN line : line[i] = "=" /\ "=" \notin Range(From(i + 1, line))
                 ELSE 0
        key   == TrimSpace(Before(eq, line))
        value == TrimSpace(From(eq + 1, line))
    IN  IF eq = 0 \/ key = NoText \/ value = NoText THEN map ELSE Insert(map, key, value)

(* _ParseLine() *)
ParseLine(map, line) ==
    LET eq    == Index("=", line)
        key   == TrimSpace(Before(eq, line))
        value == TrimSpace(From(eq + 1, line))
    IN  IF eq = 0 \/ key = NoText \/ value = NoText THEN map ELSE Insert(map, key, value)

(* What fgets() leaves: up to the end of a line, or as much as fits. *)
LineEnd(text) ==
    LET eol  == Index("\n", text)
        room == LineBuffer - 1
    IN  IF eol # 0 /\ eol <= room THEN eol
        ELSE IF Len(text) <= room THEN Len(text) ELSE room

\* Broken variant: the line keeps its newline.
LineContentsKept(text) ==
    LET buf == SubSeq(text, 1, LineEnd(text))
    IN  IF Index("#", buf) = 0 THEN buf ELSE Before(Index("#", buf), buf)

(* One line without its newline and its comment. *)
LineContents(text) ==
    LET buf  == SubSeq(text, 1, LineEnd(text))
        line == IF buf[Len(buf)] = "\n" THEN Before(Len(buf), buf) ELSE buf
    IN  IF Index("#", line) = 0 THEN line ELSE Before(Index("#", line), line)

(* The loop of _LoadFile(). *)
RECURSIVE LoadLines(_, _)
LoadLines(map, text) ==
    IF text = NoText THEN map
    ELSE LoadLines(ParseLine(map, LineContents(text)), From(LineEnd(text) + 1, text))

(* snprintf() of a pair cuts it to the buffer; sprintf_s(), which stands for it    *)
(* in an MSVC build, leaves nothing of a pair that does not fit.                    *)
PairText(name, value) == name \o <<"=">> \o value \o <<"\n">>
WrittenPair(name, value) ==
    LET text == PairText(name, value)
    IN  IF Len(text) < PairBuffer THEN {text}
        ELSE {SubSeq(text, 1, PairBuffer - 1), NoText}

-----------------------------------------------------------------------------
ConfigInit ==
    /\ configText \in FirstFiles
    /\ m_config_map = NoText /\ m_load_ok = FALSE /\ configState = "ended"
    /\ toWrite = << >> /\ stream = NoText /\ configSets = 0 /\ kept = Unknown

(* The constructor.  When fopen() fails it leaves m_load_ok as it was. *)
LoadFile ==
    /\ configState = "ended"
    /\ configState' = "running"
    /\ \/ m_config_map' = LoadLines(NoText, configText) /\ m_load_ok' = TRUE
       \/ m_config_map' = NoText /\ m_load_ok' \in BOOLEAN
    /\ UNCHANGED <<configText, toWrite, stream, configSets, kept>>

(* SetConfigValue(), up to the fopen() of _WriteFile(), which empties the file or  *)
(* fails.                                                                          *)
SetConfigValue ==
    /\ configState = "running" /\ m_load_ok /\ configSets < MaxSets
    /\ configSets' = configSets + 1
    /\ \E name \in ConfigNames, value \in ConfigValues :
          m_config_map' = [n \in DOMAIN m_config_map \union {name} |->
                              IF n = name THEN value ELSE m_config_map[n]]
    /\ \/ /\ configText' = NoText /\ kept' = Unknown
          /\ configState' = "writing"
          /\ toWrite' = SetToSeq(DOMAIN m_config_map')
       \/ UNCHANGED <<configText, configState, toWrite, kept>>
    /\ UNCHANGED <<m_load_ok, stream>>

(* fwrite() of the next pair; a pair that is empty counts as failed, and a failure  *)
(* closes the file with what was written.                                           *)
WritePair ==
    /\ configState = "writing" /\ toWrite # << >>
    /\ \E text \in WrittenPair(Head(toWrite), m_config_map[Head(toWrite)]) \union {NoText} :
          IF text # NoText
          THEN /\ stream' = stream \o text
               /\ toWrite' = Tail(toWrite)
               /\ UNCHANGED <<configState, configText>>
          ELSE /\ stream' = NoText /\ toWrite' = << >>
               /\ configText' = stream
               /\ configState' = "running"
    /\ UNCHANGED <<m_config_map, m_load_ok, configSets, kept>>

(* Text that a line can hold and give back. *)
Fits(name, value) ==
    /\ \A text \in {name, value} :
           text # NoText /\ {Head(text), Last(text)} \intersect Blank = {}
    /\ {"#", "\n"} \intersect (Range(name) \union Range(value)) = {}
    /\ "=" \notin Range(name)
    /\ Len(PairText(name, value)) < PairBuffer

(* fclose() after the last pair, whose result nobody reads: SetConfigValue() returns  *)
(* 0 even when the flush fails.                                                       *)
WriteDone ==
    /\ configState = "writing" /\ toWrite = << >>
    /\ \/ /\ configText' = stream
          /\ kept' = IF \A n \in DOMAIN m_config_map : Fits(n, m_config_map[n])
                     THEN m_config_map ELSE Unknown
       \/ /\ configText' \in {SubSeq(stream, 1, i) : i \in 0 .. Len(stream) - 1}
          /\ kept' = Unknown
    /\ stream' = NoText
    /\ configState' = "running"
    /\ UNCHANGED <<m_config_map, m_load_ok, toWrite, configSets>>

(* The program ends, or dies inside _WriteFile() after some of the stream was      *)
(* flushed.                                                                        *)
ProgramEnds ==
    /\ configState # "ended"
    /\ configState' = "ended"
    /\ configText' \in IF configState = "running" THEN {configText}
                       ELSE {SubSeq(stream, 1, i) : i \in 0 .. Len(stream)}
    /\ m_config_map' = NoText /\ m_load_ok' = FALSE
    /\ stream' = NoText /\ toWrite' = << >>
    /\ UNCHANGED <<configSets, kept>>

ConfigNext == LoadFile \/ SetConfigValue \/ WritePair \/ WriteDone \/ ProgramEnds

-----------------------------------------------------------------------------
(* What _WriteFile() has flushed is what the next program reads, whatever comes     *)
(* between, as long as names and values are solid text without # and fit the         *)
(* buffer, and no later call has begun to rewrite the file: _LoadFile() undoes what  *)
(* _WriteFile() does (config_file_reader.cc:51-159).                                 *)
ConfigSurvives ==
    kept # Unknown => LoadLines(NoText, configText) = kept
=============================================================================
