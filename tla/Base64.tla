------------------------------- MODULE Base64 -------------------------------
(***************************************************************************)
(* base64_encode and base64_decode of base64.cpp.  A character is its      *)
(* ASCII code; the accumulator keeps its low 16 bits, more than either     *)
(* loop ever reads back.                                                   *)
(***************************************************************************)
EXTENDS Integers, Sequences

CONSTANTS Base64Bytes,    \* the bytes that inputs are made of
          Base64MaxLen    \* and their largest length

VARIABLE base64
base64Vars == <<base64>>

AccSize == 2^16
Pad == 61      \* '='

\* isspace() of the C locale: tab to carriage return, and space
Blanks == 9 .. 13 \cup {32}

\* b64_table as character codes: A-Z, a-z, 0-9, + and /
b64_table ==
    [k \in 0 .. 63 |-> CASE k < 26 -> 65 + k
                         [] k < 52 -> 97 + k - 26
                         [] k < 62 -> 48 + k - 52
                         [] k = 62 -> 43
                         [] OTHER  -> 47]

reverse_table ==
    [c \in 0 .. 127 |-> CASE c \in 65 .. 90  -> c - 65
                          [] c \in 97 .. 122 -> c - 97 + 26
                          [] c \in 48 .. 57  -> c - 48 + 52
                          [] c = 43 -> 62
                          [] c = 47 -> 63
                          [] OTHER  -> 64]

\* The inner while loop: emits six bits as long as there are six.
RECURSIVE Emit(_)
Emit(e) ==
    IF e.bits < 6 THEN e
    ELSE Emit([e EXCEPT !.bits = @ - 6,
                        !.out = Append(@, b64_table[(e.acc \div 2^(e.bits - 6)) % 64])])

EncodeByte(e, b) ==
    Emit([e EXCEPT !.acc = (@ * 256 + b) % AccSize, !.bits = @ + 8])

\* Broken variant: does not shift the last bits up.
EncodeTailUnshifted(e) ==
    IF e.bits = 0 THEN e ELSE [e EXCEPT !.out = Append(@, b64_table[e.acc % 64])]

EncodeTail(e) ==
    IF e.bits = 0 THEN e
    ELSE [e EXCEPT !.out = Append(@, b64_table[(e.acc * 2^(6 - e.bits)) % 64])]

RECURSIVE EncodeBytes(_, _)
EncodeBytes(e, bindata) ==
    IF bindata = <<>> THEN e ELSE EncodeBytes(EncodeByte(e, Head(bindata)), Tail(bindata))

\* retval starts as '=' signs, so what the loop leaves alone is the padding.
\* The last two asserts compare with retval.size() - 2, unsigned.
base64_encode(bindata) ==
    LET size == ((Len(bindata) + 2) \div 3) * 4
        e == EncodeTail(EncodeBytes([acc |-> 0, bits |-> 0, out |-> <<>>], bindata))
        outpos == Len(e.out)
        floor == IF size < 2 THEN size + AccSize - 2 ELSE size - 2
    IN  [text |-> e.out \o [k \in 1 .. size - outpos |-> Pad],
         asserts |-> e.bits < 6 /\ outpos >= floor /\ outpos <= size]

\* Broken variant: takes a blank for a bad character.
DecodeCharStrict(d, c) ==
    IF c = Pad THEN d
    ELSE IF c \notin 0 .. 127 \/ reverse_table[c] > 63 THEN [d EXCEPT !.bad = TRUE]
    ELSE LET acc == (d.acc * 64 + reverse_table[c]) % AccSize
             bits == d.bits + 6
         IN  IF bits >= 8
             THEN [d EXCEPT !.acc = acc, !.bits = bits - 8,
                            !.out = Append(@, (acc \div 2^(bits - 8)) % 256)]
             ELSE [d EXCEPT !.acc = acc, !.bits = bits]

DecodeChar(d, c) ==
    IF c \in Blanks \cup {Pad} THEN d
    ELSE IF c \notin 0 .. 127 \/ reverse_table[c] > 63 THEN [d EXCEPT !.bad = TRUE]
    ELSE LET acc == (d.acc * 64 + reverse_table[c]) % AccSize
             bits == d.bits + 6
         IN  IF bits >= 8
             THEN [d EXCEPT !.acc = acc, !.bits = bits - 8,
                            !.out = Append(@, (acc \div 2^(bits - 8)) % 256)]
             ELSE [d EXCEPT !.acc = acc, !.bits = bits]

\* A bad character ends the loop.
RECURSIVE DecodeChars(_, _)
DecodeChars(d, ascdata) ==
    IF d.bad \/ ascdata = <<>> THEN d
    ELSE DecodeChars(DecodeChar(d, Head(ascdata)), Tail(ascdata))

base64_decode(ascdata) ==
    LET d == DecodeChars([acc |-> 0, bits |-> 0, out |-> <<>>, bad |-> FALSE], ascdata)
    IN  IF d.bad THEN <<>> ELSE d.out

-----------------------------------------------------------------------------
\* A caller encodes a string and decodes the text, with a blank slipped in.  An
\* assert that fails ends the behaviour.

Base64Init == base64 = [at |-> "start", data |-> <<>>]

Base64Encode ==
    /\ base64.at = "start"
    /\ \E n \in 0 .. Base64MaxLen : \E data \in [1 .. n -> Base64Bytes] :
          LET code == base64_encode(data)
          IN  base64' = IF code.asserts
                        THEN [at |-> "encoded", data |-> data, text |-> code.text]
                        ELSE [at |-> "failed", data |-> data]

Base64Decode ==
    /\ base64.at = "encoded"
    /\ \E at \in 0 .. Len(base64.text), blank \in Blanks :
          LET text == SubSeq(base64.text, 1, at) \o <<blank>>
                        \o SubSeq(base64.text, at + 1, Len(base64.text))
          IN  base64' = [at |-> "decoded", data |-> base64.data,
                         back |-> base64_decode(text)]

Base64Next == Base64Encode \/ Base64Decode

-----------------------------------------------------------------------------
\* The text of RFC 4648, read off the bits: digit k is bits 6k .. 6k + 5 of
\* the input followed by zeros.

BitOf(data, i) ==
    IF i >= 8 * Len(data) THEN 0
    ELSE (data[(i \div 8) + 1] \div 2^(7 - (i % 8))) % 2

Digit(data, k) ==
    32 * BitOf(data, 6 * k) + 16 * BitOf(data, 6 * k + 1) + 8 * BitOf(data, 6 * k + 2)
      + 4 * BitOf(data, 6 * k + 3) + 2 * BitOf(data, 6 * k + 4) + BitOf(data, 6 * k + 5)

RfcText(data) ==
    [j \in 1 .. ((Len(data) + 2) \div 3) * 4 |->
        IF 6 * (j - 1) < 8 * Len(data) THEN b64_table[Digit(data, j - 1)] ELSE Pad]

\* base64_encode gives the padded text of RFC 4648 for every string but the empty
\* one, the only one it fails on: retval.size() - 2 wraps around below zero there,
\* and assert(outpos >= (retval.size() - 2)) aborts where the RFC has "".
EncodeIsRfc4648 ==
    /\ base64.at = "encoded" => base64.text = RfcText(base64.data)
    /\ base64.at = "failed" => base64.data = <<>>

\* base64_decode gives back what base64_encode was given, skipping a blank
\* anywhere in the text.
DecodeInverts ==
    base64.at = "decoded" => base64.back = base64.data
=============================================================================
