----------------------------- MODULE LogConvert -----------------------------
(***************************************************************************)
(* convert and convertHex of LogStream.cc: integers of a given width and   *)
(* of either signedness as text.  A text is its sequence of digits, with   *)
(* Minus for the sign.                                                     *)
(***************************************************************************)
EXTENDS Integers, Sequences

CONSTANT IntegerBits    \* width of the integers to convert

VARIABLE number
numberVars == <<number>>

Minus == 16

CDiv10(i) == IF i >= 0 THEN i \div 10 ELSE -((-i) \div 10)

\* Broken variant: digits[] indexed from its first zero.
zeroUnsigned == [lsd \in -9 .. 9 |-> (lsd + 10) % 10]

\* digits[] is indexed from its middle, so that a negative remainder finds the
\* digit of its magnitude.
zero == [lsd \in -9 .. 9 |-> IF lsd < 0 THEN -lsd ELSE lsd]

\* The do-while loop, least significant digit first.
RECURSIVE DigitsOf(_)
DigitsOf(i) ==
    LET rest == CDiv10(i)
        digit == zero[i - 10 * rest]
    IN  IF rest = 0 THEN <<digit>> ELSE <<digit>> \o DigitsOf(rest)

Reversed(s) == [k \in 1 .. Len(s) |-> s[Len(s) + 1 - k]]

convert(value) == Reversed(DigitsOf(value) \o (IF value < 0 THEN <<Minus>> ELSE <<>>))

RECURSIVE HexDigitsOf(_)
HexDigitsOf(i) == IF i < 16 THEN <<i>> ELSE <<i % 16>> \o HexDigitsOf(i \div 16)

convertHex(value) == Reversed(HexDigitsOf(value))

-----------------------------------------------------------------------------
NumberInit == number = [at |-> "start"]

\* operator<< of an integer, and of a pointer when it is not negative
ConvertInteger ==
    /\ number.at = "start"
    /\ \E v \in -(2^(IntegerBits - 1)) .. 2^IntegerBits - 1 :
          number' = [at |-> "text", value |-> v, text |-> convert(v),
                     hex |-> IF v < 0 THEN <<>> ELSE convertHex(v)]

RECURSIVE ValueOf(_, _)
ValueOf(text, base) ==
    IF text = <<>> THEN 0
    ELSE ValueOf(SubSeq(text, 1, Len(text) - 1), base) * base + text[Len(text)]

\* convert writes the shortest decimal form of any integer, the most negative
\* one included, which has no positive counterpart; convertHex the shortest
\* hexadecimal one.
ConvertIsShortest ==
    number.at = "text" =>
    LET negative == Head(number.text) = Minus
        digits == IF negative THEN Tail(number.text) ELSE number.text
    IN  /\ number.value = IF negative THEN -ValueOf(digits, 10) ELSE ValueOf(digits, 10)
        /\ Head(digits) = 0 => number.text = <<0>>
        /\ number.value >= 0 =>
              /\ ValueOf(number.hex, 16) = number.value
              /\ Head(number.hex) = 0 => number.hex = <<0>>
=============================================================================
