-------------------------------- MODULE Md5 --------------------------------
(***************************************************************************)
(* MD5_Calculate of md5.cpp: how MD5_Update and MD5_Final buffer, count    *)
(* and pad a message.  MD5_Transform is abstracted to the block it mixes   *)
(* in, so that a state is the sequence of blocks; bytes are symbols.       *)
(***************************************************************************)
EXTENDS Integers, Sequences

CONSTANTS Md5Lengths,   \* the message lengths to hash
          Md5Width      \* the width of an unsigned int, in bits (32)

VARIABLE md5
md5Vars == <<md5>>

Message(n) == [k \in 1 .. n |-> <<"byte", k>>]
PADDING == [k \in 1 .. 64 |-> <<"pad", IF k = 1 THEN 128 ELSE 0>>]
\* The bytes MD5_Encode makes of count[0] and count[1]
LengthBytes(lo, hi) == [k \in 1 .. 8 |-> <<"length", k, lo, hi>>]

UInt == 2^Md5Width

MD5_Init == [lo |-> 0, hi |-> 0, state |-> <<>>,
             buffer |-> [k \in 1 .. 64 |-> <<"junk">>]]

MD5_Transform(state, block) == Append(state, block)

\* memcpy to buffer[index]
Fill(buffer, index, bytes) ==
    [k \in 1 .. 64 |-> IF k \in index + 1 .. index + Len(bytes)
                       THEN bytes[k - index] ELSE buffer[k]]

\* for (i = partLen; i + 63 < len; i += 64)
RECURSIVE TransformFrom(_, _, _)
TransformFrom(state, buf, i) ==
    IF i + 63 < Len(buf)
    THEN TransformFrom(MD5_Transform(state, SubSeq(buf, i + 1, i + 64)), buf, i + 64)
    ELSE [state |-> state, i |-> i]

MD5_Update(context, buf) ==
    LET len == Len(buf)
        index == (context.lo \div 8) % 64
        bits == (len * 8) % UInt
        lo == (context.lo + bits) % UInt
        hi == (context.hi + (IF lo < bits THEN 1 ELSE 0) + len \div 2^(Md5Width - 3)) % UInt
        partLen == 64 - index
        full == Fill(context.buffer, index, SubSeq(buf, 1, partLen))
        after == TransformFrom(MD5_Transform(context.state, full), buf, partLen)
    IN  IF len >= partLen
        THEN [lo |-> lo, hi |-> hi, state |-> after.state,
              buffer |-> Fill(full, 0, SubSeq(buf, after.i + 1, len))]
        ELSE [lo |-> lo, hi |-> hi, state |-> context.state,
              buffer |-> Fill(context.buffer, index, buf)]

\* Broken variant: a message that ends at byte 56 is padded within its block.
MD5_FinalShort(context) ==
    LET bits == LengthBytes(context.lo, context.hi)
        index == (context.lo \div 8) % 64
        padLen == IF index <= 56 THEN 56 - index ELSE 120 - index
    IN  MD5_Update(MD5_Update(context, SubSeq(PADDING, 1, padLen)), bits)

MD5_Final(context) ==
    LET bits == LengthBytes(context.lo, context.hi)
        index == (context.lo \div 8) % 64
        padLen == IF index < 56 THEN 56 - index ELSE 120 - index
    IN  MD5_Update(MD5_Update(context, SubSeq(PADDING, 1, padLen)), bits)

Md5Init == md5 = [at |-> "start"]

MD5_Calculate ==
    /\ md5.at = "start"
    /\ \E n \in Md5Lengths :
          md5' = [at |-> "digest", len |-> n,
                  state |-> MD5_Final(MD5_Update(MD5_Init, Message(n))).state]

\* The padding of RFC 1321: the message, a 1 bit, zeros up to 56 modulo 64
\* bytes, and the length in bits as two words.
ZeroBytes(n) == CHOOSE z \in 0 .. 63 : (n + 1 + z) % 64 = 56

RfcPadded(n) ==
    Message(n) \o SubSeq(PADDING, 1, 1 + ZeroBytes(n))
      \o LengthBytes((8 * n) % UInt, ((8 * n) \div UInt) % UInt)

\* The blocks that MD5_Calculate transforms are the padded message of RFC 1321,
\* cut every 64 bytes, for lengths on both sides of every block boundary and
\* of the carry from count[0] to count[1].
BlocksAreRfc1321 ==
    md5.at = "digest" =>
        LET padded == RfcPadded(md5.len)
        IN  md5.state = [k \in 1 .. Len(padded) \div 64 |->
                            SubSeq(padded, 64 * (k - 1) + 1, 64 * k)]
=============================================================================
