------------------------------ MODULE ByteQueue ------------------------------
(***************************************************************************)
(* What muduo's net::Buffer promises its callers: a queue of bytes that     *)
(* can also grow at the front and shrink at the back.  `call` is the last   *)
(* operation with its argument, and `got` is what it returned.              *)
(***************************************************************************)
EXTENDS Integers, Sequences

VARIABLES content, call, got

queueVars == <<content, call, got>>

QueueInit == content = << >> /\ call.op = "Buffer" /\ got = << >>

(* What the bytes of a big-endian two's complement integer say: its residue    *)
(* modulo 256^n, for the one integer of n bytes that has it.                    *)
StandsFor(bytes, x) ==
    LET n == Len(bytes)
        weighed == [i \in 1..n |-> bytes[i] * 256^(n - i)]
        sum[i \in 0..n] == IF i = 0 THEN 0 ELSE sum[i - 1] + weighed[i]
    IN  /\ \A i \in 1..n : bytes[i] \in 0..255
        /\ 2 * x >= -(256^n) /\ 2 * x < 256^n
        /\ x % 256^n = sum[n]

(* append, readFd: exactly these bytes come behind what was there. *)
PutBack(bytes) == content' = content \o bytes /\ got' = << >>

(* prepend: exactly these bytes come before what was there. *)
PutFront(bytes) == content' = bytes \o content /\ got' = << >>

(* appendIntNN, prependIntNN: the bytes that came stand for the integer. *)
PutIntegerBack(width, x) ==
    LET new == SubSeq(content', Len(content) + 1, Len(content) + width)
    IN  PutBack(new) /\ Len(new) = width /\ StandsFor(new, x)

PutIntegerFront(width, x) ==
    LET new == SubSeq(content', 1, width)
    IN  PutFront(new) /\ Len(new) = width /\ StandsFor(new, x)

(* retrieveAsString: the returned bytes are the n that left the front. *)
TakeFront(n) ==
    /\ n <= Len(content)
    /\ got' = SubSeq(content, 1, n)
    /\ content' = SubSeq(content, n + 1, Len(content))

(* readIntNN: the returned integer is the one the departed bytes stand for. *)
TakeInteger(width) ==
    /\ width <= Len(content)
    /\ Len(got') = 1 /\ StandsFor(SubSeq(content, 1, width), got'[1])
    /\ content' = SubSeq(content, width + 1, Len(content))

(* unwrite: the last n bytes go. *)
TakeBack(n) ==
    /\ n <= Len(content)
    /\ content' = SubSeq(content, 1, Len(content) - n)
    /\ got' = << >>

(* shrink, ensureWritableBytes: storage only. *)
Rearrange == content' = content /\ got' = << >>

(* Every step does what the operation called promises for its argument. *)
QueueNext ==
    \/ call'.op = "append" /\ PutBack(call'.arg)
    \/ call'.op = "readFd" /\ PutBack(call'.arg)
    \/ call'.op = "prepend" /\ PutFront(call'.arg)
    \/ call'.op = "appendInt" /\ PutIntegerBack(call'.arg[1], call'.arg[2])
    \/ call'.op = "prependInt" /\ PutIntegerFront(call'.arg[1], call'.arg[2])
    \/ call'.op = "retrieveAsString" /\ TakeFront(call'.arg)
    \/ call'.op = "readInt" /\ TakeInteger(call'.arg)
    \/ call'.op = "unwrite" /\ TakeBack(call'.arg)
    \/ call'.op = "ensureWritableBytes" /\ Rearrange
    \/ call'.op = "shrink" /\ Rearrange

QueueSpec == QueueInit /\ [][QueueNext]_queueVars
=============================================================================
