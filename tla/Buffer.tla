------------------------------- MODULE Buffer --------------------------------
(***************************************************************************)
(* net::Buffer: one vector of bytes and two indices into it,                *)
(*                                                                          *)
(*   0 <= readerIndex <= writerIndex <= size,                               *)
(*                                                                          *)
(* in the two builds of this repository.  The Windows one differs in        *)
(* ensureWritableBytes and makeSpace, and has its asserts commented out.    *)
(* A caller keeps the documented preconditions, which are the guards here.  *)
(* Position i of the vector is buffer[i + 1].  `overrun` records a write    *)
(* past the end of the vector; nothing is said after one.  `call` is the    *)
(* last call with its argument, `got` what it returned.                     *)
(***************************************************************************)
EXTENDS Integers, Sequences

CONSTANTS
    kCheapPrepend, kInitialSize,  \* 8 and 1024 in the code
    ExtraBuf,                     \* 65536 in the code
    BufferBytes, BufferInts,      \* the first bytes and the integers written
    MaxPiece,                     \* bound: bytes of one append, prepend or read
    MaxVector,                    \* bound: the size of the vector
    BufferBuilds                  \* a subset of {"linux", "win"}

ASSUME BufferAssumption ==
    /\ kCheapPrepend \in Nat /\ kInitialSize \in Nat /\ ExtraBuf \in Nat
    /\ MaxPiece \in Nat /\ MaxVector \in Nat
    /\ BufferBytes \subseteq 0..255
    /\ BufferBuilds \subseteq {"linux", "win"}

VARIABLES build, buffer, readerIndex, writerIndex, call, got, overrun

bufferVars == <<build, buffer, readerIndex, writerIndex, call, got, overrun>>

(* Pieces of up to MaxPiece bytes, all different: what comes out of order shows. *)
Pieces == {[i \in 1..n |-> (b + i - 1) % 256] : b \in BufferBytes, n \in 0..MaxPiece}

-----------------------------------------------------------------------------
(* A buffer as a value: its vector and its two indices. *)

This == [vec |-> buffer, r |-> readerIndex, w |-> writerIndex]

Zeros(n) == [i \in 1..n |-> 0]

Buffer(initialSize) ==
    [vec |-> Zeros(kCheapPrepend + initialSize), r |-> kCheapPrepend,
     w |-> kCheapPrepend]

readableBytes(b) == b.w - b.r
writableBytes(b) == Len(b.vec) - b.w
prependableBytes(b) == b.r

Readable(b) == SubSeq(b.vec, b.r + 1, b.w)

(* std::vector::resize *)
Resized(vec, n) == [i \in 1..n |-> IF i <= Len(vec) THEN vec[i] ELSE 0]

(* std::copy of `src` to position `at`; what falls outside is lost here. *)
Copied(vec, at, src) ==
    [i \in 1..Len(vec) |->
        IF at < i /\ i <= at + Len(src) THEN src[i - at] ELSE vec[i]]

makeSpaceLinux(b, len) ==
    IF writableBytes(b) + prependableBytes(b) < len + kCheapPrepend
    THEN [b EXCEPT !.vec = Resized(b.vec, b.w + len)]
    ELSE [vec |-> Copied(b.vec, kCheapPrepend, Readable(b)),
          r |-> kCheapPrepend, w |-> kCheapPrepend + readableBytes(b)]

(* The copy starts at readableBytes(), not at readerIndex_. *)
makeSpaceWin(b, len) ==
    IF writableBytes(b) + prependableBytes(b) < len + kCheapPrepend
    THEN [b EXCEPT !.vec = Resized(b.vec, b.w + len)]
    ELSE [vec |-> Copied(b.vec, kCheapPrepend,
                         SubSeq(b.vec, readableBytes(b) + 1, b.w)),
          r |-> kCheapPrepend, w |-> kCheapPrepend + readableBytes(b)]

\* Broken variant: never makes space.
ensureWritableBytesNot(b, len) == b

ensureWritableBytesLinux(b, len) ==
    IF writableBytes(b) < len THEN makeSpaceLinux(b, len) ELSE b

(* The comparison is with writerIndex_, not with writableBytes(). *)
ensureWritableBytesWin(b, len) ==
    IF b.w < len THEN makeSpaceWin(b, len) ELSE b

ensureWritableBytes(b, len) ==
    IF build = "linux" THEN ensureWritableBytesLinux(b, len)
                       ELSE ensureWritableBytesWin(b, len)

\* Broken variant: copies to where the writer index was before space was made.
appendedStale(b, data) ==
    LET e == ensureWritableBytes(b, Len(data))
    IN  [e EXCEPT !.vec = Copied(e.vec, b.w, data), !.w = e.w + Len(data)]

(* append: ensureWritableBytes, copy, hasWritten. *)
appended(b, data) ==
    LET e == ensureWritableBytes(b, Len(data))
    IN  [e EXCEPT !.vec = Copied(e.vec, e.w, data), !.w = e.w + Len(data)]

\* Broken variant: keeps the writer index when everything is retrieved.
retrievedReaderOnly(b, len) ==
    IF len < readableBytes(b)
    THEN [b EXCEPT !.r = b.r + len]
    ELSE [b EXCEPT !.r = kCheapPrepend]

retrieved(b, len) ==
    IF len < readableBytes(b)
    THEN [b EXCEPT !.r = b.r + len]
    ELSE [b EXCEPT !.r = kCheapPrepend, !.w = kCheapPrepend]

prepended(b, data) ==
    [b EXCEPT !.r = b.r - Len(data),
              !.vec = Copied(b.vec, b.r - Len(data), data)]

(* hostToNetwork and networkToHost with memcpy: big-endian two's complement, *)
(* of one or two bytes here.                                                 *)
BigEndian(width, x) ==
    IF width = 1 THEN <<x % 256>> ELSE <<(x \div 256) % 256, x % 256>>

Unsigned(bytes) ==
    IF Len(bytes) = 1 THEN bytes[1] ELSE 256 * bytes[1] + bytes[2]

Signed(bytes) ==
    IF bytes[1] < 128 THEN Unsigned(bytes)
    ELSE Unsigned(bytes) - (IF Len(bytes) = 1 THEN 256 ELSE 65536)

Widths == {1, 2}

-----------------------------------------------------------------------------
Become(b, op, arg, result) ==
    /\ buffer' = b.vec
    /\ readerIndex' = b.r
    /\ writerIndex' = b.w
    /\ overrun' = (b.w > Len(b.vec))
    /\ call' = [op |-> op, arg |-> arg]
    /\ got' = result
    /\ UNCHANGED build

BufferInit ==
    /\ build \in BufferBuilds
    /\ buffer = Buffer(kInitialSize).vec
    /\ readerIndex = kCheapPrepend
    /\ writerIndex = kCheapPrepend
    /\ call = [op |-> "Buffer", arg |-> kInitialSize]
    /\ got = << >>
    /\ overrun = FALSE

(* The bound on the vector, so that TLC ends. *)
Bounded(len) == Len(buffer) + len <= MaxVector

append(data) ==
    /\ ~overrun /\ Bounded(Len(data))
    /\ Become(appended(This, data), "append", data, << >>)

appendInt(width, x) ==
    /\ ~overrun /\ Bounded(width)
    /\ Become(appended(This, BigEndian(width, x)), "appendInt", <<width, x>>, << >>)

ensureWritable(len) ==
    /\ ~overrun /\ Bounded(len)
    /\ Become(ensureWritableBytes(This, len), "ensureWritableBytes", len, << >>)

retrieveAsString(len) ==
    /\ ~overrun
    /\ len <= readableBytes(This)
    /\ Become(retrieved(This, len), "retrieveAsString", len,
              SubSeq(buffer, readerIndex + 1, readerIndex + len))

readInt(width) ==
    /\ ~overrun
    /\ readableBytes(This) >= width
    /\ Become(retrieved(This, width), "readInt", width,
              <<Signed(SubSeq(buffer, readerIndex + 1, readerIndex + width))>>)

unwrite(len) ==
    /\ ~overrun
    /\ len <= readableBytes(This)
    /\ Become([This EXCEPT !.w = writerIndex - len], "unwrite", len, << >>)

prepend(data) ==
    /\ ~overrun
    /\ Len(data) <= prependableBytes(This)
    /\ Become(prepended(This, data), "prepend", data, << >>)

prependInt(width, x) ==
    /\ ~overrun
    /\ width <= prependableBytes(This)
    /\ Become(prepended(This, BigEndian(width, x)), "prependInt", <<width, x>>, << >>)

(* shrink: a fresh buffer with room for the bytes and the reserve, then swap. *)
shrink(reserve) ==
    /\ ~overrun /\ kCheapPrepend + readableBytes(This) + reserve <= MaxVector
    /\ LET other == ensureWritableBytes(Buffer(kInitialSize),
                                        readableBytes(This) + reserve)
       IN  Become(appended(other, Readable(This)), "shrink", reserve, << >>)

(* readv fills the writable bytes, then extrabuf (offered only if the buffer  *)
(* has less room than extrabuf); `data` is what the kernel had.               *)
readFd(data) ==
    LET writable == writableBytes(This)
        room     == IF writable < ExtraBuf THEN writable + ExtraBuf ELSE writable
        inPlace  == [This EXCEPT !.vec = Copied(buffer, writerIndex, data),
                                 !.w = writerIndex + Len(data)]
        full     == [This EXCEPT
                        !.vec = Copied(buffer, writerIndex, SubSeq(data, 1, writable)),
                        !.w = Len(buffer)]
    IN  /\ ~overrun /\ Bounded(Len(data))
        /\ Len(data) <= room
        /\ Become(IF Len(data) <= writable THEN inPlace
                  ELSE appended(full, SubSeq(data, writable + 1, Len(data))),
                  "readFd", data, << >>)

BufferNext ==
    \/ \E data \in Pieces : append(data) \/ prepend(data) \/ readFd(data)
    \/ \E width \in Widths, x \in BufferInts :
            appendInt(width, x) \/ prependInt(width, x)
    \/ \E width \in Widths : readInt(width)
    \/ \E len \in 0..MaxVector : retrieveAsString(len) \/ unwrite(len)
    \/ \E len \in 0..MaxPiece : ensureWritable(len) \/ shrink(len)

BufferSpec == BufferInit /\ [][BufferNext]_bufferVars

-----------------------------------------------------------------------------
(* The picture above class Buffer: the indices stay in order and inside the  *)
(* vector, whatever the callers append, prepend, retrieve and read.          *)
IndicesOrdered ==
    0 <= readerIndex /\ readerIndex <= writerIndex /\ writerIndex <= Len(buffer)

(* Buffer is a byte queue: whatever moves and resizes happen in between, the  *)
(* readable bytes are exactly those put in and not yet taken, in order, and    *)
(* every read returns the bytes, or the integer, at the front.                 *)
Queue == INSTANCE ByteQueue WITH content <- Readable(This)
BufferIsQueue == Queue!QueueSpec
=============================================================================
