---------------------------- MODULE AsyncLogging -----------------------------
(***************************************************************************)
(* AsyncLogging of the Windows build: callers append lines to the current    *)
(* buffer; a thread swaps the full ones out and writes them to the log file. *)
(* The buffers are shared_ptrs, so a buffer has an identity and may be        *)
(* reached from two places.  A line is its number; a buffer holds fewer than  *)
(* LargeBuffer lines (`avail() > len`).                                       *)
(***************************************************************************)
EXTENDS Integers, Sequences, FiniteSets, SequencesExt

CONSTANTS
    LargeBuffer,      \* kLargeBuffer, in lines
    DropLimit,        \* 25 in the code
    MaxLines          \* bound: the lines appended

VARIABLES
    bufs,             \* the lines of each buffer
    currentBuffer, nextBuffer, buffers,
    newBuffer1, newBuffer2, bufferToWrite,
    logging,          \* running_
    backend,          \* what the logging thread does
    stopper,          \* what the thread that starts and stops it does
    file,             \* the lines in the log file, dropped ones marked 0
    appended,         \* how many lines callers appended
    fills,            \* how often append() found the current buffer full
    asyncFailed       \* an assert failed

asyncVars == <<bufs, currentBuffer, nextBuffer, buffers, newBuffer1, newBuffer2,
               bufferToWrite, logging, backend, stopper, file, appended, fills,
               asyncFailed>>

Null == 0

AsyncInit ==
    /\ bufs = << << >>, << >>, << >>, << >> >>
    /\ currentBuffer = 1 /\ nextBuffer = 2
    /\ newBuffer1 = 3 /\ newBuffer2 = 4
    /\ buffers = << >> /\ bufferToWrite = << >>
    /\ logging = FALSE
    /\ backend = "none"
    /\ stopper = "new"
    /\ file = << >>
    /\ appended = 0
    /\ fills = 0
    /\ asyncFailed = FALSE

(* FixedBuffer::append: a line that does not fit is not written. *)
Put(heap, id, line) ==
    IF Len(heap[id]) + 1 < LargeBuffer THEN [heap EXCEPT ![id] = Append(@, line)] ELSE heap

(* append(): nextBuffer_ is copied, not moved, and so is never null again. *)
asyncAppend ==
    /\ appended < MaxLines /\ ~asyncFailed
    /\ appended' = appended + 1
    /\ IF Len(bufs[currentBuffer]) + 1 < LargeBuffer
       THEN /\ bufs' = Put(bufs, currentBuffer, appended')
            /\ UNCHANGED <<currentBuffer, buffers, backend, fills>>
       ELSE /\ buffers' = Append(buffers, currentBuffer)
            /\ fills' = fills + 1
            /\ IF nextBuffer # Null
               THEN currentBuffer' = nextBuffer /\ bufs' = Put(bufs, nextBuffer, appended')
               ELSE /\ currentBuffer' = Len(bufs) + 1
                    /\ bufs' = Append(bufs, <<appended'>>)
            /\ backend' = IF backend = "waiting" THEN "swap" ELSE backend
    /\ UNCHANGED <<nextBuffer, newBuffer1, newBuffer2, bufferToWrite, logging, stopper,
                   file, asyncFailed>>

(* start(), which returns once the thread counted the latch down. *)
asyncStart ==
    /\ stopper = "new"
    /\ logging' = TRUE
    /\ stopper' = "latched"
    /\ backend' = "created"
    /\ UNCHANGED <<bufs, currentBuffer, nextBuffer, buffers, newBuffer1, newBuffer2,
                   bufferToWrite, file, appended, fills, asyncFailed>>

asyncLatch ==
    /\ backend = "created"
    /\ backend' = "loop"
    /\ stopper' = "running"
    /\ UNCHANGED <<bufs, currentBuffer, nextBuffer, buffers, newBuffer1, newBuffer2,
                   bufferToWrite, logging, file, appended, fills, asyncFailed>>

\* Broken variant: only notifies.
asyncStopNotify ==
    /\ stopper = "running"
    /\ backend' = IF backend = "waiting" THEN "swap" ELSE backend
    /\ stopper' = "joining"
    /\ UNCHANGED <<bufs, currentBuffer, nextBuffer, buffers, newBuffer1, newBuffer2,
                   bufferToWrite, logging, file, appended, fills, asyncFailed>>

(* stop(): running_, then notify_one, without the lock, then join. *)
asyncStop ==
    /\ stopper = "running"
    /\ logging' = FALSE
    /\ backend' = IF backend = "waiting" THEN "swap" ELSE backend
    /\ stopper' = "joining"
    /\ UNCHANGED <<bufs, currentBuffer, nextBuffer, buffers, newBuffer1, newBuffer2,
                   bufferToWrite, file, appended, fills, asyncFailed>>

asyncJoin ==
    /\ stopper = "joining" /\ backend = "exited"
    /\ stopper' = "done"
    /\ UNCHANGED <<bufs, currentBuffer, nextBuffer, buffers, newBuffer1, newBuffer2,
                   bufferToWrite, logging, backend, file, appended, fills, asyncFailed>>

(* The top of the loop: running_ and the three asserts. *)
threadFuncTop ==
    /\ backend = "loop" /\ ~asyncFailed
    /\ backend' = IF logging THEN "lock" ELSE "exited"
    /\ asyncFailed' = (logging /\ ~(/\ newBuffer1 # Null /\ bufs[newBuffer1] = << >>
                                    /\ newBuffer2 # Null /\ bufs[newBuffer2] = << >>
                                    /\ bufferToWrite = << >>))
    /\ UNCHANGED <<bufs, currentBuffer, nextBuffer, buffers, newBuffer1, newBuffer2,
                   bufferToWrite, logging, stopper, file, appended, fills>>

\* Broken variant: waits without a timeout.
threadFuncWaitForEver ==
    /\ ~asyncFailed
    /\ backend = "lock" /\ backend' = IF buffers = << >> THEN "waiting" ELSE "swap"
    /\ UNCHANGED <<bufs, currentBuffer, nextBuffer, buffers, newBuffer1, newBuffer2,
                   bufferToWrite, logging, stopper, file, appended, fills, asyncFailed>>

(* wait_for releases the lock; it ends by notify or after flushInterval_. *)
threadFuncWait ==
    /\ ~asyncFailed
    /\ \/ backend = "lock" /\ backend' = IF buffers = << >> THEN "waiting" ELSE "swap"
       \/ backend = "waiting" /\ backend' = "swap"
    /\ UNCHANGED <<bufs, currentBuffer, nextBuffer, buffers, newBuffer1, newBuffer2,
                   bufferToWrite, logging, stopper, file, appended, fills, asyncFailed>>

\* Broken variant: leaves buffers_ filled.
threadFuncCopy ==
    /\ backend = "swap" /\ ~asyncFailed
    /\ bufferToWrite' = Append(buffers, currentBuffer)
    /\ currentBuffer' = newBuffer1
    /\ newBuffer1' = Null
    /\ nextBuffer' = IF nextBuffer = Null THEN newBuffer2 ELSE nextBuffer
    /\ newBuffer2' = IF nextBuffer = Null THEN Null ELSE newBuffer2
    /\ backend' = "write"
    /\ UNCHANGED <<bufs, buffers, logging, stopper, file, appended, fills, asyncFailed>>

(* The rest of the section that holds the lock. *)
threadFuncSwap ==
    /\ backend = "swap" /\ ~asyncFailed
    /\ bufferToWrite' = Append(buffers, currentBuffer)
    /\ buffers' = << >>
    /\ currentBuffer' = newBuffer1
    /\ newBuffer1' = Null
    /\ nextBuffer' = IF nextBuffer = Null THEN newBuffer2 ELSE nextBuffer
    /\ newBuffer2' = IF nextBuffer = Null THEN Null ELSE newBuffer2
    /\ backend' = "write"
    /\ UNCHANGED <<bufs, logging, stopper, file, appended, fills, asyncFailed>>

Contents(ids) == FlattenSeq([i \in DOMAIN ids |-> bufs[ids[i]]])

\* Broken variant: does not reset the buffer it takes back.
threadFuncWriteOnly ==
    /\ backend = "write" /\ ~asyncFailed
    /\ file' = file \o Contents(bufferToWrite)
    /\ newBuffer1' = Last(bufferToWrite)
    /\ bufferToWrite' = << >>
    /\ backend' = "loop"
    /\ UNCHANGED <<bufs, newBuffer2, currentBuffer, nextBuffer, buffers, logging, stopper,
                   appended, fills, asyncFailed>>

(* After the lock: drop, write, and take two buffers back for the next round. *)
threadFuncWrite ==
    LET kept  == IF Len(bufferToWrite) > DropLimit
                 THEN SubSeq(bufferToWrite, 1, 2) ELSE bufferToWrite
        short == IF Len(kept) > 2 THEN SubSeq(kept, 1, 2) ELSE kept
        rest  == Front(short)            \* newBuffer1 is always null here
        back1 == Last(short)
        heap1 == [bufs EXCEPT ![back1] = << >>]
    IN  /\ backend = "write" /\ ~asyncFailed
        /\ file' = file \o (IF kept = bufferToWrite THEN << >> ELSE <<0>>) \o Contents(kept)
        /\ newBuffer1' = back1
        /\ IF newBuffer2 # Null
           THEN newBuffer2' = newBuffer2 /\ bufs' = heap1
           ELSE newBuffer2' = Last(rest) /\ bufs' = [heap1 EXCEPT ![Last(rest)] = << >>]
        /\ bufferToWrite' = << >>
        /\ backend' = "loop"
        /\ UNCHANGED <<currentBuffer, nextBuffer, buffers, logging, stopper, appended,
                       fills, asyncFailed>>

BackendNext == asyncLatch \/ threadFuncTop \/ threadFuncWait \/ threadFuncSwap \/ threadFuncWrite

AsyncNext == asyncAppend \/ asyncStart \/ asyncStop \/ asyncJoin \/ BackendNext

(* The logging thread runs and the caller of stop() joins it. *)
AsyncFairness == WF_asyncVars(BackendNext) /\ WF_asyncVars(asyncJoin)

AsyncSpec == AsyncInit /\ [][AsyncNext]_asyncVars /\ AsyncFairness

-----------------------------------------------------------------------------
(* While append() has found the current buffer full at most once, every line   *)
(* is in exactly one place, in order: written, being written, or buffered.      *)
(* From the second time on nextBuffer_ is a buffer that is also in use          *)
(* elsewhere.                                                                    *)
LinesKept ==
    fills < 2 =>
        file \o Contents(bufferToWrite) \o Contents(buffers) \o bufs[currentBuffer]
            = [i \in 1..appended |-> i]

(* assert(newBuffer1 && newBuffer1->length() == 0) and the two that follow it    *)
(* hold until append() has found the current buffer full twice.                  *)
BackendAssertsHold == asyncFailed => fills >= 2

(* A line reaches the file, unless logging is stopped first.                     *)
LineIsWritten ==
    (appended >= 1 /\ logging) ~> (Contains(file, 1) \/ ~logging \/ fills >= 2)

(* stop() returns: the thread never sleeps through it for good.                  *)
LogStopReturns == (stopper = "joining") ~> (stopper = "done" \/ fills >= 2)

(* No line is lost, doubled or reordered between the front end and the file, and  *)
(* the back end finds its spare buffers empty, up to the second full buffer.       *)
LogIsSound == LinesKept /\ BackendAssertsHold

(* Lines are written although nothing fills a buffer, and stop() returns.          *)
LogAnswers == LineIsWritten /\ LogStopReturns
=============================================================================
