------------------------ MODULE TcpConnectionProofs --------------------------
(***************************************************************************)
(* What holds of a TcpConnection for any threads, any calls of theirs, any *)
(* length of the messages and any prefix the socket takes: OutputIsKept,   *)
(* TcpAssertsHold and SentIsNotLost.                                       *)
(*                                                                         *)
(* The output path (OutInv): the channel waits for writability only with   *)
(* bytes buffered, and whenever bytes are buffered on a connection its     *)
(* owner still holds. That needs the life of the connection as well: a     *)
(* connection that its owner holds is not kDisconnected, so no thread's    *)
(* stale test can have overwritten that state, and its connectDestroyed()  *)
(* is not queued yet.                                                      *)
(*                                                                         *)
(* The asserts (LifeInv): once the owner has let go the connection is      *)
(* closed and watches nothing, and a functor that holds no reference runs  *)
(* before connectDestroyed(), which does; or one of the races that         *)
(* TcpAssertsHold names has happened.                                      *)
(*                                                                         *)
(* The messages (SentInv): a thread that shut down sends no more, since it *)
(* finds the connection no longer kConnected, so a sendInLoop() is behind  *)
(* a shutdownInLoop() of another only.                                     *)
(***************************************************************************)
EXTENDS TcpConnection, SequenceTheorems, TLAPS

Byte == Nat \X Nat
FunctorNames ==
    Shared \union {"sendInLoop", "shutdownInLoop", "startReadInLoop", "stopReadInLoop"}
TcpFunctor == FunctorNames \X Nat

TcpStates == {"kConnecting", "kConnected", "kDisconnecting", "kDisconnected"}

OutTypeOK ==
    /\ tcpState \in TcpStates
    /\ events \subseteq {"read", "write"}
    /\ outputBuffer \in Seq(Byte) /\ wire \in Seq(Byte) /\ accepted \in Seq(Byte)
    /\ sent \in Seq(TcpThreads)
    /\ owned \in BOOLEAN

\* Until connectEstablished() has run nothing else can happen.
NotYetUp ==
    tcpState = "kConnecting" =>
        /\ functors = <<<<"connectEstablished", 0>>>>
        /\ outputBuffer = << >> /\ events = {} /\ shutWrite = "no" /\ delayed = 0
        /\ holds = {} /\ \A t \in OtherThreads : call[t] = "none"
        /\ owned /\ ~freed /\ "overwritten" \notin hazards

None(name, fs) == \A i \in DOMAIN fs : fs[i][1] # name

\* connectEstablished() is queued once, connectDestroyed() not before the owner lets
\* go.
Listed(fs, own) ==
    /\ fs \in Seq(TcpFunctor)
    /\ None("connectEstablished", fs)
    /\ own => None("connectDestroyed", fs)

\* The owner has let go before anything that ends the connection for good.
OwnedIsAlive == owned => tcpState # "kDisconnected" /\ "overwritten" \notin hazards

\* Writability is waited for only with bytes to write.
WritesOnlyPending == "write" \in events => outputBuffer # << >>

OutInv ==
    /\ OutTypeOK /\ NotYetUp /\ OwnedIsAlive
    /\ tcpState # "kConnecting" => Listed(functors, owned)
    /\ WritesOnlyPending /\ OutputIsKept

-----------------------------------------------------------------------------
(* Sequences *)

\* A piece that goes to the wire and the rest that stays buffered.
LEMMA SplitStays ==
    ASSUME NEW S, NEW b \in Seq(S), NEW n \in 0 .. Len(b)
    PROVE  /\ SubSeq(b, 1, n) \in Seq(S) /\ SubSeq(b, n + 1, Len(b)) \in Seq(S)
           /\ SubSeq(b, 1, n) \o SubSeq(b, n + 1, Len(b)) = b
           /\ (SubSeq(b, n + 1, Len(b)) = << >>) <=> (n = Len(b))
<1>1. Len(b) \in Nat /\ \A i \in 1 .. Len(b) : b[i] \in S
  BY LenProperties, ElementOfSeq
<1>2. SubSeq(b, 1, n) \in Seq(S)
  BY <1>1, SubSeqProperties
<1>3. /\ SubSeq(b, n + 1, Len(b)) \in Seq(S)
      /\ Len(SubSeq(b, n + 1, Len(b))) = IF n + 1 <= Len(b) THEN Len(b) - (n + 1) + 1 ELSE 0
  BY <1>1, SubSeqProperties
<1>4. SubSeq(b, 1, n) \o SubSeq(b, n + 1, Len(b)) = SubSeq(b, 1, Len(b))
  <2>1. 1 \in 1 .. Len(b) + 1 /\ n \in 1 - 1 .. Len(b) /\ Len(b) \in n .. Len(b)
    BY <1>1
  <2> QED  BY Zenon, <2>1, ConcatAdjacentSubSeq
<1>5. (SubSeq(b, n + 1, Len(b)) = << >>) <=> (n = Len(b))
  <2> DEFINE back == SubSeq(b, n + 1, Len(b))
  <2>1. back = << >> <=> Len(back) = 0
    BY Zenon, <1>3, EmptySeq
  <2> HIDE DEF back
  <2>2. Len(back) = 0 <=> n = Len(b)
    BY <1>1, <1>3 DEF back
  <2> QED  BY <2>1, <2>2 DEF back
<1> QED  BY Zenon, <1>2, <1>3, <1>4, <1>5, SubSeqFull

\* Running the first functor, and queueing another.
LEMMA TailListed ==
    ASSUME NEW fs, NEW own \in BOOLEAN, Listed(fs, own), fs # << >>
    PROVE  Listed(Tail(fs), own) /\ Head(fs) = fs[1] /\ 1 \in DOMAIN fs /\ Head(fs) \in TcpFunctor
<1>1. /\ fs \in Seq(TcpFunctor) /\ Tail(fs) \in Seq(TcpFunctor) /\ Head(fs) \in TcpFunctor
      /\ Len(Tail(fs)) = Len(fs) - 1 /\ Len(fs) \in Nat \ {0}
      /\ \A i \in 1 .. Len(Tail(fs)) : Tail(fs)[i] = fs[i + 1]
  BY HeadTailProperties, LenProperties, EmptySeq DEF Listed
<1>2. DOMAIN fs = 1 .. Len(fs) /\ DOMAIN Tail(fs) = 1 .. Len(Tail(fs))
  BY <1>1, LenProperties
<1>3. \A i \in DOMAIN Tail(fs) : i + 1 \in DOMAIN fs /\ Tail(fs)[i] = fs[i + 1]
  BY <1>1, <1>2
<1>4. Head(fs) = fs[1] /\ 1 \in DOMAIN fs
  BY <1>1, <1>2
<1> QED  BY <1>1, <1>3, <1>4 DEF Listed, None

\* A functor pushed behind the queue keeps the list sound.
LEMMA AppendListed ==
    ASSUME NEW fs, NEW own \in BOOLEAN, Listed(fs, own), NEW f \in TcpFunctor,
           f[1] # "connectEstablished", own => f[1] # "connectDestroyed"
    PROVE  Listed(Append(fs, f), own)
<1>1. /\ Append(fs, f) \in Seq(TcpFunctor) /\ Len(fs) \in Nat
      /\ Len(Append(fs, f)) = Len(fs) + 1
      /\ \A i \in 1 .. Len(fs) : Append(fs, f)[i] = fs[i]
      /\ Append(fs, f)[Len(fs) + 1] = f
  BY AppendProperties, LenProperties DEF Listed
<1>2. DOMAIN fs = 1 .. Len(fs) /\ DOMAIN Append(fs, f) = 1 .. Len(Append(fs, f))
  BY <1>1, LenProperties DEF Listed
<1>3. \A i \in DOMAIN Append(fs, f) :
          (i \in DOMAIN fs /\ Append(fs, f)[i] = fs[i]) \/ Append(fs, f)[i] = f
  BY <1>1, <1>2
<1> QED  BY <1>1, <1>3 DEF Listed, None

\* A message is a sequence of MessageLength bytes.
LEMMA BytesAreSeq ==
    ASSUME NEW m \in Nat
    PROVE  Bytes(m) \in Seq(Byte) /\ Len(Bytes(m)) = MessageLength
  BY TcpAssumption DEF Bytes, Byte

-----------------------------------------------------------------------------
(* Steps that leave the output path alone *)

\* Only connectEstablished() runs first, and nothing leads back before it.
LEMMA FirstIsEstablished ==
    ASSUME OutInv, TcpNext
    PROVE  \/ RunEstablished /\ tcpState = "kConnecting"
           \/ tcpState # "kConnecting" /\ ~RunEstablished
<1>1. CASE tcpState = "kConnecting"
  <2>1. /\ functors = <<<<"connectEstablished", 0>>>> /\ events = {} /\ delayed = 0
        /\ holds = {} /\ ~freed /\ \A t \in OtherThreads : call[t] = "none"
    BY <1>1 DEF OutInv, NotYetUp
  <2>2. Head1 = "connectEstablished"
    BY <2>1 DEF Head1
  <2>3. ~(RunSend \/ RunShutdown \/ RunReading \/ RunForceClose)
    BY <2>2 DEF RunSend, RunShutdown, RunReading, RunForceClose, TcpRuns
  <2>4. ~(RunUserCallback \/ RunDestroyed \/ RunDangling)
    BY <2>1, <2>2 DEF RunUserCallback, RunDestroyed, RunDangling, TcpRuns
  <2>5. ~(handleRead \/ HangUp \/ PeerResets \/ handleWrite \/ DelayOver \/ OwnerGoes)
    BY <1>1, <2>1 DEF handleRead, HangUp, PeerResets, handleWrite, DelayOver, OwnerGoes
  <2>6. ~(LoopSend \/ LoopShutdown \/ LoopForceClose \/ LoopReading)
    BY <1>1 DEF LoopSend, LoopShutdown, LoopForceClose, LoopReading, Up
  <2>7. ASSUME NEW t \in OtherThreads
        PROVE  ~(CallSend(t) \/ CallOther(t) \/ CallReading(t) \/ Release(t))
    BY <2>1 DEF CallSend, CallOther, CallReading, Release, TestState, MayCall
  <2>8. ASSUME NEW t \in OtherThreads
        PROVE  ~(QueueSend(t) \/ WriteState(t))
    BY <2>1 DEF QueueSend, WriteState
  <2> QED
    BY <1>1, <2>3, <2>4, <2>5, <2>6, <2>7, <2>8, Zenon DEF TcpNext, RunFunctor
<1>2. CASE tcpState # "kConnecting"
  <2>1. Listed(functors, owned)
    BY <1>2 DEF OutInv
  <2>2. functors # << >> => Head1 # "connectEstablished"
    BY <2>1, TailListed DEF Head1, Listed, None, OutInv, OutTypeOK
  <2> QED  BY <1>2, <2>2 DEF RunEstablished, TcpRuns
<1> QED  BY <1>1, <1>2

\* A step that leaves the stream alone and the list sound keeps the invariant.
LEMMA Steady ==
    ASSUME OutInv, tcpState # "kConnecting", tcpFailed = "no",
           UNCHANGED <<outputBuffer, wire, accepted, shutWrite, owned>>,
           events' \subseteq {"read", "write"}, "write" \in events' <=> "write" \in events,
           \/ tcpState' = tcpState
           \/ tcpState' = "kDisconnecting" /\ (tcpState \in Up \/ "overwritten" \in hazards'),
           "overwritten" \in hazards => "overwritten" \in hazards',
           owned /\ "overwritten" \in hazards' => "overwritten" \in hazards,
           sent' \in Seq(TcpThreads), Listed(functors', owned)
    PROVE  OutInv'
<1> USE DEF OutInv
<1>1. OutTypeOK'
  BY DEF OutTypeOK, TcpStates
<1>2. NotYetUp' /\ OwnedIsAlive'
  BY DEF NotYetUp, OwnedIsAlive
<1>3. WritesOnlyPending' /\ StreamInOrder' /\ ShutdownDrains'
  BY DEF WritesOnlyPending, OutputIsKept, StreamInOrder, ShutdownDrains
<1>4. WritesWhilePending'
  BY DEF OutputIsKept, WritesWhilePending, Up
<1>5. Listed(functors', owned')
  OBVIOUS
<1> QED  BY <1>1, <1>2, <1>3, <1>4, <1>5 DEF OutputIsKept

\* Callbacks of the application, and functors and timers that only queue.
LEMMA QuietKeeps ==
    ASSUME OutInv, tcpState # "kConnecting",
           RunUserCallback \/ RunDangling \/ RunReading \/ DelayOver \/ LoopForceClose \/ LoopReading
    PROVE  OutInv'
<1> USE DEF OutInv
<1>0. Listed(functors, owned) /\ owned \in BOOLEAN /\ sent \in Seq(TcpThreads)
  BY DEF OutTypeOK
<1>1. functors # << >> => Listed(Rest, owned)
  BY <1>0, TailListed DEF Rest
<1>2. Listed(Append(functors, <<"forceCloseInLoop", 0>>), owned)
  <2>1. <<"forceCloseInLoop", 0>> \in TcpFunctor
    BY DEF TcpFunctor, FunctorNames, Shared
  <2> QED  BY <1>0, <2>1, AppendListed
<1>3. CASE RunUserCallback \/ RunDangling
  BY Zenon, <1>0, <1>1, <1>3, Steady
  DEF RunUserCallback, RunDangling, TcpRuns, Going, streamVars, lifeVars, OutTypeOK
<1>4. CASE RunReading \/ LoopReading
  <2>1. /\ events' \subseteq {"read", "write"} /\ ("write" \in events' <=> "write" \in events)
        /\ "overwritten" \in hazards' <=> "overwritten" \in hazards
    BY Zenon, <1>4 DEF RunReading, LoopReading, startReadInLoop, stopReadInLoop, OutTypeOK
  <2>2. /\ UNCHANGED <<outputBuffer, wire, accepted, shutWrite, owned, tcpState, sent>>
        /\ Listed(functors', owned) /\ tcpFailed = "no"
    BY <1>0, <1>1, <1>4 DEF RunReading, LoopReading, TcpRuns, Going, streamVars, lifeVars
  <2> QED  BY <1>0, <2>1, <2>2, Steady
<1>5. CASE DelayOver \/ LoopForceClose
  <2>1. /\ UNCHANGED <<outputBuffer, wire, accepted, shutWrite, owned, events, hazards, sent>>
        /\ tcpFailed = "no"
    BY <1>5 DEF DelayOver, LoopForceClose, Going, streamVars
  <2>2. functors' \in {functors, Append(functors, <<"forceCloseInLoop", 0>>)}
    BY <1>5 DEF DelayOver, LoopForceClose, forceClose
  <2>3. tcpState' = tcpState \/ (tcpState' = "kDisconnecting" /\ tcpState \in Up)
    BY <1>5 DEF DelayOver, LoopForceClose, forceClose
  <2>4. Listed(functors', owned)
    BY Zenon, <1>0, <1>2, <2>2
  <2> QED  BY <1>0, <2>1, <2>3, <2>4, Steady DEF OutTypeOK
<1> QED  BY <1>3, <1>4, <1>5

\* What other threads do: test state_, write it, queue a functor, let go.
LEMMA ThreadsKeep ==
    ASSUME OutInv, tcpState # "kConnecting", NEW t \in OtherThreads,
           \/ CallSend(t) \/ QueueSend(t) \/ CallOther(t) \/ WriteState(t)
           \/ CallReading(t) \/ Release(t)
    PROVE  OutInv'
<1> USE DEF OutInv
<1>0. /\ Listed(functors, owned) /\ owned \in BOOLEAN /\ sent \in Seq(TcpThreads)
      /\ events \subseteq {"read", "write"}
  BY DEF OutTypeOK
<1>1. ASSUME NEW name \in {"sendInLoop", "shutdownInLoop", "forceCloseInLoop",
                           "startReadInLoop", "stopReadInLoop"}, NEW m \in Nat
      PROVE  Listed(Append(functors, <<name, m>>), owned)
  <2>1. <<name, m>> \in TcpFunctor /\ <<name, m>>[1] = name
    BY DEF TcpFunctor, FunctorNames, Shared
  <2> QED  BY <1>0, <2>1, AppendListed
<1>2. CASE CallSend(t) \/ CallOther(t) \/ Release(t)
  <2>1. /\ UNCHANGED <<outputBuffer, wire, accepted, shutWrite, owned, events, hazards,
                       functors, tcpState>>
        /\ tcpFailed = "no"
    BY <1>2 DEF CallSend, CallOther, Release, TestState, MayCall, Going, streamVars, lifeVars
  <2>2. sent' = sent \/ sent' = Append(sent, t)
    BY <1>2 DEF CallSend, CallOther, Release
  <2>3. sent' \in Seq(TcpThreads)
    BY <1>0, <2>2, AppendProperties DEF TcpThreads
  <2> QED  BY <1>0, <2>1, <2>3, Steady
<1>3. CASE QueueSend(t)
  <2>1. PICK m \in DOMAIN sent : functors' = Append(functors, <<"sendInLoop", m>>)
    BY <1>3 DEF QueueSend
  <2>2. m \in Nat
    BY <1>0, LenProperties
  <2>3. /\ UNCHANGED <<outputBuffer, wire, accepted, shutWrite, owned, events, tcpState, sent>>
        /\ tcpFailed = "no" /\ ("overwritten" \in hazards' <=> "overwritten" \in hazards)
    BY <1>3 DEF QueueSend, Going, streamVars, lifeVars, LateCall
  <2> QED  BY <1>0, <1>1, <2>1, <2>2, <2>3, Steady
<1>4. CASE CallReading(t)
  <2>1. /\ UNCHANGED <<outputBuffer, wire, accepted, shutWrite, owned, events, tcpState, sent>>
        /\ tcpFailed = "no" /\ ("overwritten" \in hazards' <=> "overwritten" \in hazards)
    BY <1>4 DEF CallReading, MayCall, Going, streamVars, lifeVars, LateCall
  <2>2. Listed(functors', owned)
    BY Zenon, <1>1, <1>4 DEF CallReading
  <2> QED  BY <1>0, <2>1, <2>2, Steady
<1>5. CASE WriteState(t)
  <2>1. /\ UNCHANGED <<outputBuffer, wire, accepted, shutWrite, owned, events, sent>>
        /\ tcpFailed = "no" /\ tcpState' = "kDisconnecting"
    BY <1>5 DEF WriteState, Going, streamVars
  <2>2. /\ "overwritten" \in hazards' <=> "overwritten" \in hazards \/ tcpState = "kDisconnected"
        /\ owned => tcpState # "kDisconnected"
    BY <1>5 DEF WriteState, LateCall, OwnedIsAlive
  <2>3. tcpState \in Up \/ "overwritten" \in hazards'
    BY <2>2 DEF OutTypeOK, TcpStates, Up
  <2>4. functors' \in {functors, Append(functors, <<"shutdownInLoop", 0>>),
                       Append(functors, <<"forceCloseInLoop", 0>>)}
    BY <1>5 DEF WriteState
  <2>5. Listed(functors', owned)
    BY Zenon, <1>0, <1>1, <2>4
  <2> QED  BY <1>0, <2>1, <2>2, <2>3, <2>5, Steady
<1> QED  BY <1>2, <1>3, <1>4, <1>5

-----------------------------------------------------------------------------
(* The beginning and the end of the connection *)

\* connectEstablished().
LEMMA EstablishedKeeps ==
    ASSUME OutInv, RunEstablished, tcpState = "kConnecting"
    PROVE  OutInv'
<1> USE DEF OutInv
<1>0. Tail(<<<<"connectEstablished", 0>>>>) = << >>
  OBVIOUS
<1>1. /\ functors' = << >> /\ events' = {"read"} /\ tcpState' = "kConnected"
      /\ UNCHANGED <<outputBuffer, wire, accepted, shutWrite, owned, sent, hazards>>
      /\ outputBuffer = << >>
  BY Zenon, <1>0 DEF RunEstablished, NotYetUp, Rest, streamVars
<1>2. Listed(functors', owned')
  BY <1>1 DEF Listed, None
<1>3. OutTypeOK'
  BY <1>1 DEF OutTypeOK, TcpStates
<1>4. NotYetUp' /\ OwnedIsAlive' /\ WritesOnlyPending'
  BY <1>1 DEF NotYetUp, OwnedIsAlive, WritesOnlyPending
<1>5. OutputIsKept'
  BY <1>1 DEF OutputIsKept, StreamInOrder, WritesWhilePending, ShutdownDrains
<1> QED  BY <1>2, <1>3, <1>4, <1>5

\* handleClose() and connectDestroyed() leave no interest in writing and no owner.
LEMMA EndKeeps ==
    ASSUME OutInv, tcpState # "kConnecting", tcpFailed = "no",
           UNCHANGED <<outputBuffer, wire, accepted, shutWrite, sent>>,
           events' = {}, owned' = FALSE, Listed(functors', FALSE),
           \/ tcpState' = "kDisconnected"
           \/ tcpState' = tcpState /\ (events = {} \/ tcpFailed' # "no"),
           hazards \subseteq hazards'
    PROVE  OutInv'
<1> USE DEF OutInv
<1>1. OutTypeOK'
  BY Zenon DEF OutTypeOK, TcpStates
<1>2. NotYetUp' /\ OwnedIsAlive' /\ WritesOnlyPending'
  BY DEF NotYetUp, OwnedIsAlive, WritesOnlyPending
<1>3. StreamInOrder' /\ ShutdownDrains'
  BY DEF OutputIsKept, StreamInOrder, ShutdownDrains
<1>4. WritesWhilePending'
  BY DEF OutputIsKept, WritesWhilePending, Up
<1>5. Listed(functors', owned')
  BY Zenon
<1> QED  BY <1>1, <1>2, <1>3, <1>4, <1>5 DEF OutputIsKept

\* The list stays sound when the owner lets go.
LEMMA LetGo ==
    ASSUME NEW fs, NEW own, Listed(fs, own)
    PROVE  Listed(fs, FALSE)
  BY DEF Listed

\* handleClose(), whoever calls it.
LEMMA CloseKeeps ==
    ASSUME OutInv, tcpState # "kConnecting", RunForceClose \/ handleRead \/ HangUp
    PROVE  OutInv'
<1> USE DEF OutInv
<1>0. Listed(functors, owned) /\ owned \in BOOLEAN /\ sent \in Seq(TcpThreads)
  BY DEF OutTypeOK
<1>1. /\ UNCHANGED <<outputBuffer, wire, accepted, shutWrite, sent, hazards>>
      /\ tcpFailed = "no"
  BY DEF RunForceClose, handleRead, HangUp, TcpRuns, Going, streamVars
<1>2. PICK rest : /\ Listed(rest, owned)
                  /\ \/ handleClose(rest)
                     \/ functors' = rest /\ UNCHANGED <<tcpState, events, owned>>
  <2>1. CASE RunForceClose
    <3>1. functors # << >>
      BY <2>1 DEF RunForceClose, TcpRuns
    <3>2. Listed(Rest, owned)
      BY <1>0, <3>1, TailListed DEF Rest
    <3> QED  BY <2>1, <3>2 DEF RunForceClose
  <2>2. CASE handleRead \/ HangUp
    BY <1>0, <2>2 DEF handleRead, HangUp
  <2> QED  BY <2>1, <2>2
<1>3. CASE tcpState' = "kDisconnected" /\ events' = {} /\ owned' = FALSE
           /\ functors' = Append(rest, <<"connectDestroyed", 0>>)
  <2>1. <<"connectDestroyed", 0>> \in TcpFunctor /\ Listed(rest, FALSE)
    BY Zenon, <1>2, LetGo DEF TcpFunctor, FunctorNames, Shared
  <2>2. Listed(functors', FALSE)
    BY Zenon, <1>3, <2>1, AppendListed
  <2> QED  BY Zenon, <1>1, <1>3, <2>2, EndKeeps
<1>4. CASE functors' = rest /\ UNCHANGED <<tcpState, events, owned>>
  BY <1>0, <1>1, <1>2, <1>4, Steady DEF OutTypeOK
<1> QED  BY Zenon, <1>2, <1>3, <1>4 DEF handleClose

\* connectDestroyed(), queued or in place.
LEMMA DestroyedKeeps ==
    ASSUME OutInv, tcpState # "kConnecting", RunDestroyed \/ OwnerGoes
    PROVE  OutInv'
<1> USE DEF OutInv
<1>0. Listed(functors, owned) /\ owned \in BOOLEAN
  BY DEF OutTypeOK
<1>1. CASE RunDestroyed
  <2>1. functors # << >> /\ Head(functors)[1] = "connectDestroyed" /\ tcpFailed = "no"
    BY <1>1 DEF RunDestroyed, TcpRuns, Head1, Going
  <2>2. ~owned /\ Listed(Rest, FALSE)
    BY <1>0, <2>1, TailListed, LetGo DEF Listed, None, Rest
  <2>3. /\ UNCHANGED <<outputBuffer, wire, accepted, shutWrite, sent, owned, hazards>>
        /\ events' = {} /\ functors' = Rest
        /\ \/ tcpState' = "kDisconnected"
           \/ tcpState' = tcpState /\ (events = {} \/ tcpFailed' # "no")
    BY <1>1 DEF RunDestroyed, connectDestroyed, streamVars
  <2> QED  BY Zenon, <1>0, <2>1, <2>2, <2>3, EndKeeps
<1>2. CASE OwnerGoes
  <2>1. Listed(functors, FALSE)
    BY Zenon, <1>0, LetGo
  <2>2. /\ UNCHANGED <<outputBuffer, wire, accepted, shutWrite, sent, functors>>
        /\ events' = {} /\ owned' = FALSE /\ tcpFailed = "no" /\ hazards \subseteq hazards'
        /\ \/ tcpState' = "kDisconnected"
           \/ tcpState' = tcpState /\ (events = {} \/ tcpFailed' # "no")
    BY <1>2 DEF OwnerGoes, connectDestroyed, streamVars, Going
  <2> QED  BY Zenon, <2>1, <2>2, EndKeeps
<1> QED  BY <1>1, <1>2

-----------------------------------------------------------------------------
(* The output path *)

\* What the proofs use of concatenation.
Regroups(s, t, u) == (s \o t) \o u = s \o (t \o u)

\* Associativity, as a predicate of its own: see Regroups.
LEMMA Regrouped ==
    ASSUME NEW S, NEW s \in Seq(S), NEW t \in Seq(S), NEW u \in Seq(S)
    PROVE  Regroups(s, t, u)
<1>1. (s \o t) \o u = s \o (t \o u)
  BY SMTT(60)
<1> QED  BY <1>1 DEF Regroups

\* A concatenation is a sequence, empty only if both parts are.
LEMMA Joined ==
    ASSUME NEW S, NEW s \in Seq(S), NEW t \in Seq(S)
    PROVE  s \o t \in Seq(S) /\ ((s \o t = << >>) <=> (s = << >> /\ t = << >>))
  BY SMTT(60)

\* On a connection its owner holds, bytes are buffered exactly while the channel
\* waits for writability.
LEMMA OwnedWrites ==
    ASSUME OutInv, tcpState # "kConnecting", tcpFailed = "no", owned
    PROVE  "write" \notin events => outputBuffer = << >>
<1>1. tcpState \in Up /\ "overwritten" \notin hazards
  BY DEF OutInv, OutTypeOK, TcpStates, OwnedIsAlive, Up
<1> QED  BY <1>1 DEF OutInv, OutputIsKept, WritesWhilePending

\* shutdown(), queued or on the loop.
LEMMA ShutdownKeeps ==
    ASSUME OutInv, tcpState # "kConnecting", RunShutdown \/ LoopShutdown
    PROVE  OutInv'
<1> USE DEF OutInv
<1>0. Listed(functors, owned) /\ owned \in BOOLEAN
  BY DEF OutTypeOK
<1>1. /\ UNCHANGED <<outputBuffer, wire, accepted, owned, events, hazards, sent>>
      /\ tcpFailed = "no" /\ shutWrite' = shutdownInLoop
      /\ tcpState' = tcpState \/ (tcpState' = "kDisconnecting" /\ tcpState = "kConnected")
  BY DEF RunShutdown, LoopShutdown, TcpRuns, Going, streamVars, lifeVars
<1>2. Listed(functors', owned')
  <2>1. CASE RunShutdown
    <3>1. functors # << >> /\ functors' = Tail(functors)
      BY <2>1 DEF RunShutdown, TcpRuns, Rest
    <3> QED  BY <1>0, <1>1, <3>1, TailListed
  <2>2. CASE LoopShutdown
    BY <1>0, <1>1, <2>2 DEF LoopShutdown
  <2> QED  BY <2>1, <2>2
<1>3. OutTypeOK'
  BY <1>1 DEF OutTypeOK, TcpStates
<1>4. NotYetUp' /\ OwnedIsAlive' /\ WritesOnlyPending'
  BY <1>1 DEF NotYetUp, OwnedIsAlive, WritesOnlyPending
<1>5. StreamInOrder' /\ WritesWhilePending'
  BY <1>1 DEF OutputIsKept, StreamInOrder, WritesWhilePending, Up
<1>6. ShutdownDrains'
  BY Zenon, <1>1, OwnedWrites DEF OutputIsKept, ShutdownDrains, shutdownInLoop
<1> QED  BY <1>2, <1>3, <1>4, <1>5, <1>6 DEF OutputIsKept

\* handleWrite() moves a prefix of the buffer to the wire.
LEMMA WriteKeeps ==
    ASSUME OutInv, tcpState # "kConnecting", handleWrite
    PROVE  OutInv'
<1> USE DEF OutInv
<1>0. /\ Listed(functors, owned) /\ owned \in BOOLEAN
      /\ outputBuffer \in Seq(Byte) /\ wire \in Seq(Byte)
  BY DEF OutTypeOK
<1>1. /\ UNCHANGED <<tcpState, accepted, owned, hazards, sent>>
      /\ tcpFailed = "no" /\ tcpFailed' = "no" /\ "write" \in events
  BY DEF handleWrite, Going, lifeVars
<1>2. PICK n \in 1 .. Len(outputBuffer) :
         /\ wire' = wire \o SubSeq(outputBuffer, 1, n)
         /\ outputBuffer' = SubSeq(outputBuffer, n + 1, Len(outputBuffer))
         /\ events' = IF n = Len(outputBuffer) THEN events \ {"write"} ELSE events
         /\ functors' \in {functors, Append(functors, <<"writeComplete", 0>>)}
         /\ shutWrite' = shutWrite \/ n = Len(outputBuffer)
  BY Zenon DEF handleWrite
<1>3. n \in 0 .. Len(outputBuffer) /\ Len(outputBuffer) \in Nat
  BY <1>0, LenProperties
<1>4. /\ SubSeq(outputBuffer, 1, n) \in Seq(Byte) /\ outputBuffer' \in Seq(Byte)
      /\ SubSeq(outputBuffer, 1, n) \o outputBuffer' = outputBuffer
      /\ (outputBuffer' = << >>) <=> (n = Len(outputBuffer))
  BY Zenon, <1>0, <1>2, <1>3, SplitStays
<1>5. wire' \in Seq(Byte) /\ wire' \o outputBuffer' = wire \o outputBuffer
  <2> DEFINE out == SubSeq(outputBuffer, 1, n)
  <2> HIDE DEF out
  <2>1. out \in Seq(Byte) /\ wire' = wire \o out /\ out \o outputBuffer' = outputBuffer
    BY Zenon, <1>2, <1>4 DEF out
  <2>2. wire \o out \in Seq(Byte)
    BY <1>0, <2>1, Joined, Zenon
  <2>3. Regroups(wire, out, outputBuffer')
    BY <1>0, <1>4, <2>1, Regrouped
  <2> QED  BY <2>1, <2>2, <2>3 DEF Regroups
<1>6. Listed(functors', owned')
  <2>1. <<"writeComplete", 0>> \in TcpFunctor
    BY DEF TcpFunctor, FunctorNames, Shared
  <2> QED  BY Zenon, <1>0, <1>1, <1>2, <2>1, AppendListed
<1>7. events' \subseteq {"read", "write"} /\ ("write" \in events' <=> outputBuffer' # << >>)
  BY Zenon, <1>1, <1>2, <1>4 DEF OutTypeOK
<1>8. OutTypeOK'
  BY <1>1, <1>4, <1>5, <1>7 DEF OutTypeOK
<1>9. NotYetUp' /\ OwnedIsAlive' /\ WritesOnlyPending'
  BY <1>1, <1>7 DEF NotYetUp, OwnedIsAlive, WritesOnlyPending
<1>10. StreamInOrder' /\ WritesWhilePending'
  BY SMTT(30), <1>1, <1>5, <1>7 DEF OutputIsKept, StreamInOrder, WritesWhilePending
<1>11. ShutdownDrains'
  BY Zenon, <1>1, <1>2, <1>4 DEF OutputIsKept, ShutdownDrains, WritesOnlyPending
<1> QED  BY <1>6, <1>8, <1>9, <1>10, <1>11 DEF OutputIsKept

\* sendInLoop() writes directly only while nothing is buffered, and buffers the rest.
LEMMA SendInLoopKeeps ==
    ASSUME OutInv, tcpState # "kConnecting", tcpFailed = "no",
           NEW m \in Nat, NEW n \in 0 .. MessageLength, NEW rest, Listed(rest, owned),
           sendInLoop(m, n, rest),
           UNCHANGED <<tcpState, shutWrite, owned, hazards, tcpFailed>>,
           sent' \in Seq(TcpThreads)
    PROVE  OutInv'
<1> USE DEF OutInv
<1>0. /\ owned \in BOOLEAN /\ outputBuffer \in Seq(Byte) /\ wire \in Seq(Byte)
      /\ accepted \in Seq(Byte) /\ events \subseteq {"read", "write"}
  BY DEF OutTypeOK
<1>1. CASE functors' = rest /\ UNCHANGED <<events, outputBuffer, wire, accepted>>
  BY <1>0, <1>1, Steady
<1>2. ASSUME NEW k \in 0 .. MessageLength,
             k # 0 => outputBuffer = << >>,
             "write" \notin events /\ outputBuffer = << >> => shutWrite = "no",
             wire' = wire \o SubSeq(Bytes(m), 1, k),
             accepted' = accepted \o Bytes(m),
             outputBuffer' = outputBuffer \o SubSeq(Bytes(m), k + 1, MessageLength),
             events' = IF SubSeq(Bytes(m), k + 1, MessageLength) = << >> THEN events
                       ELSE events \union {"write"},
             functors' \in {rest \o <<<<"writeComplete", 0>>>>,
                            rest \o <<<<"highWaterMark", 0>>>>, rest \o << >>}
      PROVE  OutInv'
  <2> DEFINE out  == SubSeq(Bytes(m), 1, k)
             left == SubSeq(Bytes(m), k + 1, MessageLength)
  <2>1. Bytes(m) \in Seq(Byte) /\ Len(Bytes(m)) = MessageLength
    BY BytesAreSeq
  <2>2. /\ out \in Seq(Byte) /\ left \in Seq(Byte) /\ out \o left = Bytes(m)
    BY SMTT(30), <2>1, SplitStays
  <2> HIDE DEF out, left
  <2>3. /\ wire' = wire \o out /\ outputBuffer' = outputBuffer \o left
        /\ events' = IF left = << >> THEN events ELSE events \union {"write"}
    BY <1>2 DEF out, left
  <2>4. /\ wire' \in Seq(Byte) /\ outputBuffer' \in Seq(Byte) /\ accepted' \in Seq(Byte)
        /\ (outputBuffer' = << >>) <=> (outputBuffer = << >> /\ left = << >>)
    <3>1. wire \o out \in Seq(Byte)
      BY <1>0, <2>2, Joined, Zenon
    <3>2. accepted \o Bytes(m) \in Seq(Byte)
      BY <1>0, <2>1, Joined, Zenon
    <3>3. /\ outputBuffer \o left \in Seq(Byte)
          /\ (outputBuffer \o left = << >>) <=> (outputBuffer = << >> /\ left = << >>)
      BY <1>0, <2>2, Joined, Zenon
    <3> QED  BY <1>2, <2>3, <3>1, <3>2, <3>3, Zenon
  <2>5. wire' \o outputBuffer' = accepted'
    <3>1. wire \o outputBuffer = accepted
      BY DEF OutputIsKept, StreamInOrder
    <3>2. CASE outputBuffer = << >>
      <4>1. outputBuffer' = left /\ accepted = wire
        BY <1>0, <2>2, <2>3, <3>1, <3>2, ConcatEmptySeq
      <4>2. Regroups(wire, out, left)
        BY <1>0, <2>2, Regrouped
      <4> QED  BY Zenon, <1>2, <2>2, <2>3, <4>1, <4>2 DEF Regroups
    <3>3. CASE outputBuffer # << >>
      <4>1. k = 0
        BY <1>2, <3>3
      <4>2. out = << >>
        BY <4>1, SubSeqEmpty DEF out
      <4>3. wire' = wire /\ left = Bytes(m)
        BY <1>0, <2>2, <2>3, <4>2, ConcatEmptySeq
      <4>4. Regroups(wire, outputBuffer, left)
        BY <1>0, <2>2, Regrouped
      <4> QED  BY Zenon, <1>2, <2>3, <3>1, <4>3, <4>4 DEF Regroups
    <3> QED  BY <3>2, <3>3
  <2>6. Listed(functors', owned')
    <3>1. rest \in Seq(TcpFunctor) /\ <<"writeComplete", 0>> \in TcpFunctor
          /\ <<"highWaterMark", 0>> \in TcpFunctor
      BY DEF Listed, TcpFunctor, FunctorNames, Shared
    <3>2. functors' \in {rest, Append(rest, <<"writeComplete", 0>>),
                         Append(rest, <<"highWaterMark", 0>>)}
      BY Zenon, <1>2, <3>1, AppendIsConcat, ConcatEmptySeq
    <3> QED  BY Zenon, <1>0, <3>1, <3>2, AppendListed
  <2>7. events' \subseteq {"read", "write"}
    BY <1>0, <2>3
  <2>8. OutTypeOK'
    BY <2>4, <2>7 DEF OutTypeOK
  <2>9. NotYetUp' /\ OwnedIsAlive'
    BY DEF NotYetUp, OwnedIsAlive
  <2>10. WritesOnlyPending' /\ WritesWhilePending'
    BY <2>3, <2>4 DEF WritesOnlyPending, OutputIsKept, WritesWhilePending
  <2>11. ShutdownDrains'
    BY <1>2 DEF WritesOnlyPending, OutputIsKept, ShutdownDrains
  <2> QED  BY <2>5, <2>6, <2>8, <2>9, <2>10, <2>11 DEF OutputIsKept, StreamInOrder
<1> DEFINE direct == "write" \notin events /\ outputBuffer = << >>
<1>3. CASE tcpState = "kDisconnected" \/ (direct /\ (shutWrite # "no" \/ peerGone))
  BY <1>1, <1>3 DEF sendInLoop, streamVars
<1>4. CASE ~(tcpState = "kDisconnected") /\ ~(direct /\ (shutWrite # "no" \/ peerGone))
  <2> DEFINE k == IF direct THEN n ELSE 0
             left == SubSeq(Bytes(m), k + 1, MessageLength)
  <2>1. k \in 0 .. MessageLength /\ (k # 0 => outputBuffer = << >>)
    BY TcpAssumption
  <2>2. /\ wire' = wire \o SubSeq(Bytes(m), 1, k)
        /\ accepted' = accepted \o Bytes(m)
        /\ outputBuffer' = outputBuffer \o left
        /\ events' = IF left = << >> THEN events ELSE events \union {"write"}
        /\ functors' \in {rest \o <<<<"writeComplete", 0>>>>,
                           rest \o <<<<"highWaterMark", 0>>>>, rest \o << >>}
    BY Zenon, <1>4 DEF sendInLoop
  <2> HIDE DEF k
  <2> QED  BY Zenon, <1>2, <1>4, <2>1, <2>2
<1> QED  BY <1>3, <1>4

\* sendInLoop(), from the queue or in place.
LEMMA SendKeeps ==
    ASSUME OutInv, tcpState # "kConnecting", RunSend \/ LoopSend
    PROVE  OutInv'
<1> USE DEF OutInv
<1>0. Listed(functors, owned) /\ owned \in BOOLEAN /\ sent \in Seq(TcpThreads)
  BY DEF OutTypeOK
<1>1. UNCHANGED <<tcpState, shutWrite, owned, hazards, tcpFailed>> /\ tcpFailed = "no"
  BY DEF RunSend, LoopSend, TcpRuns, Going, lifeVars
<1>2. CASE RunSend
  <2>1. functors # << >> /\ sent' = sent
    BY <1>2 DEF RunSend, TcpRuns
  <2>2. Listed(Rest, owned) /\ Head(functors) \in TcpFunctor
    BY <1>0, <2>1, TailListed DEF Rest
  <2>3. Head(functors)[2] \in Nat
    BY <2>2 DEF TcpFunctor
  <2>4. PICK n \in 0 .. MessageLength : sendInLoop(Head(functors)[2], n, Rest)
    BY <1>2 DEF RunSend
  <2> QED  BY <1>0, <1>1, <2>1, <2>2, <2>3, <2>4, SendInLoopKeeps
<1>3. CASE LoopSend
  <2>1. sent' = Append(sent, LoopThread)
    BY <1>3 DEF LoopSend
  <2>2. sent' \in Seq(TcpThreads) /\ Len(sent') \in Nat
    BY <1>0, <2>1, AppendProperties, LenProperties DEF TcpThreads
  <2>3. PICK n \in 0 .. MessageLength : sendInLoop(Len(sent'), n, functors)
    BY <1>3 DEF LoopSend
  <2> QED  BY <1>0, <1>1, <2>2, <2>3, SendInLoopKeeps
<1> QED  BY <1>2, <1>3

-----------------------------------------------------------------------------
\* The invariant holds at first.
LEMMA OutInvInit == TcpInit => OutInv
<1> SUFFICES ASSUME TcpInit PROVE OutInv
  OBVIOUS
<1>1. OutTypeOK
  BY DEF TcpInit, OutTypeOK, TcpStates
<1>2. NotYetUp /\ OwnedIsAlive /\ WritesOnlyPending
  BY DEF TcpInit, NotYetUp, OwnedIsAlive, WritesOnlyPending
<1>3. OutputIsKept
  BY DEF TcpInit, OutputIsKept, StreamInOrder, WritesWhilePending, ShutdownDrains
<1> QED  BY <1>1, <1>2, <1>3 DEF OutInv, TcpInit

\* The invariant is kept by every step.
LEMMA OutInvKept ==
    ASSUME OutInv, [TcpNext]_tcpVars
    PROVE  OutInv'
<1>1. CASE UNCHANGED tcpVars
  BY <1>1 DEF tcpVars, OutInv, OutTypeOK, NotYetUp, OwnedIsAlive, Listed, None,
              WritesOnlyPending, OutputIsKept, StreamInOrder, WritesWhilePending, ShutdownDrains
<1>2. CASE PeerResets
  BY <1>2, Steady DEF PeerResets, Going, streamVars, lifeVars, OutInv, OutTypeOK
<1>3. CASE TcpNext /\ ~PeerResets
  <2>1. \/ RunEstablished /\ tcpState = "kConnecting"
        \/ tcpState # "kConnecting" /\ ~RunEstablished
    BY <1>3, FirstIsEstablished
  <2>2. CASE RunEstablished /\ tcpState = "kConnecting"
    BY <2>2, EstablishedKeeps
  <2>3. CASE tcpState # "kConnecting" /\ ~RunEstablished
    BY <1>3, <2>3, QuietKeeps, ThreadsKeep, CloseKeeps, DestroyedKeeps, ShutdownKeeps,
       WriteKeeps, SendKeeps
    DEF TcpNext, RunFunctor
  <2> QED  BY <2>1, <2>2, <2>3
<1> QED  BY <1>1, <1>2, <1>3

\* For any threads beside the loop, any calls of theirs and any prefix the socket
\* takes: bytes reach the wire in the order sendInLoop() took them, writability is
\* watched exactly while some wait, and the write side of an open connection is shut
\* down only after the last of them.
THEOREM OutputKept == TcpSpec => []OutputIsKept
<1>1. OutInv /\ [TcpNext]_tcpVars => OutInv'
  BY OutInvKept
<1>2. OutInv => OutputIsKept
  BY DEF OutInv
<1> QED  BY OutInvInit, <1>1, <1>2, PTL DEF TcpSpec

-----------------------------------------------------------------------------
(* The asserts, and the functors that outlive the connection *)

\* kDisconnected was overwritten, or the server went while kDisconnecting.
Excused == hazards \intersect {"overwritten", "serverWent"} # {}

\* A functor that holds no reference runs before connectDestroyed(), which does.
Covered(fs) ==
    \A i \in DOMAIN fs :
        fs[i][1] \notin Shared => \E j \in DOMAIN fs : j > i /\ fs[j][1] = "connectDestroyed"

\* What is left once the owner has let go, but for the races TcpAssertsHold names.
AfterOwner ==
    ~owned => /\ tcpState = "kDisconnected" \/ Excused
              /\ events # {} => Excused \/ "lateStart" \in hazards
              /\ Covered(functors) \/ "lateCall" \in hazards

AfterFree == freed => ~owned /\ (functors = << >> \/ "lateCall" \in hazards)

LifeInv == OutInv /\ freed \in BOOLEAN /\ AfterOwner /\ AfterFree /\ TcpAssertsHold

\* Running the first functor leaves the others covered.
LEMMA CoveredTail ==
    ASSUME NEW fs \in Seq(TcpFunctor), fs # << >>, Covered(fs)
    PROVE  Covered(Tail(fs))
<1>1. /\ Len(Tail(fs)) = Len(fs) - 1 /\ Len(fs) \in Nat \ {0} /\ Tail(fs) \in Seq(TcpFunctor)
      /\ \A i \in 1 .. Len(Tail(fs)) : Tail(fs)[i] = fs[i + 1]
  BY HeadTailProperties, LenProperties, EmptySeq
<1>2. DOMAIN fs = 1 .. Len(fs) /\ DOMAIN Tail(fs) = 1 .. Len(Tail(fs))
  BY <1>1, LenProperties
<1> SUFFICES ASSUME NEW i \in DOMAIN Tail(fs), Tail(fs)[i][1] \notin Shared
             PROVE  \E j \in DOMAIN Tail(fs) : j > i /\ Tail(fs)[j][1] = "connectDestroyed"
  BY DEF Covered
<1>3. i \in Nat /\ i + 1 \in DOMAIN fs /\ fs[i + 1][1] \notin Shared
  BY <1>1, <1>2
<1>4. PICK j \in DOMAIN fs : j > i + 1 /\ fs[j][1] = "connectDestroyed"
  BY <1>3 DEF Covered
<1>5. j - 1 \in DOMAIN Tail(fs) /\ j - 1 > i /\ (j - 1) + 1 = j
  BY <1>1, <1>2, <1>3, <1>4
<1>6. Tail(fs)[j - 1] = fs[j]
  BY <1>1, <1>2, <1>5
<1> QED  BY <1>4, <1>5, <1>6

\* A functor that holds a reference may be queued behind; connectDestroyed() covers
\* whatever was queued before it.
LEMMA CoveredAppend ==
    ASSUME NEW fs \in Seq(TcpFunctor), NEW f \in TcpFunctor, f[1] \in Shared,
           Covered(fs) \/ f[1] = "connectDestroyed"
    PROVE  Covered(Append(fs, f))
<1>1. /\ Append(fs, f) \in Seq(TcpFunctor) /\ Len(fs) \in Nat
      /\ Len(Append(fs, f)) = Len(fs) + 1
      /\ \A i \in 1 .. Len(fs) : Append(fs, f)[i] = fs[i]
      /\ Append(fs, f)[Len(fs) + 1] = f
  BY AppendProperties, LenProperties
<1>2. DOMAIN fs = 1 .. Len(fs) /\ DOMAIN Append(fs, f) = 1 .. Len(fs) + 1
  BY <1>1, LenProperties
<1> SUFFICES ASSUME NEW i \in DOMAIN Append(fs, f), Append(fs, f)[i][1] \notin Shared
             PROVE  \E j \in DOMAIN Append(fs, f) :
                        j > i /\ Append(fs, f)[j][1] = "connectDestroyed"
  BY DEF Covered
<1>3. i \in DOMAIN fs /\ Append(fs, f)[i] = fs[i]
  BY <1>1, <1>2
<1>4. CASE f[1] = "connectDestroyed"
  BY <1>1, <1>2, <1>3, <1>4
<1>5. CASE Covered(fs)
  <2>1. PICK j \in DOMAIN fs : j > i /\ fs[j][1] = "connectDestroyed"
    BY <1>3, <1>5 DEF Covered
  <2>2. j \in DOMAIN Append(fs, f) /\ Append(fs, f)[j] = fs[j]
    BY <1>1, <1>2
  <2> QED  BY <2>1, <2>2
<1> QED  BY <1>4, <1>5

\* With no reference in the queue nothing is queued.
LEMMA CoveredEmpty ==
    ASSUME NEW fs \in Seq(TcpFunctor), Covered(fs), \A i \in DOMAIN fs : fs[i][1] \notin Shared
    PROVE  fs = << >>
<1>1. DOMAIN fs = 1 .. Len(fs) /\ Len(fs) \in Nat
  BY LenProperties
<1>2. ~ (1 \in DOMAIN fs)
  BY DEF Covered, Shared
<1> QED  BY <1>1, <1>2, EmptySeq

\* A step that lets no reference go.
LEMMA LifeSteady ==
    ASSUME LifeInv, OutInv', tcpFailed = "no", UNCHANGED <<owned, freed, tcpFailed>>,
           hazards \subseteq hazards',
           \/ tcpState' = tcpState
           \/ tcpState' = "kDisconnecting" /\ (tcpState \in Up \/ "overwritten" \in hazards')
           \/ owned,
           \/ events' \subseteq events \/ "lateStart" \in hazards'
           \/ tcpState # "kDisconnected" \/ owned,
           freed => functors' = functors,
           owned \/ "lateCall" \in hazards' \/ (Covered(functors) => Covered(functors'))
    PROVE  LifeInv'
<1>1. Excused => Excused'
  BY DEF Excused
<1>2. AfterOwner'
  <2> SUFFICES ASSUME ~owned
               PROVE  /\ tcpState' = "kDisconnected" \/ Excused'
                      /\ events' # {} => Excused' \/ "lateStart" \in hazards'
                      /\ Covered(functors') \/ "lateCall" \in hazards'
    BY DEF AfterOwner
  <2>1. /\ tcpState = "kDisconnected" \/ Excused
        /\ events # {} => Excused \/ "lateStart" \in hazards
        /\ Covered(functors) \/ "lateCall" \in hazards
    BY DEF LifeInv, AfterOwner
  <2>2. tcpState' = "kDisconnected" \/ Excused'
    BY <1>1, <2>1 DEF Up, Excused
  <2>3. events' # {} => Excused' \/ "lateStart" \in hazards'
    BY <1>1, <2>1
  <2>4. Covered(functors') \/ "lateCall" \in hazards'
    BY <2>1
  <2> QED  BY <2>2, <2>3, <2>4
<1>3. AfterFree' /\ freed' \in BOOLEAN
  BY DEF LifeInv, AfterFree
<1>4. TcpAssertsHold'
  BY DEF TcpAssertsHold
<1> QED  BY <1>2, <1>3, <1>4 DEF LifeInv

\* The functors of a started connection are sound.
LEMMA FunctorsListed ==
    ASSUME OutInv
    PROVE  functors \in Seq(TcpFunctor) /\ owned \in BOOLEAN
<1>1. CASE tcpState = "kConnecting"
  <2>1. <<"connectEstablished", 0>> \in TcpFunctor
    BY DEF TcpFunctor, FunctorNames, Shared
  <2>2. functors = <<<<"connectEstablished", 0>>>> /\ owned \in BOOLEAN
    BY <1>1 DEF OutInv, NotYetUp, OutTypeOK
  <2> QED  BY <2>1, <2>2
<1>2. CASE tcpState # "kConnecting"
  BY <1>2 DEF OutInv, Listed, OutTypeOK
<1> QED  BY <1>1, <1>2

\* sendInLoop() runs or is called; it queues callbacks, which hold a reference.
LEMMA SendLives ==
    ASSUME LifeInv, OutInv', RunSend \/ LoopSend
    PROVE  LifeInv'
<1>0. functors \in Seq(TcpFunctor)
  BY FunctorsListed DEF LifeInv
<1>1. PICK m : \E n \in 0 .. MessageLength : \E rest \in {functors, Rest} :
         /\ sendInLoop(m, n, rest)
         /\ rest = functors \/ (functors # << >> /\ rest = Rest)
  <2>1. CASE RunSend
    BY <2>1 DEF RunSend, TcpRuns
  <2>2. CASE LoopSend
    BY <2>2 DEF LoopSend
  <2> QED  BY <2>1, <2>2
<1>11. PICK n \in 0 .. MessageLength : \E rest \in {functors, Rest} :
         /\ sendInLoop(m, n, rest)
         /\ rest = functors \/ (functors # << >> /\ rest = Rest)
  BY <1>1
<1>12. PICK rest \in {functors, Rest} :
         /\ sendInLoop(m, n, rest)
         /\ rest = functors \/ (functors # << >> /\ rest = Rest)
  BY <1>11
<1>2. /\ tcpFailed = "no" /\ UNCHANGED <<tcpState, owned, freed, tcpFailed, hazards>> /\ ~freed
  BY DEF RunSend, LoopSend, TcpRuns, Going, lifeVars
<1>3. rest \in Seq(TcpFunctor) /\ (Covered(functors) => Covered(rest))
  BY Zenon, <1>0, <1>12, CoveredTail, HeadTailProperties DEF Rest
<1>4. events' \subseteq events \/ tcpState # "kDisconnected"
  BY <1>12 DEF sendInLoop
<1>5. functors' \in {rest, rest \o <<<<"writeComplete", 0>>>>,
                     rest \o <<<<"highWaterMark", 0>>>>, rest \o << >>}
  BY Zenon, <1>12 DEF sendInLoop
<1>6. /\ <<"writeComplete", 0>> \in TcpFunctor /\ <<"writeComplete", 0>>[1] \in Shared
      /\ <<"highWaterMark", 0>> \in TcpFunctor /\ <<"highWaterMark", 0>>[1] \in Shared
  BY DEF TcpFunctor, FunctorNames, Shared
<1>7. functors' \in {rest, Append(rest, <<"writeComplete", 0>>),
                     Append(rest, <<"highWaterMark", 0>>)}
  BY <1>3, <1>5, <1>6, AppendIsConcat, ConcatEmptySeq
<1>8. Covered(functors) => Covered(functors')
  BY Zenon, <1>3, <1>6, <1>7, CoveredAppend
<1> QED  BY <1>2, <1>4, <1>8, LifeSteady

\* The other functors and calls on the loop thread, and its timers.
LEMMA LoopLives ==
    ASSUME LifeInv, OutInv',
           \/ RunShutdown \/ LoopShutdown \/ RunReading \/ LoopReading \/ handleWrite
           \/ DelayOver \/ LoopForceClose
    PROVE  LifeInv'
<1>0. functors \in Seq(TcpFunctor) /\ events \subseteq {"read", "write"}
  BY FunctorsListed DEF LifeInv, OutInv, OutTypeOK
<1>1. /\ tcpFailed = "no" /\ UNCHANGED <<owned, freed, tcpFailed>> /\ hazards \subseteq hazards'
  BY DEF RunShutdown, LoopShutdown, RunReading, LoopReading, handleWrite, DelayOver,
         LoopForceClose, TcpRuns, Going, lifeVars, startReadInLoop, stopReadInLoop
<1>2. tcpState' = tcpState \/ (tcpState' = "kDisconnecting" /\ tcpState \in Up)
  BY DEF RunShutdown, LoopShutdown, RunReading, LoopReading, handleWrite, DelayOver,
         LoopForceClose, forceClose, Up
<1>3. events' \subseteq events \/ "lateStart" \in hazards' \/ owned
  BY DEF RunShutdown, LoopShutdown, RunReading, LoopReading, handleWrite, DelayOver,
         LoopForceClose, startReadInLoop, stopReadInLoop
<1>4. /\ <<"writeComplete", 0>> \in TcpFunctor /\ <<"writeComplete", 0>>[1] \in Shared
      /\ <<"forceCloseInLoop", 0>> \in TcpFunctor /\ <<"forceCloseInLoop", 0>>[1] \in Shared
  BY DEF TcpFunctor, FunctorNames, Shared
<1>5. \/ functors' \in {functors, Append(functors, <<"writeComplete", 0>>),
                        Append(functors, <<"forceCloseInLoop", 0>>)}
      \/ functors # << >> /\ functors' = Rest
  BY SMTT(30) DEF RunShutdown, LoopShutdown, RunReading, LoopReading, handleWrite, DelayOver,
         LoopForceClose, TcpRuns, forceClose
<1>6. freed => functors' = functors
  BY DEF RunShutdown, LoopShutdown, RunReading, LoopReading, handleWrite, DelayOver,
         LoopForceClose, TcpRuns, Going
<1>7. Covered(functors) => Covered(functors')
  BY Zenon, <1>0, <1>4, <1>5, CoveredAppend, CoveredTail DEF Rest
<1> QED  BY <1>1, <1>2, <1>3, <1>6, <1>7, LifeSteady

\* Calls of other threads: what they queue on a connection its owner let go is late.
LEMMA ThreadsLive ==
    ASSUME LifeInv, OutInv', NEW t \in OtherThreads,
           CallSend(t) \/ QueueSend(t) \/ CallOther(t) \/ WriteState(t) \/ CallReading(t)
    PROVE  LifeInv'
<1>0. owned \in BOOLEAN /\ tcpState \in TcpStates
  BY FunctorsListed DEF LifeInv, OutInv, OutTypeOK
<1>1. /\ tcpFailed = "no" /\ UNCHANGED <<owned, freed, tcpFailed, events>>
      /\ hazards \subseteq hazards' /\ ~freed
      /\ functors' = functors \/ owned \/ "lateCall" \in hazards'
  BY <1>0 DEF CallSend, QueueSend, CallOther, WriteState, CallReading, TestState, MayCall, Going,
         lifeVars, LateCall
<1>2. \/ tcpState' = tcpState
      \/ tcpState' = "kDisconnecting" /\ (tcpState \in Up \/ "overwritten" \in hazards')
      \/ tcpState = "kConnecting"
  BY <1>0 DEF CallSend, QueueSend, CallOther, WriteState, CallReading, TestState, TcpStates, Up
<1>3. tcpState = "kConnecting" => owned
  BY DEF LifeInv, OutInv, NotYetUp
<1> QED  BY <1>1, <1>2, <1>3, LifeSteady

\* connectEstablished() runs on a connection its owner holds.
LEMMA EstablishedLives ==
    ASSUME LifeInv, OutInv', RunEstablished, tcpState = "kConnecting"
    PROVE  LifeInv'
<1>1. /\ owned /\ ~freed /\ tcpFailed = "no"
      /\ UNCHANGED <<owned, freed, tcpFailed, hazards>>
  BY DEF LifeInv, OutInv, NotYetUp, RunEstablished, TcpRuns, Going
<1> QED  BY <1>1, LifeSteady

\* A reference goes with a callback, a late forceCloseInLoop() or a thread's pointer.
LEMMA DropLives ==
    ASSUME LifeInv, OutInv', tcpFailed = "no", UNCHANGED <<owned, tcpState, events, hazards>>,
           NEW threads, Drop(functors', threads),
           functors' = functors \/ (functors # << >> /\ functors' = Rest)
    PROVE  LifeInv'
<1>0. functors \in Seq(TcpFunctor) /\ functors' \in Seq(TcpFunctor)
  BY FunctorsListed, HeadTailProperties DEF LifeInv, Rest
<1>1. Covered(functors) => Covered(functors')
  BY Zenon, <1>0, CoveredTail DEF Rest
<1>2. AfterOwner'
  BY <1>1 DEF LifeInv, AfterOwner, Excused
<1>3. freed' = ~TcpReferenced(functors', threads)
  BY DEF Drop
<1>4. freed' => ~owned /\ \A i \in DOMAIN functors' : functors'[i][1] \notin Shared
  BY Zenon, <1>3 DEF TcpReferenced
<1>5. AfterFree' /\ freed' \in BOOLEAN
  <2>1. freed' /\ "lateCall" \notin hazards => Covered(functors')
    BY <1>1, <1>4 DEF LifeInv, AfterOwner
  <2> QED  BY <1>0, <1>3, <1>4, <2>1, CoveredEmpty DEF AfterFree
<1>6. TcpAssertsHold'
  <2>1. tcpFailed' \in {"no", "~TcpConnection"}
    BY DEF Drop
  <2>2. tcpFailed' = "~TcpConnection" => Excused
    BY <1>4 DEF Drop, LifeInv, AfterOwner
  <2> QED  BY <2>1, <2>2 DEF TcpAssertsHold, Excused
<1> QED  BY <1>2, <1>5, <1>6 DEF LifeInv

\* handleClose() on a connection its owner holds, or one of the named races.
LEMMA CloseLives ==
    ASSUME LifeInv, OutInv', tcpFailed = "no", ~freed, UNCHANGED <<freed, hazards>>,
           NEW rest, handleClose(rest), rest = functors \/ (functors # << >> /\ rest = Rest),
           tcpState \in Up \/ events # {}
    PROVE  LifeInv'
<1>0. rest \in Seq(TcpFunctor) /\ owned \in BOOLEAN
  BY FunctorsListed, HeadTailProperties DEF LifeInv, Rest
<1>1. CASE tcpState \notin Up \/ ~owned
  <2>1. /\ tcpFailed' = "handleClose" /\ functors' = rest /\ UNCHANGED <<tcpState, events, owned>>
    BY <1>1 DEF handleClose
  <2>2. ~owned
    BY Zenon, <1>1 DEF LifeInv, OutInv, OwnedIsAlive, NotYetUp, OutTypeOK, TcpStates, Up
  <2>3. Covered(functors) => Covered(functors')
    BY Zenon, <2>1, CoveredTail, FunctorsListed DEF Rest, LifeInv
  <2>4. Excused \/ "lateStart" \in hazards
    BY <2>2 DEF LifeInv, AfterOwner, Up
  <2>5. AfterOwner' /\ AfterFree' /\ freed' \in BOOLEAN
    BY <2>1, <2>3 DEF LifeInv, AfterOwner, AfterFree, Excused
  <2>6. TcpAssertsHold'
    BY <2>1, <2>4 DEF TcpAssertsHold, Excused
  <2> QED  BY <2>5, <2>6 DEF LifeInv
<1>2. CASE ~(tcpState \notin Up \/ ~owned)
  <2>1. /\ tcpFailed' = "no" /\ tcpState' = "kDisconnected" /\ events' = {}
        /\ functors' = Append(rest, <<"connectDestroyed", 0>>)
    BY <1>2 DEF handleClose
  <2>2. <<"connectDestroyed", 0>> \in TcpFunctor /\ <<"connectDestroyed", 0>>[1] \in Shared
    BY DEF TcpFunctor, FunctorNames, Shared
  <2>3. Covered(functors')
    BY <1>0, <2>1, <2>2, CoveredAppend
  <2>4. AfterOwner' /\ AfterFree' /\ freed' \in BOOLEAN
    BY <2>1, <2>3 DEF AfterOwner, AfterFree, LifeInv
  <2>5. TcpAssertsHold'
    BY <2>1 DEF TcpAssertsHold
  <2> QED  BY <2>4, <2>5 DEF LifeInv
<1> QED  BY <1>1, <1>2

\* connectDestroyed(): what is still queued holds a reference, or the call was late.
LEMMA DestroyedLives ==
    ASSUME LifeInv, OutInv', RunDestroyed \/ OwnerGoes
    PROVE  LifeInv'
<1>0. functors \in Seq(TcpFunctor) /\ owned \in BOOLEAN
  BY FunctorsListed DEF LifeInv
<1>1. PICK rest : /\ connectDestroyed(rest) /\ rest \in Seq(TcpFunctor)
                  /\ Covered(rest) \/ "lateCall" \in hazards'
                  /\ ~owned'
                  /\ events # {} /\ tcpState # "kConnected" =>
                         Excused' \/ "lateStart" \in hazards'
                  /\ tcpState \in {"kConnected", "kDisconnected"} \/ Excused'
  <2>1. CASE RunDestroyed
    <3>1. /\ functors # << >> /\ Head(functors)[1] = "connectDestroyed" /\ hazards' = hazards
          /\ connectDestroyed(Rest) /\ Rest \in Seq(TcpFunctor)
      BY <1>0, <2>1, HeadTailProperties DEF RunDestroyed, TcpRuns, Head1, Rest
    <3>2. ~owned
      <4>1. tcpState # "kConnecting"
        BY <3>1 DEF LifeInv, OutInv, NotYetUp
      <4>2. Listed(functors, owned)
        BY <4>1 DEF LifeInv, OutInv
      <4>3. Head(functors) = functors[1] /\ 1 \in DOMAIN functors
        BY <1>0, <3>1, <4>2, TailListed
      <4> QED  BY <3>1, <4>2, <4>3 DEF Listed, None
    <3>3. Covered(Rest) \/ "lateCall" \in hazards
      BY <1>0, <3>1, <3>2, CoveredTail DEF LifeInv, AfterOwner, Rest
    <3>4. /\ ~owned'
          /\ tcpState = "kDisconnected" \/ Excused'
          /\ events # {} => Excused' \/ "lateStart" \in hazards'
      BY <2>1, <3>1, <3>2 DEF RunDestroyed, LifeInv, AfterOwner, Excused
    <3> QED  BY <3>1, <3>3, <3>4
  <2>2. CASE OwnerGoes
    <3>1. (\A i \in DOMAIN functors : functors[i][1] \in Shared) \/ "lateCall" \in hazards'
      BY <2>2 DEF OwnerGoes
    <3>2. tcpState = "kConnected" \/ Excused'
      <4>1. tcpState \in Up
        BY <2>2 DEF OwnerGoes, LifeInv, OutInv, OwnedIsAlive, OutTypeOK, TcpStates, Up
      <4> QED  BY <2>2, <4>1 DEF OwnerGoes, Excused, Up
    <3>3. connectDestroyed(functors) /\ ~owned'
      BY <2>2 DEF OwnerGoes
    <3> QED  BY <1>0, <3>1, <3>2, <3>3 DEF Covered
  <2> QED  BY <2>1, <2>2
<1>2. /\ functors' = rest /\ events' = {}
      /\ freed' = (holds = {} /\ \A i \in DOMAIN rest : rest[i][1] \notin Shared)
      /\ tcpState' = IF tcpState = "kConnected" THEN "kDisconnected" ELSE tcpState
      /\ tcpFailed' \in {"no", "remove", "~TcpConnection"}
      /\ tcpFailed' = "remove" => tcpState # "kConnected" /\ events # {}
      /\ tcpFailed' = "~TcpConnection" => tcpState' # "kDisconnected"
  BY <1>1 DEF connectDestroyed
<1>3. tcpState' = "kDisconnected" \/ Excused'
  BY <1>1, <1>2
<1>4. AfterOwner'
  BY <1>1, <1>2, <1>3 DEF AfterOwner
<1>5. AfterFree' /\ freed' \in BOOLEAN
  <2>1. freed' /\ Covered(rest) => rest = << >>
    BY Zenon, <1>1, <1>2, CoveredEmpty
  <2> QED  BY <1>1, <1>2, <2>1 DEF AfterFree
<1>6. TcpAssertsHold'
  <2>1. tcpFailed' = "remove" => Excused' \/ "lateStart" \in hazards'
    BY <1>1, <1>2
  <2>2. tcpFailed' = "~TcpConnection" => Excused'
    BY <1>2, <1>3
  <2> QED  BY <1>2, <2>1, <2>2 DEF TcpAssertsHold, Excused
<1> QED  BY <1>4, <1>5, <1>6 DEF LifeInv

\* The invariant holds at first.
LEMMA LifeInvInit == TcpInit => LifeInv
<1>1. TcpInit => AfterOwner /\ AfterFree /\ TcpAssertsHold /\ freed \in BOOLEAN
  BY Zenon DEF TcpInit, AfterOwner, AfterFree, TcpAssertsHold
<1> QED  BY <1>1, OutInvInit DEF LifeInv

\* Every step keeps it.
LEMMA LifeInvKept ==
    ASSUME LifeInv, [TcpNext]_tcpVars
    PROVE  LifeInv'
<1>0. OutInv /\ OutInv'
  BY OutInvKept DEF LifeInv
<1>1. CASE UNCHANGED tcpVars \/ PeerResets
  <2>1. UNCHANGED <<owned, tcpState, events, functors, hazards, freed, tcpFailed>>
    BY <1>1 DEF tcpVars, PeerResets, lifeVars
  <2> QED  BY <1>0, <2>1 DEF LifeInv, AfterOwner, AfterFree, TcpAssertsHold, Excused, Covered
<1>2. CASE RunUserCallback
  <2>1. /\ functors # << >> /\ functors' = Rest /\ Drop(functors', holds) /\ tcpFailed = "no"
        /\ UNCHANGED <<owned, tcpState, events, hazards>>
    BY <1>2 DEF RunUserCallback, TcpRuns, Going
  <2> QED  BY <1>0, <2>1, DropLives
<1>3. CASE RunForceClose
  <2>1. functors # << >> /\ tcpFailed = "no" /\ ~freed /\ UNCHANGED hazards
    BY <1>3 DEF RunForceClose, TcpRuns, Going
  <2>2. CASE tcpState \in Up
    <3>1. handleClose(Rest) /\ UNCHANGED freed
      BY <1>3, <2>2 DEF RunForceClose
    <3> QED  BY <1>0, <2>1, <2>2, <3>1, CloseLives
  <2>3. CASE tcpState \notin Up
    <3>1. functors' = Rest /\ Drop(functors', holds) /\ UNCHANGED <<owned, tcpState, events>>
      BY <1>3, <2>3 DEF RunForceClose
    <3> QED  BY <1>0, <2>1, <3>1, DropLives
  <2> QED  BY <2>2, <2>3
<1>4. CASE RunDangling
  <2>1. /\ freed /\ functors # << >> /\ tcpFailed' = "dangling"
        /\ UNCHANGED <<owned, freed, tcpState, events, hazards>>
    BY <1>4 DEF RunDangling, lifeVars
  <2>2. "lateCall" \in hazards /\ ~owned
    BY <2>1 DEF LifeInv, AfterFree
  <2>3. AfterOwner' /\ AfterFree' /\ freed' \in BOOLEAN
    BY <2>1, <2>2 DEF LifeInv, AfterOwner, AfterFree, Excused
  <2> QED  BY <1>0, <2>1, <2>2, <2>3 DEF LifeInv, TcpAssertsHold
<1>5. CASE handleRead \/ HangUp
  <2>1. /\ tcpFailed = "no" /\ ~freed /\ UNCHANGED <<freed, hazards>> /\ handleClose(functors)
        /\ events # {}
    BY <1>5 DEF handleRead, HangUp, Going
  <2> QED  BY <1>0, <2>1, CloseLives
<1>6. ASSUME NEW t \in OtherThreads, Release(t)
      PROVE  LifeInv'
  <2>1. /\ functors' = functors /\ Drop(functors', holds') /\ tcpFailed = "no"
        /\ UNCHANGED <<owned, tcpState, events, hazards>>
    BY <1>6 DEF Release, MayCall, Going
  <2>2. PICK threads : threads = holds'
    OBVIOUS
  <2> QED  BY <1>0, <2>1, <2>2, DropLives
<1>7. CASE RunEstablished
  <2>1. tcpState = "kConnecting"
    BY <1>0, <1>7, FirstIsEstablished DEF TcpNext, RunFunctor
  <2> QED  BY <1>0, <1>7, <2>1, EstablishedLives
<1>8. CASE RunSend \/ LoopSend
  BY <1>0, <1>8, SendLives
<1>9. CASE \/ RunShutdown \/ LoopShutdown \/ RunReading \/ LoopReading \/ handleWrite
           \/ DelayOver \/ LoopForceClose
  BY <1>0, <1>9, LoopLives
<1>10. CASE RunDestroyed \/ OwnerGoes
  BY <1>0, <1>10, DestroyedLives
<1> QED
  BY <1>0, <1>1, <1>2, <1>3, <1>4, <1>5, <1>6, <1>7, <1>8, <1>9, <1>10, ThreadsLive
  DEF TcpNext, RunFunctor

\* The asserts hold but for the named races.
THEOREM TcpAssertsAlwaysHold == TcpSpec => []TcpAssertsHold
<1>1. LifeInv /\ [TcpNext]_tcpVars => LifeInv'
  BY LifeInvKept
<1>2. LifeInv => TcpAssertsHold
  BY DEF LifeInv
<1> QED  BY LifeInvInit, <1>1, <1>2, PTL DEF TcpSpec

-----------------------------------------------------------------------------
(* Messages lost on a shut down socket *)

\* Somebody other than the sender of m shut the connection down.
ByAnother(m, sn, by) == \E u \in by : u # sn[m]

\* What is queued: a shutdownInLoop() of somebody in `by`, and sendInLoop() of other
\* threads, each behind a shutdown only if that is another's.
Ordered(fs, sn, by, how) ==
    \A i \in DOMAIN fs :
        /\ fs[i][1] = "shutdownInLoop" => by # {}
        /\ fs[i][1] = "sendInLoop" =>
             /\ fs[i][2] \in DOMAIN sn /\ sn[fs[i][2]] \in OtherThreads
             /\ how = "shutdown" => ByAnother(fs[i][2], sn, by)
             /\ \A k \in DOMAIN fs :
                   k < i /\ fs[k][1] = "shutdownInLoop" => ByAnother(fs[i][2], sn, by)

LossExplained(ms, sn, by, how) ==
    \A m \in ms : /\ m \in DOMAIN sn /\ sn[m] \in OtherThreads
                  /\ how = "handleWrite" \/ ByAnother(m, sn, by)

\* shutdown() has not gone ahead yet.
Early(st) == st \in {"kConnecting", "kConnected"}

Methods == {"none", "send", "shutdown", "forceClose", "forceCloseWithDelay"}

\* A thread that shut down sends no more: it finds the connection no longer kConnected.
SentInv ==
    /\ OutInv
    /\ call \in [OtherThreads -> Methods]
    /\ shutWrite \in {"no", "shutdown", "handleWrite"}
    /\ Early(tcpState) => shutBy = {} /\ shutWrite = "no"
    /\ shutWrite = "shutdown" => shutBy # {}
    /\ \A t \in OtherThreads : call[t] = "send" => t \notin shutBy
    /\ Ordered(functors, sent, shutBy, shutWrite)
    /\ LossExplained(lost, sent, shutBy, shutWrite)

\* Running the first functor.
LEMMA OrderedTail ==
    ASSUME NEW fs \in Seq(TcpFunctor), fs # << >>, NEW sn, NEW by, NEW how,
           Ordered(fs, sn, by, how)
    PROVE  /\ Ordered(Tail(fs), sn, by, how)
           /\ Head(fs)[1] = "shutdownInLoop" => by # {} /\ Ordered(Tail(fs), sn, by, "shutdown")
           /\ Head(fs)[1] = "sendInLoop" =>
                /\ Head(fs)[2] \in DOMAIN sn /\ sn[Head(fs)[2]] \in OtherThreads
                /\ how = "shutdown" => ByAnother(Head(fs)[2], sn, by)
<1>1. /\ Len(Tail(fs)) = Len(fs) - 1 /\ Len(fs) \in Nat \ {0} /\ Tail(fs) \in Seq(TcpFunctor)
      /\ \A i \in 1 .. Len(Tail(fs)) : Tail(fs)[i] = fs[i + 1]
      /\ Head(fs) = fs[1]
  BY HeadTailProperties, LenProperties, EmptySeq
<1>2. DOMAIN fs = 1 .. Len(fs) /\ DOMAIN Tail(fs) = 1 .. Len(Tail(fs)) /\ 1 \in DOMAIN fs
  BY <1>1, LenProperties
<1>3. \A i \in DOMAIN Tail(fs) : /\ i \in Nat \ {0} /\ i + 1 \in DOMAIN fs
                                 /\ Tail(fs)[i] = fs[i + 1]
  BY SMTT(30), <1>1, <1>2
<1>4. ASSUME NEW h, h = how \/ (h = "shutdown" /\ fs[1][1] = "shutdownInLoop")
      PROVE  Ordered(Tail(fs), sn, by, h)
  <2> SUFFICES ASSUME NEW i \in DOMAIN Tail(fs)
               PROVE  /\ Tail(fs)[i][1] = "shutdownInLoop" => by # {}
                      /\ Tail(fs)[i][1] = "sendInLoop" =>
                           /\ Tail(fs)[i][2] \in DOMAIN sn /\ sn[Tail(fs)[i][2]] \in OtherThreads
                           /\ h = "shutdown" => ByAnother(Tail(fs)[i][2], sn, by)
                           /\ \A k \in DOMAIN Tail(fs) :
                                 k < i /\ Tail(fs)[k][1] = "shutdownInLoop"
                                     => ByAnother(Tail(fs)[i][2], sn, by)
    BY DEF Ordered
  <2>1. i \in Nat \ {0} /\ i + 1 \in DOMAIN fs /\ Tail(fs)[i] = fs[i + 1]
    BY <1>3
  <2>2. /\ fs[i + 1][1] = "shutdownInLoop" => by # {}
        /\ fs[i + 1][1] = "sendInLoop" =>
             /\ fs[i + 1][2] \in DOMAIN sn /\ sn[fs[i + 1][2]] \in OtherThreads
             /\ how = "shutdown" => ByAnother(fs[i + 1][2], sn, by)
             /\ \A k \in DOMAIN fs :
                   k < i + 1 /\ fs[k][1] = "shutdownInLoop" => ByAnother(fs[i + 1][2], sn, by)
    BY <2>1 DEF Ordered
  <2>3. fs[i + 1][1] = "sendInLoop" /\ h = "shutdown" => ByAnother(fs[i + 1][2], sn, by)
    <3>1. 1 < i + 1
      BY <2>1
    <3> QED  BY <1>2, <1>4, <2>2, <3>1
  <2>4. ASSUME NEW k \in DOMAIN Tail(fs), k < i, Tail(fs)[k][1] = "shutdownInLoop",
               fs[i + 1][1] = "sendInLoop"
        PROVE  ByAnother(fs[i + 1][2], sn, by)
    <3>1. k + 1 \in DOMAIN fs /\ k + 1 < i + 1 /\ fs[k + 1][1] = "shutdownInLoop"
      BY <1>3, <2>1, <2>4
    <3> QED  BY <2>2, <2>4, <3>1
  <2> QED  BY SMTT(30), <2>1, <2>2, <2>3, <2>4
<1>5. Ordered(Tail(fs), sn, by, how)
  BY SMTT(30), <1>4
<1>6. Head(fs)[1] = "shutdownInLoop" => by # {} /\ Ordered(Tail(fs), sn, by, "shutdown")
  BY <1>1, <1>2, <1>4 DEF Ordered
<1>7. Head(fs)[1] = "sendInLoop" =>
        /\ Head(fs)[2] \in DOMAIN sn /\ sn[Head(fs)[2]] \in OtherThreads
        /\ how = "shutdown" => ByAnother(Head(fs)[2], sn, by)
  BY SMTT(30), <1>1, <1>2 DEF Ordered
<1> QED  BY <1>5, <1>6, <1>7

\* Queueing another functor: a sendInLoop() only of a thread that did not shut down.
LEMMA OrderedAppend ==
    ASSUME NEW fs \in Seq(TcpFunctor), NEW f \in TcpFunctor, NEW sn, NEW by, NEW how,
           Ordered(fs, sn, by, how),
           f[1] = "shutdownInLoop" => by # {},
           how = "shutdown" => by # {},
           f[1] = "sendInLoop" => /\ f[2] \in DOMAIN sn /\ sn[f[2]] \in OtherThreads
                                  /\ sn[f[2]] \notin by
    PROVE  Ordered(Append(fs, f), sn, by, how)
<1> DEFINE g == Append(fs, f)
<1>1. /\ g \in Seq(TcpFunctor) /\ Len(fs) \in Nat /\ Len(g) = Len(fs) + 1
      /\ \A i \in 1 .. Len(fs) : g[i] = fs[i]
      /\ g[Len(fs) + 1] = f
  BY AppendProperties, LenProperties
<1>2. DOMAIN fs = 1 .. Len(fs) /\ DOMAIN g = 1 .. Len(fs) + 1
  BY <1>1, LenProperties
<1> HIDE DEF g
<1>3. \A i \in DOMAIN g : \/ i \in DOMAIN fs /\ g[i] = fs[i]
                          \/ i = Len(fs) + 1 /\ g[i] = f
  BY <1>1, <1>2
<1>4. f[1] = "sendInLoop" /\ by # {} => ByAnother(f[2], sn, by)
  BY SMTT(30) DEF ByAnother
<1> SUFFICES ASSUME NEW i \in DOMAIN g
             PROVE  /\ g[i][1] = "shutdownInLoop" => by # {}
                    /\ g[i][1] = "sendInLoop" =>
                         /\ g[i][2] \in DOMAIN sn /\ sn[g[i][2]] \in OtherThreads
                         /\ how = "shutdown" => ByAnother(g[i][2], sn, by)
                         /\ \A k \in DOMAIN g :
                               k < i /\ g[k][1] = "shutdownInLoop" => ByAnother(g[i][2], sn, by)
  BY SMTT(30) DEF Ordered, g
<1>5. CASE i \in DOMAIN fs /\ g[i] = fs[i]
  <2>1. \A k \in DOMAIN g : k < i => k \in DOMAIN fs /\ g[k] = fs[k]
    BY SMTT(30), <1>1, <1>2, <1>3, <1>5
  <2> QED  BY SMTT(30), <1>5, <2>1 DEF Ordered
<1>6. CASE i = Len(fs) + 1 /\ g[i] = f
  <2>1. \A k \in DOMAIN g : g[k][1] = "shutdownInLoop" => by # {}
    BY SMTT(30), <1>3 DEF Ordered
  <2> QED  BY SMTT(30), <1>4, <1>6, <2>1
<1> QED  BY Zenon, <1>3, <1>5, <1>6

\* More messages, more shutdowns, and how the socket was shut down.
LEMMA OrderedMore ==
    ASSUME NEW fs, NEW sn, NEW by, NEW how, Ordered(fs, sn, by, how),
           NEW sn2, \A m \in DOMAIN sn : m \in DOMAIN sn2 /\ sn2[m] = sn[m],
           NEW by2, by \subseteq by2, NEW how2,
           how2 = "shutdown" => how = "shutdown" \/ LoopThread \in by2
    PROVE  Ordered(fs, sn2, by2, how2)
<1>1. ASSUME NEW m \in DOMAIN sn, ByAnother(m, sn, by)
      PROVE  ByAnother(m, sn2, by2)
  BY <1>1 DEF ByAnother
<1>2. ASSUME NEW m \in DOMAIN sn, sn[m] \in OtherThreads, LoopThread \in by2
      PROVE  ByAnother(m, sn2, by2)
  BY <1>2, OtherAssumption DEF ByAnother
<1> QED  BY <1>1, <1>2 DEF Ordered

\* The same for the messages already lost.
LEMMA LossMore ==
    ASSUME NEW ms, NEW sn, NEW by, NEW how, LossExplained(ms, sn, by, how),
           NEW sn2, \A m \in DOMAIN sn : m \in DOMAIN sn2 /\ sn2[m] = sn[m],
           NEW by2, by \subseteq by2, NEW how2, how = "handleWrite" => how2 = "handleWrite"
    PROVE  LossExplained(ms, sn2, by2, how2)
  BY DEF LossExplained, ByAnother

\* The messages sent so far keep their senders.
LEMMA SentGrows ==
    ASSUME NEW sn \in Seq(TcpThreads), NEW t \in TcpThreads
    PROVE  \A m \in DOMAIN sn : m \in DOMAIN Append(sn, t) /\ Append(sn, t)[m] = sn[m]
<1>1. /\ Append(sn, t) \in Seq(TcpThreads) /\ Len(sn) \in Nat /\ Len(Append(sn, t)) = Len(sn) + 1
      /\ \A i \in 1 .. Len(sn) : Append(sn, t)[i] = sn[i]
  BY AppendProperties, LenProperties
<1>2. DOMAIN sn = 1 .. Len(sn) /\ DOMAIN Append(sn, t) = 1 .. Len(sn) + 1
  BY <1>1, LenProperties
<1> QED  BY <1>1, <1>2

\* A step that sends, shuts down and loses nothing.
LEMMA SentSteady ==
    ASSUME SentInv, OutInv', UNCHANGED <<sent, shutWrite, shutBy, lost>>,
           call' \in [OtherThreads -> Methods],
           \A t \in OtherThreads : call'[t] = "send" => call[t] = "send" \/ t \notin shutBy,
           Early(tcpState') => Early(tcpState),
           Ordered(functors', sent, shutBy, shutWrite)
    PROVE  SentInv'
  BY DEF SentInv

\* A functor that neither sends nor shuts down is queued, or the first one runs.
LEMMA OrderedStep ==
    ASSUME SentInv, NEW fs, NEW name \in FunctorNames \ {"sendInLoop", "shutdownInLoop"},
           fs \in {functors, Append(functors, <<name, 0>>)}
           \/ (functors # << >> /\ fs \in {Rest, Append(Rest, <<name, 0>>)})
    PROVE  Ordered(fs, sent, shutBy, shutWrite)
<1>1. functors \in Seq(TcpFunctor) /\ Ordered(functors, sent, shutBy, shutWrite)
  BY FunctorsListed DEF SentInv
<1>2. functors # << >> => Rest \in Seq(TcpFunctor) /\ Ordered(Rest, sent, shutBy, shutWrite)
  BY <1>1, OrderedTail, HeadTailProperties DEF Rest
<1>3. /\ <<name, 0>> \in TcpFunctor /\ <<name, 0>>[1] \notin {"sendInLoop", "shutdownInLoop"}
      /\ shutWrite = "shutdown" => shutBy # {}
  BY DEF TcpFunctor, SentInv
<1> QED  BY Zenon, <1>1, <1>2, <1>3, OrderedAppend

\* Functors, handlers and calls on the loop thread that do not touch the write side.
LEMMA LoopSends ==
    ASSUME SentInv, OutInv', 
           \/ RunReading \/ LoopReading \/ RunUserCallback \/ RunForceClose \/ RunDestroyed
           \/ RunDangling \/ handleRead \/ HangUp \/ OwnerGoes \/ DelayOver \/ LoopForceClose
    PROVE  SentInv'
<1>1. UNCHANGED <<sent, shutWrite, shutBy, lost, call>>
  BY ZenonT(60)
  DEF RunReading, LoopReading, RunUserCallback, RunForceClose, RunDestroyed, RunDangling,
      handleRead, HangUp, OwnerGoes, DelayOver, LoopForceClose, connectDestroyed, streamVars
<1>2. Early(tcpState') => Early(tcpState)
  BY Zenon
  DEF RunReading, LoopReading, RunUserCallback, RunForceClose, RunDestroyed, RunDangling,
      handleRead, HangUp, OwnerGoes, DelayOver, LoopForceClose, connectDestroyed, handleClose,
      forceClose, Early
<1>3. \E name \in {"forceCloseInLoop", "connectDestroyed"} :
          \/ functors' \in {functors, Append(functors, <<name, 0>>)}
          \/ functors # << >> /\ functors' \in {Rest, Append(Rest, <<name, 0>>)}
  <2>1. CASE RunReading \/ LoopReading \/ RunUserCallback \/ RunDestroyed \/ RunDangling \/ OwnerGoes
    BY Zenon, <2>1
    DEF RunReading, LoopReading, RunUserCallback, RunDestroyed, RunDangling, OwnerGoes,
        TcpRuns, connectDestroyed
  <2>2. CASE RunForceClose \/ handleRead \/ HangUp
    BY <2>2 DEF RunForceClose, handleRead, HangUp, TcpRuns, handleClose
  <2>3. CASE DelayOver \/ LoopForceClose
    BY <2>3 DEF DelayOver, LoopForceClose, forceClose
  <2> QED  BY SMTT(30), <2>1, <2>2, <2>3
<1>4. {"forceCloseInLoop", "connectDestroyed"} \subseteq
          FunctorNames \ {"sendInLoop", "shutdownInLoop"}
  BY DEF FunctorNames, Shared
<1>5. PICK fs : fs = functors'
  OBVIOUS
<1>6. Ordered(functors', sent, shutBy, shutWrite)
  BY <1>3, <1>4, <1>5, OrderedStep
<1>7. call \in [OtherThreads -> Methods]
  BY DEF SentInv
<1> QED  BY SMTT(30), <1>1, <1>2, <1>6, <1>7, SentSteady

\* connectEstablished().
LEMMA EstablishedSends ==
    ASSUME SentInv, OutInv', RunEstablished, tcpState = "kConnecting"
    PROVE  SentInv'
<1>1. /\ UNCHANGED <<sent, shutWrite, shutBy, lost, call>> /\ functors' = Rest /\ functors # << >>
      /\ call \in [OtherThreads -> Methods] /\ Early(tcpState)
  BY DEF RunEstablished, TcpRuns, streamVars, SentInv, Early
<1>2. "connectDestroyed" \in FunctorNames \ {"sendInLoop", "shutdownInLoop"}
  BY DEF FunctorNames, Shared
<1>3. PICK fs : fs = functors'
  OBVIOUS
<1>4. Ordered(functors', sent, shutBy, shutWrite)
  BY <1>1, <1>2, <1>3, OrderedStep
<1> QED  BY <1>1, <1>4, SentSteady

\* A queued sendInLoop() finds the socket shut down by handleWrite() or by another.
LEMMA RunSendSends ==
    ASSUME SentInv, OutInv', RunSend
    PROVE  SentInv'
<1>0. functors # << >> /\ Head(functors)[1] = "sendInLoop"
  BY DEF RunSend, TcpRuns, Head1
<1>1. /\ functors \in Seq(TcpFunctor) /\ Ordered(functors, sent, shutBy, shutWrite)
      /\ Rest \in Seq(TcpFunctor)
  BY <1>0, FunctorsListed, HeadTailProperties DEF SentInv, Rest
<1>2. PICK m : m = Head(functors)[2]
  BY SMTT(30)
<1>3. PICK n \in 0 .. MessageLength : sendInLoop(m, n, Rest)
  BY SMTT(30), <1>2 DEF RunSend
<1>4. /\ UNCHANGED <<sent, shutWrite, shutBy, call, tcpState>>
      /\ lost' = lost \/ (lost' = lost \union {m} /\ shutWrite # "no")
  BY SMTT(30), <1>3 DEF RunSend, sendInLoop, streamVars
<1>5. /\ m \in DOMAIN sent /\ sent[m] \in OtherThreads
      /\ shutWrite = "shutdown" => ByAnother(m, sent, shutBy)
  BY <1>0, <1>1, <1>2, OrderedTail
<1>6. functors' \in {Rest, Rest \o <<<<"writeComplete", 0>>>>,
                     Rest \o <<<<"highWaterMark", 0>>>>, Rest \o << >>}
  BY Zenon, <1>3 DEF sendInLoop
<1>7. functors' \in {Rest, Append(Rest, <<"writeComplete", 0>>),
                     Append(Rest, <<"highWaterMark", 0>>)}
  <2>1. <<"writeComplete", 0>> \in TcpFunctor /\ <<"highWaterMark", 0>> \in TcpFunctor
    BY DEF TcpFunctor, FunctorNames, Shared
  <2> QED  BY <1>1, <1>6, <2>1, AppendIsConcat, ConcatEmptySeq
<1>8. Ordered(functors', sent, shutBy, shutWrite)
  <2>1. {"writeComplete", "highWaterMark"} \subseteq FunctorNames \ {"sendInLoop", "shutdownInLoop"}
    BY DEF FunctorNames, Shared
  <2>2. PICK fs : fs = functors'
    OBVIOUS
  <2> QED  BY <1>0, <1>7, <2>1, <2>2, OrderedStep
<1>9. LossExplained(lost', sent, shutBy, shutWrite)
  BY <1>4, <1>5 DEF SentInv, LossExplained
<1> QED  BY <1>4, <1>8, <1>9 DEF SentInv

\* The loop thread sends only on a connection nobody has shut down.
LEMMA LoopSendSends ==
    ASSUME SentInv, OutInv', LoopSend
    PROVE  SentInv'
<1>1. /\ tcpState = "kConnected" /\ sent' = Append(sent, LoopThread)
      /\ UNCHANGED <<shutWrite, shutBy, call, tcpState>>
      /\ shutBy = {} /\ shutWrite = "no"
  BY DEF LoopSend, SentInv, Early
<1>2. PICK n \in 0 .. MessageLength : sendInLoop(Len(sent'), n, functors)
  BY DEF LoopSend
<1>3. lost' = lost
  BY <1>1, <1>2 DEF sendInLoop, streamVars
<1>4. /\ functors \in Seq(TcpFunctor) /\ sent \in Seq(TcpThreads)
  BY FunctorsListed DEF SentInv, OutInv, OutTypeOK
<1>5. functors' \in {functors, functors \o <<<<"writeComplete", 0>>>>,
                     functors \o <<<<"highWaterMark", 0>>>>, functors \o << >>}
  BY Zenon, <1>2 DEF sendInLoop
<1>6. functors' \in {functors, Append(functors, <<"writeComplete", 0>>),
                     Append(functors, <<"highWaterMark", 0>>)}
  <2>1. <<"writeComplete", 0>> \in TcpFunctor /\ <<"highWaterMark", 0>> \in TcpFunctor
    BY DEF TcpFunctor, FunctorNames, Shared
  <2> QED  BY <1>4, <1>5, <2>1, AppendIsConcat, ConcatEmptySeq
<1>7. Ordered(functors', sent, shutBy, shutWrite)
  <2>1. {"writeComplete", "highWaterMark"} \subseteq FunctorNames \ {"sendInLoop", "shutdownInLoop"}
    BY DEF FunctorNames, Shared
  <2>2. PICK fs : fs = functors'
    OBVIOUS
  <2> QED  BY <1>6, <2>1, <2>2, OrderedStep
<1>8. \A m \in DOMAIN sent : m \in DOMAIN sent' /\ sent'[m] = sent[m]
  BY <1>1, <1>4, SentGrows DEF TcpThreads
<1>9. /\ Ordered(functors', sent', shutBy, shutWrite)
      /\ LossExplained(lost, sent', shutBy, shutWrite)
  <2>1. PICK sn2 : sn2 = sent'
    OBVIOUS
  <2>2. PICK fs : fs = functors'
    OBVIOUS
  <2> QED  BY Zenon, <1>1, <1>7, <1>8, <2>1, <2>2, OrderedMore, LossMore DEF SentInv
<1> QED  BY <1>1, <1>3, <1>9 DEF SentInv

\* shutdownInLoop(), queued or in place, and the shutdown handleWrite() makes up for.
LEMMA ShutdownSends ==
    ASSUME SentInv, OutInv', RunShutdown \/ LoopShutdown \/ handleWrite
    PROVE  SentInv'
<1>0. /\ functors \in Seq(TcpFunctor) /\ Ordered(functors, sent, shutBy, shutWrite)
      /\ LossExplained(lost, sent, shutBy, shutWrite)
      /\ shutWrite \in {"no", "shutdown", "handleWrite"}
      /\ shutWrite = "shutdown" => shutBy # {}
  BY FunctorsListed DEF SentInv
<1>1. CASE RunShutdown
  <2>1. /\ functors # << >> /\ Head(functors)[1] = "shutdownInLoop" /\ functors' = Tail(functors)
        /\ UNCHANGED <<sent, shutBy, call, tcpState, lost>> /\ shutWrite' = shutdownInLoop
    BY SMTT(30), <1>1 DEF RunShutdown, TcpRuns, Head1, Rest, streamVars
  <2>2. /\ Ordered(functors', sent, shutBy, shutWrite) /\ shutBy # {}
        /\ Ordered(functors', sent, shutBy, "shutdown")
    BY <1>0, <2>1, OrderedTail
  <2>3. shutWrite' = shutWrite \/ (shutWrite' = "shutdown" /\ shutWrite = "no")
    BY <2>1 DEF shutdownInLoop
  <2>4. LossExplained(lost, sent, shutBy, shutWrite')
    BY <1>0, <2>3 DEF LossExplained
  <2>5. Ordered(functors', sent, shutBy, shutWrite') /\ ~Early(tcpState)
    BY <2>2, <2>3 DEF SentInv
  <2> QED  BY <2>1, <2>2, <2>3, <2>4, <2>5 DEF SentInv
<1>2. CASE LoopShutdown
  <2>1. /\ UNCHANGED <<sent, call, lost, functors>> /\ shutWrite' = shutdownInLoop
        /\ shutBy' = shutBy \union {LoopThread} /\ tcpState' = "kDisconnecting"
    BY <1>2 DEF LoopShutdown, streamVars
  <2>2. shutWrite' = shutWrite \/ (shutWrite' = "shutdown" /\ shutWrite = "no")
    BY <2>1 DEF shutdownInLoop
  <2>3. PICK by2, how2 : by2 = shutBy' /\ how2 = shutWrite'
    OBVIOUS
  <2>4. /\ Ordered(functors, sent, shutBy', shutWrite')
        /\ LossExplained(lost, sent, shutBy', shutWrite')
    BY Zenon, <1>0, <2>1, <2>2, <2>3, OrderedMore, LossMore
  <2>5. \A t \in OtherThreads : call'[t] = "send" => t \notin shutBy'
    BY <2>1, OtherAssumption DEF SentInv
  <2>6. ~Early(tcpState')
    BY <2>1 DEF Early
  <2> QED  BY <1>0, <2>1, <2>2, <2>4, <2>5, <2>6 DEF SentInv
<1>3. CASE handleWrite
  <2>1. /\ UNCHANGED <<sent, shutBy, call, tcpState, lost>>
        /\ functors' \in {functors, Append(functors, <<"writeComplete", 0>>)}
        /\ \/ shutWrite' = shutWrite
           \/ shutWrite' = "handleWrite" /\ tcpState = "kDisconnecting"
    BY <1>3 DEF handleWrite
  <2>2. "writeComplete" \in FunctorNames \ {"sendInLoop", "shutdownInLoop"}
    BY DEF FunctorNames, Shared
  <2>3. PICK fs, how2 : fs = functors' /\ how2 = shutWrite'
    OBVIOUS
  <2>4. Ordered(functors', sent, shutBy, shutWrite)
    BY <2>1, <2>2, <2>3, OrderedStep
  <2>5. /\ Ordered(functors', sent, shutBy, shutWrite')
        /\ LossExplained(lost, sent, shutBy, shutWrite')
    BY Zenon, <1>0, <2>1, <2>3, <2>4, OrderedMore, LossMore
  <2>6. Early(tcpState) => shutWrite' = shutWrite
    BY <2>1 DEF Early
  <2> QED  BY <1>0, <2>1, <2>5, <2>6 DEF SentInv
<1> QED  BY <1>1, <1>2, <1>3

\* Other threads: whoever sends finds the connection kConnected, so has not shut down.
LEMMA ThreadsSend ==
    ASSUME SentInv, OutInv', NEW t \in OtherThreads,
           \/ CallSend(t) \/ QueueSend(t) \/ CallOther(t) \/ WriteState(t)
           \/ CallReading(t) \/ Release(t)
    PROVE  SentInv'
<1>0. /\ functors \in Seq(TcpFunctor) /\ Ordered(functors, sent, shutBy, shutWrite)
      /\ LossExplained(lost, sent, shutBy, shutWrite) /\ sent \in Seq(TcpThreads)
      /\ shutWrite = "shutdown" => shutBy # {}
      /\ call \in [OtherThreads -> Methods]
  BY SMTT(30), FunctorsListed DEF SentInv, OutInv, OutTypeOK
<1>1. CASE CallSend(t)
  <2>1. /\ tcpState = "kConnected" /\ sent' = Append(sent, t) /\ call' = [call EXCEPT ![t] = "send"]
        /\ UNCHANGED <<tcpState, functors, lost, shutBy, shutWrite>>
    BY <1>1 DEF CallSend, TestState, streamVars
  <2>2. shutBy = {}
    BY SMTT(30), <2>1 DEF SentInv, Early
  <2>3. \A m \in DOMAIN sent : m \in DOMAIN sent' /\ sent'[m] = sent[m]
    BY Zenon, <1>0, <2>1, SentGrows DEF TcpThreads
  <2>4. PICK sn2 : sn2 = sent'
    OBVIOUS
  <2>5. /\ Ordered(functors, sent', shutBy, shutWrite)
        /\ LossExplained(lost, sent', shutBy, shutWrite)
    <3>1. Ordered(functors, sn2, shutBy, shutWrite)
      BY Zenon, <1>0, <2>3, <2>4, OrderedMore
    <3>2. LossExplained(lost, sn2, shutBy, shutWrite)
      BY <1>0, <2>3, <2>4, LossMore
    <3> QED  BY <2>4, <3>1, <3>2
  <2>6. call' \in [OtherThreads -> Methods]
    BY <1>0, <2>1 DEF Methods
  <2> QED  BY Zenon, <2>1, <2>2, <2>5, <2>6 DEF SentInv
<1>2. CASE CallOther(t) \/ CallReading(t) \/ Release(t)
  <2>1. /\ UNCHANGED <<tcpState, sent, lost, shutBy, shutWrite>>
        /\ \/ call' = call
           \/ \E c \in {"shutdown", "forceClose", "forceCloseWithDelay"} :
                 call' = [call EXCEPT ![t] = c]
    BY <1>2 DEF CallOther, CallReading, Release, TestState, streamVars
  <2>2. /\ call' \in [OtherThreads -> Methods]
        /\ \A u \in OtherThreads : call'[u] = "send" => call[u] = "send"
    BY SMTT(30), <1>0, <2>1 DEF Methods
  <2>3. functors' \in {functors, Append(functors, <<"startReadInLoop", 0>>),
                       Append(functors, <<"stopReadInLoop", 0>>)}
    BY <1>2 DEF CallOther, CallReading, Release, TestState
  <2>4. {"startReadInLoop", "stopReadInLoop"} \subseteq
            FunctorNames \ {"sendInLoop", "shutdownInLoop"}
    BY DEF FunctorNames
  <2>5. PICK fs : fs = functors'
    OBVIOUS
  <2>6. Ordered(functors', sent, shutBy, shutWrite)
    BY <2>3, <2>4, <2>5, OrderedStep
  <2> QED  BY SMTT(30), <2>1, <2>2, <2>6, SentSteady
<1>3. CASE QueueSend(t)
  <2>1. PICK m \in DOMAIN sent : sent[m] = t /\ functors' = Append(functors, <<"sendInLoop", m>>)
    BY <1>3 DEF QueueSend
  <2>2. /\ UNCHANGED <<tcpState, sent, lost, shutBy, shutWrite>> /\ call[t] = "send"
        /\ call' = [call EXCEPT ![t] = "none"]
    BY <1>3 DEF QueueSend, streamVars
  <2>3. t \notin shutBy
    BY <2>2 DEF SentInv
  <2>4. /\ <<"sendInLoop", m>> \in TcpFunctor
        /\ <<"sendInLoop", m>>[1] = "sendInLoop" /\ <<"sendInLoop", m>>[2] = m
    <3>1. m \in Nat
      BY <1>0, LenProperties
    <3> QED  BY <3>1 DEF TcpFunctor, FunctorNames
  <2>5. Ordered(functors', sent, shutBy, shutWrite)
    <3>1. PICK f \in TcpFunctor : f = <<"sendInLoop", m>>
      BY <2>4
    <3> QED  BY Zenon, <1>0, <2>1, <2>3, <2>4, <3>1, OrderedAppend
  <2>6. /\ call' \in [OtherThreads -> Methods]
        /\ \A u \in OtherThreads : call'[u] = "send" => call[u] = "send"
    BY SMTT(30), <1>0, <2>2 DEF Methods
  <2> QED  BY <2>2, <2>5, <2>6, SentSteady
<1>4. CASE WriteState(t)
  <2>1. /\ UNCHANGED <<sent, lost, shutWrite>> /\ call[t] # "send"
        /\ call' = [call EXCEPT ![t] = "none"] /\ tcpState' = "kDisconnecting"
        /\ shutBy' = IF call[t] = "shutdown" THEN shutBy \union {t} ELSE shutBy
        /\ functors' \in {functors, Append(functors, <<"forceCloseInLoop", 0>>)}
           \/ (call[t] = "shutdown" /\ functors' = Append(functors, <<"shutdownInLoop", 0>>))
    BY <1>4 DEF WriteState, streamVars
  <2>2. PICK by2, fs : by2 = shutBy' /\ fs = functors'
    OBVIOUS
  <2>3. /\ Ordered(functors, sent, shutBy', shutWrite)
        /\ LossExplained(lost, sent, shutBy', shutWrite)
    BY Zenon, <1>0, <2>1, <2>2, OrderedMore, LossMore
  <2>4. Ordered(functors', sent, shutBy', shutWrite)
    <3>1. /\ <<"shutdownInLoop", 0>> \in TcpFunctor /\ <<"forceCloseInLoop", 0>> \in TcpFunctor
          /\ <<"shutdownInLoop", 0>>[1] = "shutdownInLoop"
          /\ <<"forceCloseInLoop", 0>>[1] = "forceCloseInLoop"
      BY DEF TcpFunctor, FunctorNames, Shared
    <3>2. /\ shutWrite = "shutdown" => by2 # {}
          /\ call[t] = "shutdown" => by2 # {}
      BY Zenon, <1>0, <2>1, <2>2
    <3>3. Ordered(functors, sent, by2, shutWrite)
      BY <2>2, <2>3
    <3> QED  BY Zenon, <1>0, <2>1, <2>2, <3>1, <3>2, <3>3, OrderedAppend
  <2>5. /\ call' \in [OtherThreads -> Methods]
        /\ \A u \in OtherThreads : call'[u] = "send" => u \notin shutBy'
    BY <1>0, <2>1 DEF Methods, SentInv
  <2>6. ~Early(tcpState') /\ (shutWrite = "shutdown" => shutBy' # {})
    BY <1>0, <2>1 DEF Early
  <2> QED  BY Zenon, <2>1, <2>3, <2>4, <2>5, <2>6 DEF SentInv
<1> QED  BY <1>1, <1>2, <1>3, <1>4

\* The invariant holds at first.
LEMMA SentInvInit == TcpInit => SentInv
<1> SUFFICES ASSUME TcpInit PROVE SentInv
  OBVIOUS
<1>1. OutInv
  BY OutInvInit
<1>2. Ordered(functors, sent, shutBy, shutWrite) /\ LossExplained(lost, sent, shutBy, shutWrite)
  BY DEF TcpInit, Ordered, LossExplained
<1>3. call \in [OtherThreads -> Methods]
  BY DEF TcpInit, Methods
<1> QED  BY <1>1, <1>2, <1>3 DEF SentInv, TcpInit

\* No message of the loop thread is lost, and that of a thread that alone shut down
\* only by handleWrite()'s own shutdown.
THEOREM SentNotLost == TcpSpec => []SentIsNotLost
<1>1. SentInv /\ [TcpNext]_tcpVars => SentInv'
  <2> SUFFICES ASSUME SentInv, [TcpNext]_tcpVars PROVE SentInv'
    OBVIOUS
  <2>0. OutInv /\ OutInv'
    BY OutInvKept DEF SentInv
  <2>1. CASE UNCHANGED tcpVars \/ PeerResets
    <3>1. UNCHANGED <<sent, shutWrite, shutBy, lost, call, tcpState, functors>>
      BY <2>1 DEF tcpVars, PeerResets, streamVars
    <3> QED  BY <2>0, <3>1 DEF SentInv
  <2>2. CASE RunEstablished
    <3>1. tcpState = "kConnecting"
      BY <2>0, <2>2, FirstIsEstablished DEF TcpNext, RunFunctor
    <3> QED  BY <2>0, <2>2, <3>1, EstablishedSends
  <2> QED
    BY <2>0, <2>1, <2>2, LoopSends, RunSendSends, LoopSendSends, ShutdownSends, ThreadsSend
    DEF TcpNext, RunFunctor
<1>2. SentInv => SentIsNotLost
  <2> SUFFICES ASSUME SentInv, NEW m \in lost
               PROVE  sent[m] # LoopThread /\ (shutBy = {sent[m]} => shutWrite = "handleWrite")
    BY DEF SentIsNotLost
  <2> QED  BY OtherAssumption DEF SentInv, LossExplained, ByAnother
<1> QED  BY SentInvInit, <1>1, <1>2, PTL DEF TcpSpec
=============================================================================
