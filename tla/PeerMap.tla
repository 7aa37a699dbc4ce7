------------------------------- MODULE PeerMap -------------------------------
(***************************************************************************)
(* The acceptor's std::map of peers, ordered by InetAddress::operator<.    *)
(* That order compares addresses, then ports whatever the addresses are,   *)
(* so that each of two peers may come before the other.  The map is kept   *)
(* as the red-black tree that it is, of at most three peers: its keys from *)
(* left to right and the position of its root.  Three keys have the middle *)
(* one at the root; the root of two depends on what was done before.       *)
(***************************************************************************)
EXTENDS Integers, Sequences, FiniteSets

CONSTANT Peers      \* addresses, records with an ip and a port

ASSUME PeersAssumption == Peers \subseteq [ip : Nat, port : Nat]

VARIABLES
    keys,     \* the keys of peerAddrToUdpConnectors_, from left to right
    root,     \* the position of the root, 0 in the empty map
    known     \* peers that have a connector which was not erased

peerVars == <<keys, root, known>>

\* Broken variant: equal ports count as less.
LessOrEqual(a, b) == a.ip < b.ip \/ a.port <= b.port

\* InetAddress::operator<
Less(a, b) == a.ip < b.ip \/ a.port < b.port

MaxKeys == 3
Has(i) == i \in 1 .. Len(keys)

\* lower_bound(): the position found, or one past the last.
LowerBound(p) ==
    IF keys = <<>> THEN 1
    ELSE IF ~Less(keys[root], p)
    THEN IF Has(root - 1) /\ ~Less(keys[root - 1], p) THEN root - 1 ELSE root
    ELSE IF Has(root + 1) /\ ~Less(keys[root + 1], p) THEN root + 1 ELSE Len(keys) + 1

\* find(): the position of p, or 0.
Find(p) ==
    LET i == LowerBound(p) IN
    IF ~Has(i) \/ Less(p, keys[i]) THEN 0 ELSE i

\* Where a search for the place of p ends: at the root or at its child.
Bottom(p) ==
    LET side == IF Less(p, keys[root]) THEN root - 1 ELSE root + 1
    IN  IF Has(side) THEN side ELSE root

\* The search ends beside a key that is not less than p: operator[] takes it
\* for p and gives its entry.
Taken(p) ==
    LET b == Bottom(p)
        j == IF Less(p, keys[b]) THEN b - 1 ELSE b
    IN  j # 0 /\ ~Less(keys[j], p)

\* operator[] puts p beside the position that lower_bound() gives if the key
\* before it is less than p, and where a search ends otherwise.  The node
\* that p is put under is compared with p once more to choose the side.
Hinted(p) == LET i == LowerBound(p) IN i = 1 \/ Less(keys[i - 1], p)

Parent(p) ==
    LET i == LowerBound(p) IN
    IF ~Hinted(p) THEN Bottom(p)
    ELSE IF i > 1 /\ ~(i - 1 = root /\ Has(i)) THEN i - 1 ELSE i

Left(p) ==
    LET i == LowerBound(p) IN
    (Hinted(p) /\ Parent(p) = i) \/ Less(p, keys[Parent(p)])

PlaceOf(p) ==
    IF keys = <<>> THEN 1 ELSE IF Left(p) THEN Parent(p) ELSE Parent(p) + 1

\* The side chosen already has a key, which the new one replaces in the tree.
Overwrites(p) ==
    /\ keys # <<>> /\ Parent(p) = root
    /\ Has(IF Left(p) THEN root - 1 ELSE root + 1)

Inserted(p) ==
    LET i == PlaceOf(p)
        old == IF Left(p) THEN root - 1 ELSE root + 1
    IN  IF keys # <<>> /\ Overwrites(p) THEN [keys EXCEPT ![old] = p]
        ELSE SubSeq(keys, 1, i - 1) \o <<p>> \o SubSeq(keys, i, Len(keys))

\* A new key is a leaf; three keys are balanced.
RootAfterInsert(p) ==
    CASE keys = <<>> -> 1
      [] keys # <<>> /\ Overwrites(p) -> root
      [] Len(keys) = 1 /\ ~Overwrites(p) -> IF PlaceOf(p) = 1 THEN 2 ELSE 1
      [] OTHER -> 2

\* UdpAcceptor::handleRead(): a peer that is not found gets a connector.
AcceptorHandleRead(p) ==
    /\ Len(keys) < MaxKeys
    /\ Find(p) = 0
    /\ known' = known \cup {p}
    /\ IF keys # <<>> /\ ~Hinted(p) /\ Taken(p) THEN UNCHANGED <<keys, root>>
       ELSE keys' = Inserted(p) /\ root' = RootAfterInsert(p)

\* The root of a map of three, erased, is replaced by its successor; of two
\* keys the other one is left.
RootAfterErase(i) ==
    CASE Len(keys) = 3 -> IF i = 1 THEN 1 ELSE 2
      [] Len(keys) = 2 -> 1
      [] OTHER -> 0

\* EraseConnector() of a peer that the map finds, one second after
\* RemoveConnector() found it too.
EraseConnector(p) ==
    LET i == Find(p) IN
    /\ p \in known /\ i # 0
    /\ keys' = [j \in 1 .. Len(keys) - 1 |-> IF j < i THEN keys[j] ELSE keys[j + 1]]
    /\ root' = RootAfterErase(i)
    /\ known' = known \ {p}

PeersInit == keys = <<>> /\ root = 0 /\ known = {}
PeersNext == \E p \in Peers : AcceptorHandleRead(p) \/ EraseConnector(p)
PeersSpec == PeersInit /\ [][PeersNext]_peerVars

-----------------------------------------------------------------------------
\* Each peer with a connector is found, at its own key: handleRead() does not
\* make it a second connector and the assert(peerAddrToUdpConnectors_[peerAddr])
\* of RemoveConnector() holds (UdpAcceptor.cpp:109).
FindsKnown == \A p \in known : Find(p) # 0 /\ keys[Find(p)] = p

\* The map has one entry for each peer that has a connector, and no other.
OneEntryEach == {keys[i] : i \in 1 .. Len(keys)} = known /\ Len(keys) = Cardinality(known)

\* No two peers come before each other.
Consistent(S) == \A a, b \in S : ~(Less(a, b) /\ Less(b, a))

StrictTotalOrder(S) ==
    /\ \A a \in S : ~Less(a, a)
    /\ \A a, b, c \in S : Less(a, b) /\ Less(b, c) => Less(a, c)
    /\ \A a, b \in S : a = b \/ Less(a, b) \/ Less(b, a)
=============================================================================
