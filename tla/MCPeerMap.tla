------------------------------ MODULE MCPeerMap ------------------------------
(* Peers for PeerMap. *)
EXTENDS PeerMap

Addr(i, q) == [ip |-> i, port |-> q]

\* Hosts whose ports grow with their addresses.
OrderedPeers ==
    {Addr(1, 1), Addr(1, 2), Addr(1, 3), Addr(2, 3), Addr(2, 4), Addr(3, 4),
     Addr(3, 5), Addr(4, 6)}

\* Two hosts of which the smaller address has the larger port, and a third.
CrossedPeers == {Addr(1, 2), Addr(2, 1), Addr(3, 3)}
=============================================================================
