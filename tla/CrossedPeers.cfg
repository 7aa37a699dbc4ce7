\* Peers of different hosts, the smaller address with the larger port.
CONSTANT Peers <- CrossedPeers
SPECIFICATION PeersSpec
INVARIANT FindsKnown
CHECK_DEADLOCK FALSE
