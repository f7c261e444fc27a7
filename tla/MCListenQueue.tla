--------------------------- MODULE MCListenQueue ---------------------------
(* Small instances of ListenQueue for TLC.                                 *)
EXTENDS ListenQueue, TLC

CONSTANTS a1, a2, p1, p2

OneAcceptor == {a1}
TwoAcceptors == {a1, a2}
OnePeer == {p1}
TwoPeers == {p1, p2}

Symmetry == Permutations(TwoAcceptors) \cup Permutations(TwoPeers)
============================================================================
