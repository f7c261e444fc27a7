----------------------------- MODULE MCSockets -----------------------------
(* A small instance of Sockets for TLC.                                    *)
EXTENDS Sockets, TLC

CONSTANTS x1, x2, x3, a1

ThreeContexts == {x1, x2, x3}

Symmetry == Permutations(ThreeContexts)

\* Behaviours are followed through at most one departure from ordinary use: a
\* call out of order, overlapping searches, or a second mylisten().
OneDeparture ==
  /\ overlap => ~misused /\ relisten = {}
  /\ misused => relisten = {}
============================================================================
