--------------------------- MODULE MCRequestServer --------------------------
(***************************************************************************)
(* Instances of RequestServer for TLC.                                     *)
(***************************************************************************)
EXTENDS RequestServer, TLC

CONSTANTS c1, c2, w1, w2

MCConns == {c1, c2}
MCWorkers == {w1, w2}
OneConn == {c1}

Symmetry == Permutations(MCConns) \cup Permutations(MCWorkers)
=============================================================================
