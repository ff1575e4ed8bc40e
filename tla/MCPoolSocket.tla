---------------------------- MODULE MCPoolSocket ----------------------------
(* Small instances of PoolSocket for TLC. *)
EXTENDS PoolSocket

CONSTANTS d1, d2, n1, n2, n3

TwoDaemons == {d1, d2}
ThreeNodes == {n1, n2, n3}
=============================================================================
