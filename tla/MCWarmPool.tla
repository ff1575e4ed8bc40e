----------------------------- MODULE MCWarmPool -----------------------------
(* Small instances of WarmPool for TLC. *)
EXTENDS WarmPool, TLC

CONSTANTS w1, w2, w3, c1, c2

TwoWorkers == {w1, w2}
ThreeWorkers == {w1, w2, w3}
OneClient == {c1}
TwoClients == {c1, c2}

(* Workers and clients are interchangeable: safety runs only. *)
Interchangeable == Permutations(ThreeWorkers) \cup Permutations(TwoClients)
=============================================================================
