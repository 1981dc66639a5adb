-------------------------- MODULE MiningSharesMC --------------------------
(* Instances of MiningShares for TLC. *)
EXTENDS MiningShares, TLC

CONSTANTS w1, w2, j1, j2

MCWorkers == {w1, w2}
MCJobs == {j1, j2}
=============================================================================
