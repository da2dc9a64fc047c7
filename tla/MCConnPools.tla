---------------------------- MODULE MCConnPools ----------------------------
(* Instances of ConnPools for TLC.                                         *)
EXTENDS ConnPools, TLC

CONSTANTS d1, d2, r1, rt, lg

\* Threads of one kind are alike.
PoolSymmetry == Permutations(DbWorkers)
=============================================================================
