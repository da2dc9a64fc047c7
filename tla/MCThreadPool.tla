---------------------------- MODULE MCThreadPool ----------------------------
(* An instance of ThreadPool for TLC.                                      *)
EXTENDS ThreadPool

CONSTANTS w1, w2, w3, s1, s2
=============================================================================
