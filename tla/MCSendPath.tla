----------------------------- MODULE MCSendPath -----------------------------
(* Small instances of SendPath for TLC.  The threads are model values: w1 a *)
(* worker, b1 a thread running a broadcast.                                 *)
EXTENDS SendPath

CONSTANTS w1, b1
=============================================================================
