--------------------------- MODULE MCConnections ---------------------------
(* Small instances of Connections for TLC.  Connections, users and threads  *)
(* are model values; connections, and users, are interchangeable.           *)
EXTENDS Connections, TLC

CONSTANTS c1, c2, c3, u1, u2, r1, w1

ConnSymmetry == Permutations(Conns) \cup Permutations(Users)
=============================================================================
