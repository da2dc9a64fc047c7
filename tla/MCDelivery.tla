----------------------------- MODULE MCDelivery -----------------------------
(* Instances of Delivery for TLC.                                          *)
EXTENDS Delivery, TLC

CONSTANTS m1, m2, s1

\* The messages are alike.
Symmetry == Permutations(Msgs)
=============================================================================
