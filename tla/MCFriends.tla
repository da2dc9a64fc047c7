----------------------------- MODULE MCFriends -----------------------------
(* A small instance of Friends for TLC: two users who add each other.       *)
EXTENDS Friends, TLC

CONSTANTS u1, u2, a1, a2, l1, l2

MCWho == a1 :> u1 @@ a2 :> u2
MCWhom == a1 :> u2 @@ a2 :> u1
=============================================================================
