----------------------------- MODULE ByteStream -----------------------------
(***************************************************************************)
(* What the outgoing half of a connection promises to the code that calls  *)
(* sendPacket: a bounded, reliable, in-order byte stream.  A packet is     *)
(* accepted whole or refused; bytes reach the socket in the order in which *)
(* they were accepted, each exactly once; and never more than MaxPending   *)
(* accepted bytes wait to be written.                                      *)
(***************************************************************************)
EXTENDS Integers, Sequences

CONSTANTS MaxPending,  \* bound on the bytes accepted and not yet written
          PacketLens   \* the lengths a packet can have

VARIABLES accepted,    \* every byte accepted so far, in order
          delivered    \* every byte handed to the kernel so far, in order

streamVars == <<accepted, delivered>>

StreamInit == accepted = <<>> /\ delivered = <<>>

\* One whole packet is appended, within the bound.
Accept ==
    /\ Len(accepted') - Len(accepted) \in PacketLens
    /\ SubSeq(accepted', 1, Len(accepted)) = accepted
    /\ Len(accepted') - Len(delivered) <= MaxPending
    /\ UNCHANGED delivered

Deliver ==
    /\ \E n \in Len(delivered) .. Len(accepted) :
          delivered' = SubSeq(accepted, 1, n)
    /\ UNCHANGED accepted

StreamNext == Accept \/ Deliver

StreamSpec == StreamInit /\ [][StreamNext]_streamVars
=============================================================================
