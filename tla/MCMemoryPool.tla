---------------------------- MODULE MCMemoryPool ----------------------------
(***************************************************************************)
(* Two threads and two spans.  Blocks of class 0 come three to a span, and *)
(* a request of 7 bytes is rounded up to a block larger than a page, which *)
(* has a span to itself.  Only one span can have a tracker.                *)
(***************************************************************************)
EXTENDS MemoryPool

CONSTANTS t1, t2, s1, s2

MCSizes == {0, 7}
=============================================================================
