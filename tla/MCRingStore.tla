----------------------------- MODULE MCRingStore -----------------------------
(* RingStore on a ring of three slots, two of them in the first file, with   *)
(* enough pushes to wrap it.                                                 *)
EXTENDS RingStore
=============================================================================
