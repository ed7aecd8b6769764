--------------------------- MODULE MCRingMigration ---------------------------
(* RingMigration on a ring of five slots in files of two, so that the last    *)
(* file is longer than the ring, for every old tail and count.                *)
EXTENDS RingMigration
=============================================================================
