------------------------------- MODULE MCOutbox -------------------------------
(* Outbox on a table of two or three rows.                                   *)
EXTENDS Outbox
=============================================================================
