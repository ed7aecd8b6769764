------------------------------- MODULE MCIngest -------------------------------
(* Ingest with few messages and a clock of two instants: a clock that is     *)
(* right, one that is fast and one that is slow differ by the tolerance and  *)
(* one unit more.                                                            *)
EXTENDS Ingest

MCFast == {0, 1}
=============================================================================
