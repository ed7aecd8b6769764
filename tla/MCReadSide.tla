------------------------------ MODULE MCReadSide ------------------------------
(* ReadSide with few readings: the aggregate reaches back less far than a    *)
(* reading may be late, and three points are a full answer.                  *)
EXTENDS ReadSide

MCErrors == {0, 2}
=============================================================================
