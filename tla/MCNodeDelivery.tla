---------------------------- MODULE MCNodeDelivery ----------------------------
(* NodeDelivery on small windows, stores and times.                          *)
EXTENDS NodeDelivery
=============================================================================
