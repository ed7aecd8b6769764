-------------------------------- MODULE Ordering --------------------------------
(***************************************************************************)
(* A finite set of integers as a sequence, the least first: ORDER BY of a  *)
(* table's identities (Outbox), filter{} of a list's positions             *)
(* (Endpoints).                                                            *)
(***************************************************************************)
EXTENDS Integers, FiniteSets

\* A member has as many before it as are less.
InOrder(S) ==
  [i \in 1 .. Cardinality(S) |-> CHOOSE id \in S : Cardinality({ k \in S : k < id }) = i - 1]
=============================================================================
