------------------------------ MODULE MCIdentity ------------------------------
(* Identity with four requests and one or two people.                        *)
EXTENDS Identity, TLC

MCSymmetry == Permutations(Request) \cup Permutations(Identifier)
=============================================================================
