----------------------------- MODULE MCNodeUpkeep -----------------------------
(* NodeUpkeep with two credentials of two chunks and three builds, the last  *)
(* two of the same version: two releases are an image replaced under its     *)
(* name, or an update and its rollback.  The last may be mislabelled.        *)
EXTENDS NodeUpkeep

MCSlots     == <<"ca", "key">>
MCLabels    == <<{1}, {2}, {1, 2}>>
MCVersionOf == <<1, 2, 2>>
=============================================================================
