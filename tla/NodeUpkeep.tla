------------------------------ MODULE NodeUpkeep ------------------------------
(***************************************************************************)
(* A node looked after: provisioned over the cable and updated over the    *)
(* network, by one loop() (psychron_node.ino).  An update needs the        *)
(* credentials complete and ends in a restart, which may fall into a       *)
(* session of the provisioning tool; a download keeps the loop from the    *)
(* serial port.                                                            *)
(***************************************************************************)
EXTENDS Provisioning, Update

CONSTANT MaxRestarts \* bound of the model: power cuts and resets

ASSUME UpkeepAssumption == MaxRestarts \in Nat

VARIABLE restarts \* power cuts and resets so far

vars == <<pvars, uvars, restarts>>

TypeOK == PTypeOK /\ UTypeOK /\ restarts \in 0 .. MaxRestarts

Init == PInit /\ UInit /\ restarts = 0

\* loop() is in ota::poll() or in store(): one at a time.
Free == ota.step = "idle"

Provision ==
  /\ \/ Free /\ (HandleLine \/ StoreEnds \/ Configures)
     \/ Sends \/ Receives \/ TimesOut
  /\ UNCHANGED <<uvars, restarts>>

\* Opening the port resets the node.
Attach == Opens /\ Abandons /\ UNCHANGED restarts

Publish == ReleaseStep /\ UNCHANGED <<pvars, restarts>>

\* With anything less than a credential in a slot the handshake fails.
Credentials == \A s \in Slot : ram[s] \in {"old", "new"}

\* poll() is gated on certstore::complete().
Poll == Polls /\ Complete /\ Credentials /\ writing = NoSlot /\ UNCHANGED <<pvars, restarts>>

Download == (Requests \/ Reads \/ Drops \/ Refuses) /\ UNCHANGED <<pvars, restarts>>

Install == Commits /\ Restarts /\ UNCHANGED restarts

PowerCut ==
  /\ restarts < MaxRestarts /\ restarts' = restarts + 1
  /\ Restarts /\ Abandons

Next == Provision \/ Attach \/ Publish \/ Poll \/ Download \/ Install \/ PowerCut

Spec == Init /\ [][Next]_vars

\* loop() comes back to the serial port and, every OTA_CHECK_MS, to the manifest; a
\* release that was begun is finished, as is a session of the tool.
FairSpec ==
  Spec /\ WF_vars(Provision) /\ SF_vars(Poll) /\ WF_vars(Download) /\ WF_vars(Install)
       /\ WF_vars(Publish /\ UNCHANGED releases)

-----------------------------------------------------------------------------
(* Properties.                                                             *)

Published == publish.step = "none" /\ manifest # NoManifest

Labelled == manifest.version = VersionOf[manifest.sha256[1]]

\* A node that keeps credentials ends up on the version last released, a rollback
\* included, and stays there (ota.cpp:206-207).
EndsUpCurrent ==
  <>[](Credentials /\ Published /\ Labelled) => <>[](RunningVersion = manifest.version)

-----------------------------------------------------------------------------
(* Expected by the sources and not so: no run checks this, the README says  *)
(* what a run that did would show.                                          *)

\* "so the manifest cannot disagree with it" (release.py:23): whatever is released.
EndsUpAsPublished ==
  <>[](Credentials /\ Published) => <>[](RunningVersion = manifest.version)
=============================================================================
