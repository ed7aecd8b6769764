-------------------------------- MODULE Update --------------------------------
(***************************************************************************)
(* Firmware: publishing an image (backend release.py), and the node that   *)
(* polls the manifest, downloads, verifies, commits and restarts (firmware *)
(* ota.cpp poll() and download()).                                         *)
(*                                                                         *)
(* An image is two halves, each from one build; the server sends the file  *)
(* that is there, as it is at that moment.  Files are written in place:    *)
(* emptied, then a half at a time.  A digest is what it was computed from. *)
(* The name of an image is its version, and so is that of its manifest.    *)
(* Server, connection and flash are external.                              *)
(***************************************************************************)
EXTENDS Integers, Sequences

CONSTANTS
  Builds,    \* builds of the firmware
  VersionOf, \* FW_VERSION in each
  Labels,    \* versions each may be published as
  First,     \* the build a node starts with
  MaxReleases, \* bound of the model: releases
  MaxDrops     \* bound of the model: downloads that break off or cannot start

ASSUME UpdateAssumption ==
  /\ First \in Builds /\ MaxReleases \in Nat /\ MaxDrops \in Nat
  /\ VersionOf \in [Builds -> Nat \ {0}]
  /\ Labels \in [Builds -> SUBSET { VersionOf[b] : b \in Builds }]

Version == { VersionOf[b] : b \in Builds }
Whole(b) == <<b, b>>
NoManifest == [version |-> 0, sha256 |-> <<>>]

VARIABLES
  files,     \* the images on the server, by version
  manifest,  \* manifest.json
  publish,   \* the release under way: which build, and what is next
  releases,  \* releases so far
  running,   \* the image the node runs
  ota,       \* poll(): the manifest it read, what it downloads and has
  drops      \* downloads that failed so far

uvars == <<files, manifest, publish, releases, running, ota, drops>>

NoRelease == [step |-> "none", build |-> First, version |-> 0]
Quiet     == [step |-> "idle", version |-> 0, sha256 |-> <<>>, size |-> 0, got |-> <<>>]

UTypeOK ==
  /\ \A v \in Version : files[v] \in Seq(Builds) /\ Len(files[v]) <= 2
  /\ publish.step \in {"none", "image", "half", "manifest", "torn"}
  /\ running \in Builds \X Builds /\ ota.step \in {"idle", "offered", "loading"}

UInit ==
  /\ files = [v \in Version |-> <<>>] /\ manifest = NoManifest
  /\ publish = NoRelease /\ releases = 0
  /\ running = Whole(First) /\ ota = Quiet /\ drops = 0

-----------------------------------------------------------------------------
(* release.py: the version is what config.h says now, or what was asked.   *)

node   == <<running, ota, drops>>
server == <<files, manifest, publish, releases>>

Release(b, v) ==
  /\ publish.step = "none" /\ releases < MaxReleases
  /\ releases' = releases + 1
  /\ publish' = [step |-> "image", build |-> b, version |-> v]
  /\ files' = [files EXCEPT ![v] = <<>>]
  /\ UNCHANGED <<manifest, node>>

Writes ==
  /\ publish.step \in {"image", "half"}
  /\ files' = [files EXCEPT ![publish.version] = Append(@, publish.build)]
  /\ publish' = [publish EXCEPT !.step = IF @ = "image" THEN "half" ELSE "manifest"]
  /\ UNCHANGED <<manifest, releases, node>>

\* The manifest is emptied, then written.
Tears ==
  /\ publish.step = "manifest"
  /\ manifest' = NoManifest /\ publish' = [publish EXCEPT !.step = "torn"]
  /\ UNCHANGED <<files, releases, node>>

Publishes ==
  /\ publish.step = "torn"
  /\ manifest' = [version |-> publish.version, sha256 |-> Whole(publish.build)]
  /\ publish' = NoRelease
  /\ UNCHANGED <<files, releases, node>>

-----------------------------------------------------------------------------
(* ota.cpp                                                                 *)

RunningVersion == VersionOf[running[1]]

\* Mutant of Polls: only a higher version.
PollsNewer ==
  /\ ota.step = "idle"
  /\ manifest # NoManifest /\ manifest.version > RunningVersion
  /\ ota' = [Quiet EXCEPT !.step = "offered", !.version = manifest.version,
                          !.sha256 = manifest.sha256]
  /\ UNCHANGED <<running, drops, server>>

\* poll(): a manifest it can read, of another version.
Polls ==
  /\ ota.step = "idle"
  /\ manifest # NoManifest /\ manifest.version # RunningVersion
  /\ ota' = [Quiet EXCEPT !.step = "offered", !.version = manifest.version,
                          !.sha256 = manifest.sha256]
  /\ UNCHANGED <<running, drops, server>>

\* download(): the size the server says is the manifest's.
Requests ==
  /\ ota.step = "offered"
  /\ LET size == Len(files[ota.version])
     IN  ota' = IF size = 2 THEN [ota EXCEPT !.step = "loading", !.size = size] ELSE Quiet
  /\ UNCHANGED <<running, drops, server>>

\* The next bytes of the file as it is, or nothing if it has become shorter.
Reads ==
  /\ ota.step = "loading" /\ Len(ota.got) < ota.size
  /\ LET file == files[ota.version]
         next == Len(ota.got) + 1
     IN  ota' = IF next \in DOMAIN file THEN [ota EXCEPT !.got = Append(@, file[next])] ELSE Quiet
  /\ UNCHANGED <<running, drops, server>>

\* The connection goes, or flash refuses: aborted, and tried at the next poll.
Drops ==
  /\ ota.step # "idle" /\ drops < MaxDrops
  /\ drops' = drops + 1 /\ ota' = Quiet
  /\ UNCHANGED <<running, server>>

\* Mutant of Matches: as many bytes as announced will do.
MatchesInSize == Len(ota.got) = ota.size

\* The digest of what was received is the manifest's.
Matches == ota.got = ota.sha256

Refuses ==
  /\ ota.step = "loading" /\ Len(ota.got) = ota.size /\ ~ Matches
  /\ ota' = Quiet
  /\ UNCHANGED <<running, drops, server>>

\* Update.end(), and the restart into it.
Commits ==
  /\ ota.step = "loading" /\ Len(ota.got) = ota.size /\ Matches
  /\ running' = ota.got /\ ota' = Quiet
  /\ UNCHANGED <<drops, server>>

\* A restart of any other kind: what was received so far is not booted.
Abandons == ota' = Quiet /\ UNCHANGED <<running, drops, server>>

ReleaseStep == (\E b \in Builds : \E v \in Labels[b] : Release(b, v)) \/ Writes \/ Tears \/ Publishes

-----------------------------------------------------------------------------
(* Properties.                                                             *)

\* A node runs one whole build, although images are replaced while it downloads them
\* (README.md:264, ota.cpp:65-67).
RunsOneBuild == running \in { Whole(b) : b \in Builds }
=============================================================================
