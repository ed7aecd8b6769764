----------------------------- MODULE RingMigration -----------------------------
(***************************************************************************)
(* The first boot of a node whose flash still holds the single-file ring   *)
(* of an older firmware (createRing, migrateLegacy and begin of            *)
(* firmware/psychron_node/store.cpp): the new files are written, the       *)
(* backlog is copied a block at a time, the old file is removed, the       *)
(* header is committed.  Each flash write is a step, and the power may     *)
(* fail between any two.                                                   *)
(*                                                                         *)
(* The backlog is readings 1 .. old.count, oldest first; slot i of the old *)
(* file holds the reading LegacyAt(i).  The RAM block buffer is the        *)
(* function block, of PerFile entries, 0 where it is zero bytes.           *)
(***************************************************************************)
EXTENDS Integers

CONSTANTS
  Capacity,    \* STORE_CAPACITY
  PerFile,     \* PER_FILE
  MaxCuts,     \* bound of the model: power cuts
  MaxFails     \* bound of the model: reads and writes that fail

ASSUME MigrationAssumption ==
  /\ Capacity \in Nat \ {0} /\ PerFile \in Nat \ {0}
  /\ MaxCuts \in Nat /\ MaxFails \in Nat

Files    == (Capacity + PerFile - 1) \div PerFile
NewSlots == 0 .. (Files * PerFile - 1) \* the last file may be longer than the ring
Zeroes   == 0
NoHeader  == [head |-> 0, tail |-> 0, count |-> -1]
EmptyRing == [head |-> 0, tail |-> 0, count |-> 0]

VARIABLES
  pc,        \* "off", or the step of begin() that is next; "up" when it is done
  legacy,    \* flash: the old file exists
  old,       \* flash: its header, [tail, count, valid]
  slot,      \* flash: the new ring files
  header,    \* flash: the new header
  file,      \* RAM: the next file createRing writes
  nextOld,   \* RAM: the next old record migrateLegacy reads
  carried,   \* RAM: records carried
  block,     \* RAM: the block being filled
  hdr,       \* RAM: the header
  cuts,      \* power cuts so far
  fails      \* failed reads and writes so far

mvars == <<pc, legacy, old, slot, header, file, nextOld, carried, block, hdr,
           cuts, fails>>

ZeroBlock == [j \in 0 .. (PerFile - 1) |-> Zeroes]

\* The reading in slot s of the old file, 0 if none.
LegacyAt(s) ==
  LET k == (s - old.tail + Capacity) % Capacity
  IN  IF k < old.count THEN k + 1 ELSE Zeroes

MTypeOK ==
  /\ pc \in {"off", "create", "createHeader", "open", "copy", "remove",
             "commit", "up", "unmounted"}
  /\ legacy \in BOOLEAN
  /\ old \in [tail : 0 .. (Capacity - 1), count : 0 .. Capacity, valid : BOOLEAN]
  /\ slot \in [NewSlots -> 0 .. Capacity]
  /\ header.count \in -1 .. Capacity /\ hdr.count \in 0 .. Capacity
  /\ {header.head, hdr.head} \subseteq 0 .. (Capacity - 1)
  /\ header.tail = 0 /\ hdr.tail = 0
  /\ file \in 0 .. Files /\ nextOld \in 0 .. Capacity /\ carried \in 0 .. Capacity
  /\ block \in [0 .. (PerFile - 1) -> 0 .. Capacity]
  /\ cuts \in 0 .. MaxCuts /\ fails \in 0 .. MaxFails

MInit ==
  /\ pc = "off"
  /\ legacy = TRUE
  /\ old \in [tail : 0 .. (Capacity - 1), count : 0 .. Capacity, valid : BOOLEAN]
  /\ slot = [s \in NewSlots |-> Zeroes]
  /\ header = NoHeader /\ hdr = EmptyRing
  /\ file = 0 /\ nextOld = 0 /\ carried = 0 /\ block = ZeroBlock
  /\ cuts = 0 /\ fails = 0

\* A read or a write fails.
Fails == fails < MaxFails /\ fails' = fails + 1

\* begin(): a valid header is used as it is; without one the ring is created.
Begin ==
  /\ pc = "off"
  /\ IF header = NoHeader
       THEN pc' = "create" /\ hdr' = hdr
       ELSE pc' = "up" /\ hdr' = header
  /\ UNCHANGED <<legacy, old, slot, header, file, nextOld, carried, block, cuts, fails>>

\* createRing(): every file written whole, then the header of an empty ring.
CreateFile ==
  /\ pc = "create" /\ file < Files
  /\ slot' = [s \in NewSlots |-> IF s \div PerFile = file THEN Zeroes ELSE slot[s]]
  /\ file' = file + 1
  /\ pc' = IF file' = Files THEN "createHeader" ELSE "create"
  /\ UNCHANGED <<legacy, old, header, nextOld, carried, block, hdr, cuts, fails>>

CreateHeader ==
  /\ pc = "createHeader"
  /\ header' = EmptyRing /\ hdr' = EmptyRing
  /\ pc' = "open"
  /\ UNCHANGED <<legacy, old, slot, file, nextOld, carried, block, cuts, fails>>

CreateFails ==
  /\ pc \in {"create", "createHeader"} /\ Fails
  /\ pc' = "unmounted"
  /\ UNCHANGED <<legacy, old, slot, header, file, nextOld, carried, block, hdr, cuts>>

\* migrateLegacy(): without an old file there is nothing to do.
OpenLegacy ==
  /\ pc = "open"
  /\ pc' = IF ~ legacy THEN "up"
           ELSE IF old.valid /\ old.count > 0 THEN "copy" ELSE "remove"
  /\ UNCHANGED <<legacy, old, slot, header, file, nextOld, carried, block, hdr, cuts,
                 fails>>

\* Mutant of BlockDone: a last, partial block is not written.
BlockFull == (carried + 1) % PerFile = 0

\* One record: read, put in the block, and the block written when it is full or
\* the record is the last.
FilledBlock == [block EXCEPT ![carried % PerFile] = LegacyAt((old.tail + nextOld) % Capacity)]
BlockDone   == (carried + 1) % PerFile = 0 \/ nextOld + 1 = old.count

CopyRecord ==
  /\ pc = "copy"
  /\ nextOld' = nextOld + 1 /\ carried' = carried + 1
  /\ block' = IF BlockDone THEN ZeroBlock ELSE FilledBlock
  /\ \/ /\ BlockDone
        /\ slot' = [s \in NewSlots |-> IF s \div PerFile = carried \div PerFile
                                      THEN FilledBlock[s % PerFile] ELSE slot[s]]
        /\ UNCHANGED fails
     \/ ~ BlockDone /\ UNCHANGED <<slot, fails>>
     \/ BlockDone /\ Fails /\ UNCHANGED slot    \* a block that does not open is skipped
  /\ pc' = IF nextOld' = old.count THEN "remove" ELSE "copy"
  /\ UNCHANGED <<legacy, old, header, file, hdr, cuts>>

\* A short read ends the copy.
CopyBreaks ==
  /\ pc = "copy" /\ Fails
  /\ pc' = "remove"
  /\ UNCHANGED <<legacy, old, slot, header, file, nextOld, carried, block, hdr, cuts>>

RemoveLegacy ==
  /\ pc = "remove"
  /\ legacy' = FALSE
  /\ pc' = IF carried > 0 THEN "commit" ELSE "up"
  /\ UNCHANGED <<old, slot, header, file, nextOld, carried, block, hdr, cuts, fails>>

CommitMigrated ==
  /\ pc = "commit"
  /\ hdr' = [head |-> carried % Capacity, tail |-> 0, count |-> carried]
  /\ \/ header' = hdr' /\ UNCHANGED fails
     \/ Fails /\ UNCHANGED header
  /\ pc' = "up"
  /\ UNCHANGED <<legacy, old, slot, file, nextOld, carried, block, cuts>>

Unplugged ==
  /\ pc # "off" /\ cuts < MaxCuts
  /\ cuts' = cuts + 1
  /\ pc' = "off"
  /\ hdr' = EmptyRing /\ file' = 0 /\ nextOld' = 0 /\ carried' = 0 /\ block' = ZeroBlock
  /\ UNCHANGED <<legacy, old, slot, header, fails>>

MNext ==
  \/ Begin \/ CreateFile \/ CreateHeader \/ CreateFails
  \/ OpenLegacy \/ CopyRecord \/ CopyBreaks \/ RemoveLegacy \/ CommitMigrated
  \/ Unplugged

MSpec == MInit /\ [][MNext]_mvars

-----------------------------------------------------------------------------
(* Properties.                                                             *)

\* Slot k of the migrated ring holds the k-th oldest reading of the old one, or
\* the zeroes that peek() skips and counts; never another reading, whatever the
\* old tail, the block boundaries and the blocks that failed (store.cpp:121-147).
SlotHoldsItsReading ==
  pc = "up" => \A k \in 0 .. (hdr.count - 1) : slot[k] \in {k + 1, Zeroes}

\* Without a failed read or write, the ring that a boot ends with is the whole
\* backlog in its order, or empty: a cut never leaves a part of it queued.
WholeOrNothing ==
  (pc = "up" /\ fails = 0 /\ hdr.count > 0) =>
    hdr.count = old.count /\ \A k \in 0 .. (old.count - 1) : slot[k] = k + 1

\* What a boot ends with holds each reading in its own place.
MigratedOrEmpty == SlotHoldsItsReading /\ WholeOrNothing

-----------------------------------------------------------------------------
(* Expected by the sources and not so: no run checks these, the README says *)
(* what a run that did would show.                                          *)

\* "whose backlog begin() carries across rather than discarding: it is exactly
\* the data a node rebooted into this version during an outage would otherwise
\* lose" (store.cpp:31-33): once the store is up, the backlog is queued.
BacklogCarried ==
  (pc = "up" /\ old.valid) => hdr.count = old.count
=============================================================================
