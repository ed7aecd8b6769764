------------------------------ MODULE RingStore ------------------------------
(***************************************************************************)
(* The flash ring of the ESP32 node (firmware/psychron_node/store.cpp).    *)
(*                                                                         *)
(* Readings are written to fixed slots in flash; a small header (head,     *)
(* tail, count) says which slots are queued.  The header lives in RAM and  *)
(* is committed to a file of its own by writeHeader().  A pop, and a push  *)
(* with persist = false, move the RAM header only, so the committed header *)
(* may lag: after a power cut the ring is whatever the committed header    *)
(* says of the slots as they are by then.                                  *)
(*                                                                         *)
(* A reading is its push number 1, 2, ...  A slot keeps the number of the  *)
(* reading whose bytes it holds and whether its CRC matches; a torn slot   *)
(* keeps the number of the reading that the write destroyed, so that the   *)
(* loss can be accounted for.  The file system is external: a write may    *)
(* fail, a power cut may leave the slot being written old, torn or new,    *)
(* and, when FsMayTear, a header write may leave no valid header.          *)
(*                                                                         *)
(* One action is one call of the module, the flash writes it makes         *)
(* included; a call that a power cut interrupts is an action of its own.   *)
(***************************************************************************)
EXTENDS Integers, FiniteSets

CONSTANTS
  Capacity,    \* STORE_CAPACITY: slots of the ring
  PerFile,     \* PER_FILE: slots of one ring file, which createRing writes whole
  MaxPushes,   \* bound of the model: readings pushed in a behaviour
  FsMayTear    \* whether a header write or a mount may lose the header

ASSUME CapacityAssumption == Capacity \in Nat \ {0}
ASSUME PerFileAssumption  == PerFile \in Nat \ {0}
ASSUME PushesAssumption   == MaxPushes \in Nat
ASSUME TearAssumption     == FsMayTear \in BOOLEAN

Slots  == 0 .. (Capacity - 1)
Ids    == 0 .. MaxPushes
Blank  == [id |-> 0, ok |-> FALSE]      \* createRing's zeroes: the CRC fails
Header == [head : Slots, tail : Slots, count : 0 .. Capacity]
Empty  == [head |-> 0, tail |-> 0, count |-> 0]
NoHeader == [head |-> 0, tail |-> 0, count |-> -1]  \* bytes begin() refuses

VARIABLES
  power,       \* "off", "up" (mounted), "unmounted" (begin() returned false)
  hdr,         \* RAM: the header
  dirty,       \* RAM: the header has moved since it was committed
  evicted,     \* RAM: readings lost and counted since boot
  slot,        \* flash: the ring files
  committed,   \* flash: the header file
  pushed,      \* history: readings pushed so far
  kept,        \* history: readings the store has promised to outlive a cut
  refused,     \* history: readings whose push returned false
  reordered    \* history: a cut rewound the ring past slots written since

vars == <<power, hdr, dirty, evicted, slot, committed, pushed, kept, refused,
          reordered>>

flash   == <<slot, committed>>
history == <<pushed, kept, refused, reordered>>

-----------------------------------------------------------------------------
(* The ring: the k-th queued slot of a header, and what it holds.          *)

At(i, k) == IF i + k < Capacity THEN i + k ELSE i + k - Capacity

Queued(h) == { At(h.tail, k) : k \in 0 .. (h.count - 1) }

Held(s, h) == { s[i].id : i \in Queued(h) }

Full(h) == h.count = Capacity

\* push() after its slot is written: the header moves, over the oldest if full.
Appended(h) ==
  [head  |-> At(h.head, 1),
   tail  |-> IF Full(h) THEN At(h.tail, 1) ELSE h.tail,
   count |-> IF Full(h) THEN h.count ELSE h.count + 1]

\* pop(), and peek() past k bad slots: the tail moves.
Advanced(h, k) ==
  [head |-> h.head, tail |-> At(h.tail, k), count |-> h.count - k]

Mounted == power = "up"

TypeOK ==
  /\ power \in {"off", "up", "unmounted"}
  /\ hdr \in Header
  /\ dirty \in BOOLEAN
  /\ evicted \in Nat
  /\ slot \in [Slots -> [id : Ids, ok : BOOLEAN]]
  /\ committed \in Header \cup {NoHeader}
  /\ pushed \in Ids
  /\ kept \subseteq 1 .. MaxPushes
  /\ refused \subseteq 1 .. MaxPushes
  /\ reordered \in BOOLEAN

Init ==
  /\ power = "off"
  /\ hdr = Empty /\ dirty = FALSE /\ evicted = 0
  /\ slot = [i \in Slots |-> Blank]
  /\ committed = NoHeader
  /\ pushed = 0 /\ kept = {} /\ refused = {} /\ reordered = FALSE

-----------------------------------------------------------------------------
(* writeHeader(): the RAM header h reaches flash, or does not.  A failed    *)
(* write has already truncated the file: it may leave no header behind.    *)

\* Mutant of CommitOk: the header is written before it moves.
CommitStale(h) ==
  /\ committed' = hdr
  /\ dirty' = FALSE
  /\ kept' = Held(slot', h)

CommitOk(h) ==
  /\ committed' = h
  /\ dirty' = FALSE
  /\ kept' = Held(slot', h)

CommitFailed(promised) ==
  \/ committed' = committed /\ kept' = promised
  \/ FsMayTear /\ committed' = NoHeader /\ kept' = {}

\* writeSlot() at i: the record's bytes, or a failure that leaves the slot as
\* it was or torn.
Written(i, n) == [slot EXCEPT ![i] = [id |-> n, ok |-> TRUE]]
Torn(i)       == [slot EXCEPT ![i].ok = FALSE]

\* The reading that a push into a full ring overwrites.
Victim == IF Full(hdr) THEN {slot[hdr.tail].id} ELSE {}

-----------------------------------------------------------------------------
(* begin(): the file system mounts and its header is read; without a valid *)
(* one the ring is created empty.                                          *)

RamReset == dirty' = FALSE /\ evicted' = 0

MountFails ==
  /\ power = "off"
  /\ power' = "unmounted"
  /\ RamReset /\ hdr' = Empty
  /\ UNCHANGED <<flash, history>>

BeginExisting ==
  /\ power = "off"
  /\ committed # NoHeader
  /\ power' = "up"
  /\ hdr' = committed
  /\ RamReset
  /\ UNCHANGED <<flash, history>>

\* LittleFS.begin(true): a file system that does not mount is formatted.
Reformat ==
  /\ power = "off"
  /\ FsMayTear /\ committed # NoHeader
  /\ committed' = NoHeader /\ slot' = [i \in Slots |-> Blank]
  /\ kept' = {}
  /\ UNCHANGED <<power, hdr, dirty, evicted, pushed, refused, reordered>>

BeginCreated ==
  /\ power = "off"
  /\ committed = NoHeader
  /\ power' = "up"
  /\ slot' = [i \in Slots |-> Blank]
  /\ hdr' = Empty
  /\ committed' = Empty
  /\ kept' = {} /\ reordered' = FALSE
  /\ RamReset
  /\ UNCHANGED <<pushed, refused>>

\* createRing() stops at a file it cannot write, or at its header.
CreateFails ==
  /\ power = "off"
  /\ committed = NoHeader
  /\ power' = "unmounted"
  /\ \E files \in 0 .. Capacity :
       slot' = [i \in Slots |-> IF i \div PerFile < files THEN Blank ELSE slot[i]]
  /\ hdr' = Empty
  /\ RamReset
  /\ UNCHANGED <<committed, history>>

Begin == MountFails \/ BeginExisting \/ Reformat \/ BeginCreated \/ CreateFails

-----------------------------------------------------------------------------
(* push(r, persist).                                                       *)

PushUnmounted ==
  /\ power = "unmounted" /\ pushed < MaxPushes
  /\ pushed' = pushed + 1
  /\ refused' = refused \cup {pushed'}
  /\ UNCHANGED <<power, hdr, dirty, evicted, flash, kept, reordered>>

PushSlotFails ==
  /\ Mounted /\ pushed < MaxPushes
  /\ pushed' = pushed + 1
  /\ refused' = refused \cup {pushed'}
  /\ slot' \in {slot, Torn(hdr.head)}
  /\ UNCHANGED <<power, hdr, dirty, evicted, committed, kept, reordered>>

\* Mutants of PushMoves: the head moves before the slot is written; an eviction
\* is not counted.
PushMovesFirst ==
  /\ Mounted /\ pushed < MaxPushes
  /\ pushed' = pushed + 1
  /\ slot' = Written(At(hdr.head, 1), pushed')
  /\ hdr' = Appended(hdr)
  /\ evicted' = IF Full(hdr) THEN evicted + 1 ELSE evicted
  /\ UNCHANGED <<power, reordered>>

PushMovesUncounted ==
  /\ Mounted /\ pushed < MaxPushes
  /\ pushed' = pushed + 1
  /\ slot' = Written(hdr.head, pushed')
  /\ hdr' = Appended(hdr)
  /\ UNCHANGED <<power, evicted, reordered>>

\* The slot is written and the RAM header moved, whatever the commit does.
PushMoves ==
  /\ Mounted /\ pushed < MaxPushes
  /\ pushed' = pushed + 1
  /\ slot' = Written(hdr.head, pushed')
  /\ hdr' = Appended(hdr)
  /\ evicted' = IF Full(hdr) THEN evicted + 1 ELSE evicted
  /\ UNCHANGED <<power, reordered>>

PushPersisted ==
  /\ PushMoves
  /\ CommitOk(hdr')
  /\ UNCHANGED refused

PushHeaderFails ==
  /\ PushMoves
  /\ CommitFailed(kept \ Victim)
  /\ dirty' = TRUE
  /\ refused' = refused \cup {pushed'}

PushDeferred ==
  /\ PushMoves
  /\ dirty' = TRUE
  /\ kept' = kept \ Victim
  /\ UNCHANGED <<committed, refused>>

Push == PushUnmounted \/ PushSlotFails \/ PushPersisted \/ PushHeaderFails
          \/ PushDeferred

-----------------------------------------------------------------------------
(* peek(): k bad slots are walked past, counted, and the move committed.   *)
(* The walk ends at a good record, at an unreadable slot, or when empty;   *)
(* only the moves change state.                                            *)

\* Mutant of SkipBad: the CRC is not looked at.
SkipAny(k) ==
  /\ Mounted
  /\ hdr' = Advanced(hdr, k)
  /\ evicted' = evicted + k
  /\ UNCHANGED slot
  /\ CommitOk(hdr')
  /\ UNCHANGED <<power, pushed, refused, reordered>>

SkipBad(k) ==
  /\ Mounted
  /\ \A j \in 0 .. (k - 1) : ~ slot[At(hdr.tail, j)].ok
  /\ hdr' = Advanced(hdr, k)
  /\ evicted' = evicted + k
  /\ UNCHANGED slot
  /\ \/ CommitOk(hdr')
     \/ /\ CommitFailed(kept \ { slot[At(hdr.tail, j)].id : j \in 0 .. (k - 1) })
        /\ UNCHANGED dirty
  /\ UNCHANGED <<power, pushed, refused, reordered>>

Peek == \E k \in 1 .. Capacity : k <= hdr.count /\ SkipBad(k)

\* What peek() returns without skipping: the record the caller publishes.
Readable == Mounted /\ hdr.count > 0 /\ slot[hdr.tail].ok
Front    == slot[hdr.tail].id

\* pop(): the caller pops what it has just peeked.
Pop ==
  /\ Readable
  /\ hdr' = Advanced(hdr, 1)
  /\ dirty' = TRUE
  /\ kept' = kept \ {Front}
  /\ UNCHANGED <<power, evicted, flash, pushed, refused, reordered>>

Flush ==
  /\ Mounted /\ dirty
  /\ UNCHANGED slot
  /\ \/ CommitOk(hdr)
     \/ CommitFailed(kept) /\ dirty' = dirty
  /\ UNCHANGED <<power, hdr, evicted, pushed, refused, reordered>>

-----------------------------------------------------------------------------
(* Power cuts.  RAM is gone; a push loses the slot it was writing, and a    *)
(* slot written under a header that was never committed stays behind.      *)

PowerLost == power' = "off" /\ hdr' = Empty /\ RamReset

Cut ==
  /\ power # "off"
  /\ PowerLost
  /\ reordered' = (reordered \/ (Mounted /\ hdr # committed))
  /\ UNCHANGED <<flash, pushed, kept, refused>>

CutInPush ==
  /\ Mounted /\ pushed < MaxPushes
  /\ PowerLost
  /\ pushed' = pushed + 1
  /\ \/ slot' = Torn(hdr.head) /\ kept' = kept
     \/ slot' = Written(hdr.head, pushed') /\ kept' = kept \ Victim
  /\ reordered' = (reordered \/ hdr # committed \/ Full(hdr))
  /\ UNCHANGED <<committed, refused>>

CutInHeader ==
  /\ Mounted /\ FsMayTear
  /\ dirty
  /\ PowerLost
  /\ committed' = NoHeader /\ kept' = {}
  /\ UNCHANGED <<slot, pushed, refused, reordered>>

PowerCut == Cut \/ CutInPush \/ CutInHeader

Next == Begin \/ Push \/ Peek \/ Pop \/ Flush \/ PowerCut

Spec == Init /\ [][Next]_vars

-----------------------------------------------------------------------------
(* Properties.                                                             *)

\* A header is consistent when the slot after the queued ones is its head:
\* begin() validates each field by itself, never their relation.
Consistent(h) == h.head = At(h.tail, h.count)

HeadersConsistent ==
  /\ Mounted => Consistent(hdr)
  /\ committed # NoHeader => Consistent(committed)

\* No header, in RAM or in flash, ever counts a slot createRing zeroed: the
\* count published in the boot announcement is of readings that were taken.
NoBlankQueued ==
  /\ Mounted => 0 \notin Held(slot, hdr)
  /\ committed # NoHeader => 0 \notin Held(slot, committed)

\* What the store promised to keep outlives a power cut at any instant: each
\* reading whose header commit succeeded, and that was neither popped nor
\* evicted since, is in a slot the committed header counts (store.h:26-31), and
\* in one that the running header counts, so that a drain reaches it.
Durable ==
  /\ committed # NoHeader => kept \subseteq Held(slot, committed)
  /\ committed = NoHeader => kept = {}
  /\ Mounted => kept \subseteq Held(slot, hdr)

\* Until a cut rewinds the ring over slots written since, the queue is drained
\* in the order it was pushed (psychron_node.ino:81-82).
Fifo ==
  (Mounted /\ ~ reordered) =>
    \A j, k \in 0 .. (hdr.count - 1) :
      j < k => slot[At(hdr.tail, j)].id < slot[At(hdr.tail, k)].id

\* While the node runs, a promised reading leaves the ring only by the pop of
\* the record peeked, or counted as evicted (store.cpp:197-199, store.h:35),
\* unless a header write tore the committed header.
LossIsCounted ==
  [][ (Mounted /\ power' = "up" /\ committed' # NoHeader) =>
        Cardinality((kept \ kept') \ (IF Readable /\ hdr' = Advanced(hdr, 1)
                                        THEN {Front} ELSE {}))
          <= evicted' - evicted ]_vars

\* The ring is the bounded queue that store.h describes: its slots read in the
\* order of a header are the queue (RAM header) and what a power cut would leave
\* of it (committed header).
InOrder(h) == [k \in 1 .. h.count |-> slot[At(h.tail, k - 1)]]

Contract == INSTANCE ReadingQueue WITH
  Entry      <- [id : 1 .. MaxPushes, ok : {TRUE}],
  MayLoseAll <- FsMayTear,
  running    <- Mounted,
  queue      <- IF Mounted THEN InOrder(hdr) ELSE <<>>,
  image      <- IF committed = NoHeader THEN <<>> ELSE InOrder(committed)

\* Every behaviour of the ring is one of the bounded queue store.h promises.
ImplementsQueue == Contract!Spec

-----------------------------------------------------------------------------
(* Expected by the sources and not so: no run checks these, the README says *)
(* what a run that did would show.                                          *)

\* The caller counts a reading as "neither sent nor stored" when push returns
\* false (psychron_node.ino:109-114): then the ring should not hold it.
RefusedIsNotStored ==
  Mounted => refused \cap Held(slot, hdr) = {}
=============================================================================
