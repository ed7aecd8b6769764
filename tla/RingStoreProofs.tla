--------------------------- MODULE RingStoreProofs ---------------------------
(***************************************************************************)
(* Proofs about the flash ring, for every capacity, every number of        *)
(* pushes and both kinds of file system.                                   *)
(*                                                                         *)
(* Durable is not inductive alone.  Overwriting the head slot is harmless  *)
(* to a kept reading because the head slot is outside the queued ones      *)
(* unless the ring is full (the headers are consistent) and because no     *)
(* two slots hold the same reading, so the slot overwritten cannot be the  *)
(* one the committed header counts the reading in.                         *)
(***************************************************************************)
EXTENDS RingStore, Sequences, FiniteSetTheorems, TLAPS

\* No reading is in two slots, and none is in a slot before it was pushed.
Distinct ==
  \A i, j \in Slots : slot[i].id = slot[j].id /\ slot[i].id # 0 => i = j

Past ==
  /\ \A i \in Slots : slot[i].id <= pushed
  /\ kept \subseteq 1 .. pushed

Inv ==
  /\ TypeOK
  /\ HeadersConsistent
  /\ NoBlankQueued
  /\ Distinct
  /\ Past
  /\ Durable

-----------------------------------------------------------------------------
(* Arithmetic of the ring.                                                 *)

\* Walking any part of a ring from a slot ends in a slot.
LEMMA AtInSlots ==
  ASSUME NEW i \in Slots, NEW k \in 0 .. Capacity
  PROVE  At(i, k) \in Slots
BY CapacityAssumption DEF At, Slots

\* Walking k slots and then m is walking k + m.
LEMMA AtSum ==
  ASSUME NEW i \in Slots, NEW k \in Nat, NEW m \in Nat, k + m <= Capacity
  PROVE  At(At(i, k), m) = At(i, k + m)
BY CapacityAssumption DEF At, Slots

\* Two different walks shorter than the ring end in different slots.
LEMMA AtInjective ==
  ASSUME NEW i \in Slots, NEW k \in 0 .. (Capacity - 1),
         NEW m \in 0 .. (Capacity - 1), At(i, k) = At(i, m)
  PROVE  k = m
BY CapacityAssumption DEF At, Slots

\* A push leaves a consistent header consistent.
LEMMA AppendedHeader ==
  ASSUME NEW h \in Header, Consistent(h)
  PROVE  /\ Appended(h) \in Header
         /\ Consistent(Appended(h))
<1>1. /\ h.head \in Slots /\ h.tail \in Slots /\ h.count \in 0 .. Capacity
      /\ h.head = At(h.tail, h.count)
  BY DEF Header, Consistent
<1>2. At(h.head, 1) \in Slots /\ At(h.tail, 1) \in Slots
  BY <1>1, CapacityAssumption DEF At, Slots
<1>3. Appended(h) \in Header
  BY <1>1, <1>2, CapacityAssumption DEF Appended, Header, Full
<1>4. CASE Full(h)
  <2>1. Appended(h).head = At(h.head, 1) /\ Appended(h).tail = At(h.tail, 1)
        /\ Appended(h).count = Capacity
    BY <1>4 DEF Appended, Full
  <2>2. h.head = h.tail
    BY <1>1, <1>4, CapacityAssumption DEF At, Slots, Full
  <2>3. At(At(h.tail, 1), Capacity) = At(h.tail, 1)
    BY <1>2, CapacityAssumption DEF At, Slots
  <2> QED
    BY <1>3, <2>1, <2>2, <2>3 DEF Consistent
<1>5. CASE ~ Full(h)
  <2>1. Appended(h).head = At(h.head, 1) /\ Appended(h).tail = h.tail
        /\ Appended(h).count = h.count + 1
    BY <1>5 DEF Appended
  <2>2. h.count + 1 <= Capacity
    BY <1>1, <1>5, CapacityAssumption DEF Full
  <2>3. At(At(h.tail, h.count), 1) = At(h.tail, h.count + 1)
    BY <1>1, <2>2, AtSum
  <2> QED
    BY <1>1, <1>3, <2>1, <2>3 DEF Consistent
<1> QED
  BY <1>4, <1>5

\* So does walking past k queued slots.
LEMMA AdvancedHeader ==
  ASSUME NEW h \in Header, Consistent(h), NEW k \in 0 .. h.count
  PROVE  /\ Advanced(h, k) \in Header
         /\ Consistent(Advanced(h, k))
<1>1. /\ h.head \in Slots /\ h.tail \in Slots /\ h.count \in 0 .. Capacity
      /\ h.head = At(h.tail, h.count)
  BY DEF Header, Consistent
<1>2. k \in Nat /\ k \in 0 .. Capacity /\ h.count - k \in 0 .. Capacity
  BY <1>1, CapacityAssumption
<1>3. At(h.tail, k) \in Slots
  BY <1>1, <1>2, AtInSlots
<1>4. At(At(h.tail, k), h.count - k) = At(h.tail, h.count)
  <2>1. h.count - k \in Nat /\ k + (h.count - k) = h.count /\ h.count <= Capacity
    BY <1>1, <1>2, CapacityAssumption
  <2> QED
    BY <1>1, <1>2, <2>1, AtSum
<1>5. Advanced(h, k).head = h.head /\ Advanced(h, k).tail = At(h.tail, k)
      /\ Advanced(h, k).count = h.count - k
  BY DEF Advanced
<1>6. Advanced(h, k) \in Header
  BY <1>1, <1>2, <1>3 DEF Advanced, Header
<1> QED
  BY <1>1, <1>4, <1>5, <1>6 DEF Consistent

\* A reading queued under a header is k slots from its tail, for some k.
LEMMA HeldAt ==
  ASSUME NEW s, NEW h \in Header, NEW x
  PROVE  x \in Held(s, h) <=> \E k \in 0 .. (h.count - 1) : s[At(h.tail, k)].id = x
BY DEF Held, Queued

\* Queued slots are slots.
LEMMA QueuedSlots ==
  ASSUME NEW h \in Header
  PROVE  Queued(h) \subseteq Slots
<1>1. h.tail \in Slots /\ h.count \in 0 .. Capacity
  BY DEF Header
<1>2. \A k \in 0 .. (h.count - 1) : k \in 0 .. Capacity
  BY <1>1, CapacityAssumption
<1> QED
  BY <1>1, <1>2, AtInSlots DEF Queued

-----------------------------------------------------------------------------
(* What one flash write does to the ring.                                  *)

\* A write that fails tears a slot, and moves no reading.
LEMMA SameReadings ==
  ASSUME NEW s, NEW t, \A i \in Slots : t[i].id = s[i].id, NEW h \in Header
  PROVE  Held(t, h) = Held(s, h)
BY QueuedSlots DEF Held

LEMMA TornSlot ==
  ASSUME TypeOK, NEW i \in Slots
  PROVE  /\ Torn(i) \in [Slots -> [id : Ids, ok : BOOLEAN]]
         /\ \A j \in Slots : Torn(i)[j].id = slot[j].id
BY DEF TypeOK, Torn

\* A reading still promised after a push is not in the slot the push writes.
LEMMA KeptElsewhere ==
  ASSUME Inv, Mounted, NEW x \in kept \ Victim, NEW i \in Slots, slot[i].id = x
  PROVE  i # hdr.head
<1> SUFFICES ASSUME i = hdr.head PROVE FALSE
  OBVIOUS
<1>1. /\ hdr \in Header /\ hdr.tail \in Slots /\ hdr.count \in 0 .. Capacity
      /\ hdr.head = At(hdr.tail, hdr.count)
  BY DEF Inv, TypeOK, HeadersConsistent, Consistent, Header
<1>2. x \in Held(slot, hdr) /\ x # 0
  BY DEF Inv, Durable, TypeOK
<1>3. PICK k \in 0 .. (hdr.count - 1) : slot[At(hdr.tail, k)].id = x
  BY <1>1, <1>2, HeldAt
<1>4. At(hdr.tail, k) \in Slots /\ k \in 0 .. (Capacity - 1)
  BY <1>1, CapacityAssumption, AtInSlots
<1>5. At(hdr.tail, k) = hdr.head
  BY <1>2, <1>3, <1>4 DEF Inv, Distinct
<1>6. CASE Full(hdr)
  <2>1. At(hdr.tail, hdr.count) = hdr.tail
    BY <1>1, <1>6, CapacityAssumption DEF At, Slots, Full
  <2> QED
    BY <1>1, <1>6, <2>1 DEF Victim
<1>7. CASE ~ Full(hdr)
  <2>1. hdr.count \in 0 .. (Capacity - 1)
    BY <1>1, <1>7, CapacityAssumption DEF Full
  <2>2. k = hdr.count
    BY <1>1, <1>4, <1>5, <2>1, AtInjective
  <2> QED
    BY <1>1, <2>2
<1> QED
  BY <1>6, <1>7

\* Writing a fresh reading at the head: what both headers count, and which of
\* the promised readings they still count.
LEMMA FreshSlot ==
  ASSUME Inv, Mounted, pushed < MaxPushes,
         NEW w, w = Written(hdr.head, pushed + 1)
  PROVE  /\ w \in [Slots -> [id : Ids, ok : BOOLEAN]]
         /\ \A i, j \in Slots : w[i].id = w[j].id /\ w[i].id # 0 => i = j
         /\ \A i \in Slots : w[i].id <= pushed + 1
         /\ \A h \in Header : 0 \notin Held(slot, h) => 0 \notin Held(w, h)
         /\ \A h \in Header :
              kept \subseteq Held(slot, h) => (kept \ Victim) \subseteq Held(w, h)
         /\ 0 \notin Held(w, Appended(hdr))
         /\ (kept \ Victim) \subseteq Held(w, Appended(hdr))
<1> DEFINE n == pushed + 1
<1>1. /\ hdr \in Header /\ hdr.head \in Slots /\ hdr.tail \in Slots
      /\ hdr.count \in 0 .. Capacity /\ Consistent(hdr)
      /\ hdr.head = At(hdr.tail, hdr.count)
  BY DEF Inv, TypeOK, HeadersConsistent, Consistent, Header
<1>2. /\ pushed \in Nat /\ n \in Ids /\ n # 0
      /\ slot \in [Slots -> [id : Ids, ok : BOOLEAN]]
      /\ \A i \in Slots : slot[i].id \in Ids /\ slot[i].id <= pushed
  BY PushesAssumption DEF Inv, TypeOK, Past, Ids
<1>3. /\ w \in [Slots -> [id : Ids, ok : BOOLEAN]]
      /\ w[hdr.head].id = n
      /\ \A i \in Slots : i # hdr.head => w[i] = slot[i]
  BY <1>1, <1>2 DEF Written
<1>4. \A i, j \in Slots : w[i].id = w[j].id /\ w[i].id # 0 => i = j
  <2> SUFFICES ASSUME NEW i \in Slots, NEW j \in Slots, w[i].id = w[j].id, w[i].id # 0
               PROVE  i = j
    OBVIOUS
  <2>1. \A k \in Slots : slot[k].id # n
    BY <1>2 DEF Ids
  <2>2. CASE i = hdr.head \/ j = hdr.head
    BY <1>1, <1>3, <2>1, <2>2
  <2>3. CASE i # hdr.head /\ j # hdr.head
    BY <1>3, <2>3 DEF Inv, Distinct
  <2> QED
    BY <2>2, <2>3
<1>5. \A i \in Slots : w[i].id <= n
  <2> TAKE i \in Slots
  <2>1. CASE i = hdr.head
    BY <1>2, <1>3, <2>1 DEF Ids
  <2>2. CASE i # hdr.head
    <3>1. w[i].id = slot[i].id /\ slot[i].id <= pushed /\ slot[i].id \in Nat
      BY <1>2, <1>3, <2>2 DEF Ids
    <3> QED
      BY <1>2, <3>1
  <2> QED
    BY <2>1, <2>2
<1>6. \A h \in Header : 0 \notin Held(slot, h) => 0 \notin Held(w, h)
  BY <1>2, <1>3, QueuedSlots DEF Held
<1>7. \A h \in Header :
        kept \subseteq Held(slot, h) => (kept \ Victim) \subseteq Held(w, h)
  <2> SUFFICES ASSUME NEW h \in Header, kept \subseteq Held(slot, h),
                      NEW x \in kept \ Victim
               PROVE  x \in Held(w, h)
    OBVIOUS
  <2>1. PICK i \in Queued(h) : slot[i].id = x
    BY DEF Held
  <2>2. i \in Slots /\ i # hdr.head
    BY <2>1, QueuedSlots, KeptElsewhere
  <2> QED
    BY <1>3, <2>1, <2>2 DEF Held
<1>8. 0 \notin Held(slot, hdr) /\ kept \subseteq Held(slot, hdr)
  BY DEF Inv, NoBlankQueued, Durable
<1>9. \A k \in 0 .. (Appended(hdr).count - 1) :
        \/ At(Appended(hdr).tail, k) = hdr.head
        \/ At(Appended(hdr).tail, k) \in Queued(hdr)
  <2> SUFFICES ASSUME NEW k \in 0 .. (Appended(hdr).count - 1)
               PROVE  \/ At(Appended(hdr).tail, k) = hdr.head
                      \/ At(Appended(hdr).tail, k) \in Queued(hdr)
    OBVIOUS
  <2>1. CASE Full(hdr)
    <3>1. k \in Nat /\ k + 1 <= hdr.count /\ hdr.count = Capacity
          /\ Appended(hdr).tail = At(hdr.tail, 1)
      BY <1>1, <2>1, CapacityAssumption DEF Appended, Full
    <3>2. At(At(hdr.tail, 1), k) = At(hdr.tail, 1 + k)
      BY <1>1, <3>1, AtSum, CapacityAssumption
    <3>3. CASE 1 + k = hdr.count
      BY <1>1, <3>1, <3>2, <3>3
    <3>4. CASE 1 + k # hdr.count
      <4>1. 1 + k \in 0 .. (hdr.count - 1)
        BY <1>1, <3>1, <3>4, CapacityAssumption
      <4> QED
        BY <3>1, <3>2, <4>1 DEF Queued
    <3> QED
      BY <3>3, <3>4
  <2>2. CASE ~ Full(hdr)
    <3>1. k \in 0 .. hdr.count /\ Appended(hdr).tail = hdr.tail
      BY <1>1, <2>2, CapacityAssumption DEF Appended, Full
    <3>2. CASE k = hdr.count
      BY <1>1, <3>1, <3>2
    <3>3. CASE k # hdr.count
      <4>1. k \in 0 .. (hdr.count - 1)
        BY <1>1, <3>1, <3>3, CapacityAssumption
      <4> QED
        BY <3>1, <4>1 DEF Queued
    <3> QED
      BY <3>2, <3>3
  <2> QED
    BY <2>1, <2>2
<1>10. 0 \notin Held(w, Appended(hdr))
  <2> SUFFICES ASSUME NEW i \in Queued(Appended(hdr)) PROVE w[i].id # 0
    BY DEF Held
  <2>1. i = hdr.head \/ i \in Queued(hdr)
    BY <1>9 DEF Queued
  <2>2. CASE i = hdr.head
    BY <1>2, <1>3, <2>2
  <2>3. CASE i # hdr.head
    <3>1. i \in Queued(hdr) /\ i \in Slots
      BY <1>1, <2>1, <2>3, QueuedSlots
    <3> QED
      BY <1>3, <1>8, <2>3, <3>1 DEF Held
  <2> QED
    BY <2>2, <2>3
<1>11. (kept \ Victim) \subseteq Held(w, Appended(hdr))
  <2> SUFFICES ASSUME NEW x \in kept \ Victim PROVE x \in Held(w, Appended(hdr))
    OBVIOUS
  <2>1. PICK k \in 0 .. (hdr.count - 1) : slot[At(hdr.tail, k)].id = x
    BY <1>1, <1>8, HeldAt
  <2>2. At(hdr.tail, k) \in Slots
    BY <1>1, AtInSlots, CapacityAssumption
  <2>3. w[At(hdr.tail, k)].id = x
    BY <1>3, <2>1, <2>2, KeptElsewhere
  <2>4. At(hdr.tail, k) \in Queued(Appended(hdr))
    <3>1. CASE Full(hdr)
      <4>1. k # 0
        <5>1. At(hdr.tail, 0) = hdr.tail
          BY <1>1, CapacityAssumption DEF At, Slots
        <5> QED
          BY <2>1, <3>1, <5>1 DEF Victim
      <4>2. /\ k - 1 \in 0 .. (Appended(hdr).count - 1)
            /\ Appended(hdr).tail = At(hdr.tail, 1)
        BY <1>1, <3>1, <4>1, CapacityAssumption DEF Appended, Full
      <4>3. At(At(hdr.tail, 1), k - 1) = At(hdr.tail, k)
        <5>1. k - 1 \in Nat /\ 1 + (k - 1) = k /\ k <= Capacity
          BY <1>1, <4>1, CapacityAssumption
        <5> QED
          BY <1>1, <5>1, AtSum
      <4> QED
        BY <4>2, <4>3 DEF Queued
    <3>2. CASE ~ Full(hdr)
      <4>1. k \in 0 .. (Appended(hdr).count - 1) /\ Appended(hdr).tail = hdr.tail
        BY <1>1, <3>2, CapacityAssumption DEF Appended, Full
      <4> QED
        BY <4>1 DEF Queued
    <3> QED
      BY <3>1, <3>2
  <2> QED
    BY <2>3, <2>4 DEF Held
<1> QED
  BY <1>3, <1>4, <1>5, <1>6, <1>7, <1>10, <1>11

\* Walking past k queued slots keeps every reading that is not in one of them.
LEMMA SkippedSlots ==
  ASSUME Inv, Mounted, NEW k \in 0 .. hdr.count
  PROVE  /\ 0 \notin Held(slot, Advanced(hdr, k))
         /\ (kept \ { slot[At(hdr.tail, j)].id : j \in 0 .. (k - 1) })
              \subseteq Held(slot, Advanced(hdr, k))
<1>1. /\ hdr \in Header /\ hdr.tail \in Slots /\ hdr.count \in 0 .. Capacity
      /\ k \in Nat
  BY CapacityAssumption DEF Inv, TypeOK, Header
<1>2. 0 \notin Held(slot, hdr) /\ kept \subseteq Held(slot, hdr)
  BY DEF Inv, NoBlankQueued, Durable
<1>3. Advanced(hdr, k).tail = At(hdr.tail, k) /\ Advanced(hdr, k).count = hdr.count - k
  BY DEF Advanced
<1>4. \A m \in 0 .. (hdr.count - k - 1) :
        /\ k + m \in 0 .. (hdr.count - 1)
        /\ At(At(hdr.tail, k), m) = At(hdr.tail, k + m)
  <2> TAKE m \in 0 .. (hdr.count - k - 1)
  <2>1. m \in Nat /\ k + m <= Capacity /\ k + m \in 0 .. (hdr.count - 1)
    BY <1>1, CapacityAssumption
  <2> QED
    BY <1>1, <2>1, AtSum
<1>5. 0 \notin Held(slot, Advanced(hdr, k))
  BY <1>2, <1>3, <1>4 DEF Held, Queued
<1>6. ASSUME NEW x \in kept, x \notin { slot[At(hdr.tail, j)].id : j \in 0 .. (k - 1) }
      PROVE  x \in Held(slot, Advanced(hdr, k))
  <2>1. PICK j \in 0 .. (hdr.count - 1) : slot[At(hdr.tail, j)].id = x
    BY <1>1, <1>2, HeldAt
  <2>2. j \notin 0 .. (k - 1)
    BY <1>6, <2>1
  <2>3. j - k \in 0 .. (hdr.count - k - 1) /\ k + (j - k) = j
    BY <1>1, <2>2
  <2>4. At(At(hdr.tail, k), j - k) = At(hdr.tail, j)
    BY <1>4, <2>3
  <2> QED
    BY <1>3, <2>1, <2>3, <2>4 DEF Held, Queued
<1> QED
  BY <1>5, <1>6

-----------------------------------------------------------------------------
(* What writeHeader() does to the invariant, given the ring it commits.    *)

\* The conjuncts of Inv that a header write may touch.
HeaderPart ==
  /\ committed \in Header \cup {NoHeader}
  /\ kept \subseteq 1 .. MaxPushes /\ kept \subseteq 1 .. pushed
  /\ HeadersConsistent /\ NoBlankQueued /\ Durable

LEMMA NoHeaderDiffers == NoHeader \notin Header
BY CapacityAssumption DEF NoHeader, Header

\* A committed header makes the promise exactly what the ring holds.
LEMMA Committing ==
  ASSUME CommitOk(hdr'), hdr' \in Header, Consistent(hdr'),
         slot' \in [Slots -> [id : Ids, ok : BOOLEAN]],
         \A i \in Slots : slot'[i].id <= pushed', pushed' \in Ids,
         0 \notin Held(slot', hdr')
  PROVE  HeaderPart'
<1>1. committed' = hdr' /\ kept' = Held(slot', hdr') /\ committed' # NoHeader
  BY NoHeaderDiffers DEF CommitOk
<1>2. ASSUME NEW x \in Held(slot', hdr') PROVE x \in 1 .. pushed' /\ x \in 1 .. MaxPushes
  <2>1. PICK i \in Slots : slot'[i].id = x
    BY <1>2, QueuedSlots DEF Held
  <2>2. x \in Ids /\ x <= pushed' /\ x # 0
    BY <2>1
  <2> QED
    BY <2>2, PushesAssumption DEF Ids
<1>3. kept' \subseteq 1 .. MaxPushes /\ kept' \subseteq 1 .. pushed'
  BY <1>1, <1>2
<1>4. HeadersConsistent' /\ NoBlankQueued' /\ Durable'
  BY <1>1 DEF HeadersConsistent, NoBlankQueued, Durable
<1> QED
  BY <1>1, <1>3, <1>4 DEF HeaderPart

\* A header not committed, or torn, keeps the promises that both rings keep.
LEMMA NotCommitting ==
  ASSUME Inv, NEW p \in SUBSET kept, CommitFailed(p), pushed <= pushed',
         pushed' \in Ids, Mounted' => Consistent(hdr'),
         committed # NoHeader => /\ p \subseteq Held(slot', committed)
                                 /\ 0 \notin Held(slot', committed),
         Mounted' => p \subseteq Held(slot', hdr') /\ 0 \notin Held(slot', hdr')
  PROVE  HeaderPart'
<1>1. pushed \in Ids /\ kept \subseteq 1 .. pushed /\ kept \subseteq 1 .. MaxPushes
      /\ committed \in Header \cup {NoHeader}
  BY DEF Inv, TypeOK, Past
<1>2. p \subseteq 1 .. pushed' /\ p \subseteq 1 .. MaxPushes
  BY <1>1, PushesAssumption DEF Ids
<1>3. CASE committed' = committed /\ kept' = p
  <2>1. committed = NoHeader => p = {}
    BY DEF Inv, Durable
  <2>2. HeadersConsistent'
    BY <1>3 DEF Inv, HeadersConsistent
  <2>3. NoBlankQueued'
    BY <1>3 DEF NoBlankQueued
  <2>4. Durable'
    BY <1>3, <2>1 DEF Durable
  <2> QED
    BY <1>1, <1>2, <1>3, <2>2, <2>3, <2>4 DEF HeaderPart
<1>4. CASE committed' = NoHeader /\ kept' = {}
  BY <1>4 DEF HeaderPart, HeadersConsistent, NoBlankQueued, Durable
<1> QED
  BY <1>3, <1>4 DEF CommitFailed

-----------------------------------------------------------------------------
(* The invariant holds at power-on and every call and cut preserves it.    *)

LEMMA InitInv == Init => Inv
<1> SUFFICES ASSUME Init PROVE Inv
  OBVIOUS
<1>1. 0 \in Slots /\ 0 \in Ids /\ pushed = 0
  BY CapacityAssumption, PushesAssumption DEF Init, Slots, Ids
<1>2. TypeOK
  <2>1. Empty \in Header
    BY <1>1, CapacityAssumption DEF Empty, Header
  <2>2. Blank \in [id : Ids, ok : BOOLEAN]
    BY <1>1 DEF Blank
  <2> QED
    BY <1>1, <2>1, <2>2 DEF Init, TypeOK
<1>3. HeadersConsistent /\ NoBlankQueued /\ Durable
  BY DEF Init, HeadersConsistent, NoBlankQueued, Durable, Mounted
<1>4. \A j \in Slots : slot[j].id = 0
  BY DEF Init, Blank
<1>5. Distinct /\ Past
  BY <1>1, <1>4 DEF Init, Distinct, Past
<1> QED
  BY <1>2, <1>3, <1>5 DEF Inv

\* The parts of Inv that only a flash write to a slot may touch.
SlotPart ==
  /\ slot \in [Slots -> [id : Ids, ok : BOOLEAN]]
  /\ Distinct
  /\ \A i \in Slots : slot[i].id <= pushed

\* The parts of Inv about RAM and the history.
RamPart ==
  /\ power \in {"off", "up", "unmounted"}
  /\ hdr \in Header /\ dirty \in BOOLEAN /\ evicted \in Nat
  /\ pushed \in Ids /\ refused \subseteq 1 .. MaxPushes /\ reordered \in BOOLEAN

LEMMA InvParts == Inv <=> RamPart /\ SlotPart /\ HeaderPart
BY DEF Inv, TypeOK, Past, RamPart, SlotPart, HeaderPart

\* A ring of zeroes.
LEMMA EmptyHeader ==
  /\ Empty \in Header /\ Consistent(Empty) /\ Empty # NoHeader
  /\ \A s : Held(s, Empty) = {}
BY CapacityAssumption DEF Empty, Header, Slots, Consistent, At, NoHeader, Held, Queued

LEMMA BlankedSlots ==
  ASSUME Inv, NEW zeroed \in SUBSET Slots,
         slot' = [i \in Slots |-> IF i \in zeroed THEN Blank ELSE slot[i]],
         pushed' = pushed
  PROVE  SlotPart'
<1>1. \A i \in Slots : slot'[i].id \in {0, slot[i].id}
  BY DEF Blank
<1>2. slot' \in [Slots -> [id : Ids, ok : BOOLEAN]]
  BY PushesAssumption DEF Inv, TypeOK, Blank, Ids
<1>3. Distinct'
  BY <1>1 DEF Inv, Distinct
<1>4. \A i \in Slots : slot'[i].id <= pushed'
  BY <1>1, PushesAssumption DEF Inv, Past, TypeOK, Ids
<1> QED
  BY <1>2, <1>3, <1>4 DEF SlotPart

LEMMA BeginInv ==
  ASSUME Inv, Begin
  PROVE  Inv'
<1>1. CASE MountFails
  <2>1. RamPart'
    BY <1>1, EmptyHeader DEF MountFails, RamReset, history, RamPart, Inv, TypeOK
  <2>2. SlotPart'
    BY <1>1 DEF MountFails, flash, history, SlotPart, Inv, TypeOK, Distinct, Past
  <2>3. HeaderPart'
    BY <1>1 DEF MountFails, flash, history, HeaderPart, Inv, TypeOK, Past,
       HeadersConsistent, NoBlankQueued, Durable, Mounted
  <2> QED
    BY <2>1, <2>2, <2>3 DEF Inv, TypeOK, Past, RamPart, SlotPart, HeaderPart
<1>2. CASE BeginExisting
  <2>1. RamPart'
    BY <1>2 DEF BeginExisting, RamReset, history, RamPart, Inv, TypeOK
  <2>2. SlotPart'
    BY <1>2 DEF BeginExisting, flash, history, SlotPart, Inv, TypeOK, Distinct, Past
  <2>3. HeaderPart'
    BY <1>2 DEF BeginExisting, flash, history, HeaderPart, Inv, TypeOK, Past,
       HeadersConsistent, NoBlankQueued, Durable, Mounted
  <2> QED
    BY <2>1, <2>2, <2>3 DEF Inv, TypeOK, Past, RamPart, SlotPart, HeaderPart
<1>3. CASE Reformat
  <2>1. RamPart'
    BY <1>3 DEF Reformat, RamPart, Inv, TypeOK
  <2>2. SlotPart'
    <3>1. slot' = [i \in Slots |-> IF i \in Slots THEN Blank ELSE slot[i]]
      BY <1>3 DEF Reformat
    <3>2. pushed' = pushed
      BY <1>3 DEF Reformat
    <3> QED
      BY <3>1, <3>2, BlankedSlots
  <2>3. HeaderPart'
    BY <1>3 DEF Reformat, HeaderPart, Inv, TypeOK, Past,
       HeadersConsistent, NoBlankQueued, Durable, Mounted
  <2> QED
    BY <2>1, <2>2, <2>3 DEF Inv, TypeOK, Past, RamPart, SlotPart, HeaderPart
<1>4. CASE BeginCreated
  <2>1. RamPart'
    BY <1>4, EmptyHeader DEF BeginCreated, RamReset, RamPart, Inv, TypeOK
  <2>2. SlotPart'
    <3>1. slot' = [i \in Slots |-> IF i \in Slots THEN Blank ELSE slot[i]]
      BY <1>4 DEF BeginCreated
    <3>2. pushed' = pushed
      BY <1>4 DEF BeginCreated
    <3> QED
      BY <3>1, <3>2, BlankedSlots
  <2>3. HeaderPart'
    BY <1>4, EmptyHeader DEF BeginCreated, HeaderPart, HeadersConsistent,
       NoBlankQueued, Durable
  <2> QED
    BY <2>1, <2>2, <2>3 DEF Inv, TypeOK, Past, RamPart, SlotPart, HeaderPart
<1>5. CASE CreateFails
  <2>1. RamPart'
    BY <1>5, EmptyHeader DEF CreateFails, RamReset, history, RamPart, Inv, TypeOK
  <2>2. SlotPart'
    <3>1. PICK files \in 0 .. Capacity :
            slot' = [i \in Slots |-> IF i \div PerFile < files THEN Blank ELSE slot[i]]
      BY <1>5 DEF CreateFails
    <3> DEFINE zeroed == { i \in Slots : i \div PerFile < files }
    <3>2. slot' = [i \in Slots |-> IF i \in zeroed THEN Blank ELSE slot[i]]
      BY <3>1
    <3> HIDE DEF zeroed
    <3>4. zeroed \in SUBSET Slots
      BY DEF zeroed
    <3>3. pushed' = pushed
      BY <1>5 DEF CreateFails, history
    <3> QED
      BY <3>2, <3>3, <3>4, BlankedSlots
  <2>3. HeaderPart'
    BY <1>5 DEF CreateFails, history, HeaderPart, Inv, TypeOK, Past,
       HeadersConsistent, NoBlankQueued, Durable, Mounted
  <2> QED
    BY <2>1, <2>2, <2>3 DEF Inv, TypeOK, Past, RamPart, SlotPart, HeaderPart
<1> QED
  BY <1>1, <1>2, <1>3, <1>4, <1>5 DEF Begin

\* Facts about the next reading's number.
LEMMA NextReading ==
  ASSUME Inv, pushed < MaxPushes
  PROVE  /\ pushed + 1 \in Ids /\ pushed + 1 \in 1 .. MaxPushes
         /\ pushed <= pushed + 1 /\ kept \subseteq 1 .. (pushed + 1)
         /\ \A i \in Slots : slot[i].id <= pushed + 1
<1>1. pushed \in 0 .. MaxPushes /\ kept \subseteq 1 .. pushed
      /\ \A i \in Slots : slot[i].id \in 0 .. MaxPushes /\ slot[i].id <= pushed
  BY DEF Inv, TypeOK, Past, Ids
<1>2. kept \subseteq 1 .. (pushed + 1)
  BY <1>1, PushesAssumption
<1>3. \A i \in Slots : slot[i].id <= pushed + 1
  BY <1>1, PushesAssumption
<1> QED
  BY <1>1, <1>2, <1>3, PushesAssumption DEF Ids

\* What both rings hold survives a slot torn by a failed or cut write.
LEMMA TornInv ==
  ASSUME Inv, Mounted, slot' \in {slot, Torn(hdr.head)}
  PROVE  /\ slot' \in [Slots -> [id : Ids, ok : BOOLEAN]]
         /\ \A j \in Slots : slot'[j].id = slot[j].id
         /\ \A h \in Header : Held(slot', h) = Held(slot, h)
         /\ Distinct'
<1>1. hdr.head \in Slots /\ TypeOK
  BY DEF Inv, TypeOK, Header
<1>2. /\ slot' \in [Slots -> [id : Ids, ok : BOOLEAN]]
      /\ \A j \in Slots : slot'[j].id = slot[j].id
  BY <1>1, TornSlot DEF TypeOK
<1>3. \A h \in Header : Held(slot', h) = Held(slot, h)
  BY <1>2, SameReadings
<1>4. Distinct'
  BY <1>2 DEF Inv, Distinct
<1> QED
  BY <1>2, <1>3, <1>4

\* The slot and the RAM header after a push that wrote its slot.
LEMMA PushedRing ==
  ASSUME Inv, PushMoves, refused' \subseteq 1 .. MaxPushes, dirty' \in BOOLEAN
  PROVE  RamPart' /\ SlotPart' /\ Mounted' /\ Consistent(hdr') /\ pushed' = pushed + 1
<1>1. Mounted /\ pushed < MaxPushes /\ pushed' = pushed + 1 /\ Mounted'
      /\ slot' = Written(hdr.head, pushed + 1) /\ hdr' = Appended(hdr)
  BY DEF PushMoves, Mounted
<1>2. hdr \in Header /\ Consistent(hdr)
  BY <1>1 DEF Inv, TypeOK, HeadersConsistent
<1>3. hdr' \in Header /\ Consistent(hdr')
  BY <1>1, <1>2, AppendedHeader
<1>4. SlotPart'
  BY <1>1, FreshSlot DEF SlotPart, Distinct
<1>5. RamPart'
  <2>1. evicted' \in Nat /\ power' \in {"off", "up", "unmounted"} /\ reordered' \in BOOLEAN
    BY DEF PushMoves, Inv, TypeOK
  <2> QED
    BY <1>1, <1>3, <2>1, NextReading DEF RamPart
<1> QED
  BY <1>1, <1>3, <1>4, <1>5

LEMMA PushInv ==
  ASSUME Inv, Push
  PROVE  Inv'
<1>0. /\ committed \in Header \cup {NoHeader}
      /\ refused \subseteq 1 .. MaxPushes /\ dirty \in BOOLEAN
  BY DEF Inv, TypeOK
<1>1. CASE PushUnmounted
  <2>1. pushed < MaxPushes /\ pushed' = pushed + 1 /\ ~ Mounted'
    BY <1>1 DEF PushUnmounted, Mounted
  <2>2. RamPart'
    BY <1>1, <2>1, NextReading DEF PushUnmounted, flash, Inv, TypeOK, RamPart
  <2>3. SlotPart'
    BY <1>1, <2>1, NextReading DEF PushUnmounted, flash, Inv, TypeOK, SlotPart, Distinct
  <2>4. HeaderPart'
    <3>1. kept' = kept /\ committed' = committed /\ slot' = slot
      BY <1>1 DEF PushUnmounted, flash
    <3>2. HeadersConsistent' /\ NoBlankQueued' /\ Durable'
      BY <2>1, <3>1 DEF Inv, HeadersConsistent, NoBlankQueued, Durable
    <3> QED
      BY <1>0, <2>1, <3>1, <3>2, NextReading DEF HeaderPart, Inv, TypeOK
  <2> QED
    BY <2>2, <2>3, <2>4 DEF Inv, TypeOK, Past, RamPart, SlotPart, HeaderPart
<1>2. CASE PushSlotFails
  <2>1. Mounted /\ pushed < MaxPushes /\ pushed' = pushed + 1 /\ kept' = kept
        /\ committed' = committed /\ hdr' = hdr /\ power' = power
        /\ slot' \in {slot, Torn(hdr.head)}
    BY <1>2 DEF PushSlotFails
  <2>2. RamPart'
    BY <1>2, <2>1, NextReading DEF PushSlotFails, Inv, TypeOK, RamPart
  <2>3. SlotPart'
    BY <2>1, TornInv, NextReading DEF SlotPart
  <2>4. HeaderPart'
    <3>1. \A h \in Header : Held(slot', h) = Held(slot, h)
      BY <2>1, TornInv
    <3>2. hdr \in Header /\ Mounted'
      BY <2>1 DEF Inv, TypeOK, Mounted
    <3>3. HeadersConsistent'
      BY <2>1 DEF Inv, HeadersConsistent, Mounted
    <3>4. NoBlankQueued' /\ Durable'
      BY <1>0, <2>1, <3>1, <3>2 DEF Inv, NoBlankQueued, Durable
    <3> QED
      BY <1>0, <2>1, <3>3, <3>4, NextReading DEF HeaderPart, Inv, TypeOK
  <2> QED
    BY <2>2, <2>3, <2>4 DEF Inv, TypeOK, Past, RamPart, SlotPart, HeaderPart
<1>3. CASE PushPersisted
  <2>1. /\ PushMoves /\ CommitOk(hdr')
        /\ refused' \subseteq 1 .. MaxPushes /\ dirty' \in BOOLEAN
    BY <1>0, <1>3 DEF PushPersisted, CommitOk
  <2>2. RamPart' /\ SlotPart' /\ Consistent(hdr')
    BY <2>1, PushedRing
  <2>3. 0 \notin Held(slot', hdr')
    BY <2>1, FreshSlot DEF PushMoves
  <2>4. HeaderPart'
    BY <2>1, <2>2, <2>3, Committing DEF RamPart, SlotPart
  <2> QED
    BY <2>2, <2>4 DEF Inv, TypeOK, Past, RamPart, SlotPart, HeaderPart
<1>4. CASE PushHeaderFails \/ PushDeferred
  <2>1. /\ PushMoves /\ dirty' = TRUE
        /\ CommitFailed(kept \ Victim)
    BY <1>4 DEF PushHeaderFails, PushDeferred, CommitFailed
  <2>2. pushed < MaxPushes /\ pushed' = pushed + 1 /\ Mounted
        /\ slot' = Written(hdr.head, pushed + 1) /\ hdr' = Appended(hdr)
    BY <2>1 DEF PushMoves
  <2>3. refused' \subseteq 1 .. MaxPushes
    BY <1>0, <1>4, <2>2, NextReading DEF PushHeaderFails, PushDeferred
  <2>4. RamPart' /\ SlotPart' /\ Consistent(hdr')
    BY <2>1, <2>3, PushedRing
  <2>5. committed # NoHeader =>
          /\ (kept \ Victim) \subseteq Held(slot', committed)
          /\ 0 \notin Held(slot', committed)
    <3> SUFFICES ASSUME committed # NoHeader
                 PROVE  /\ (kept \ Victim) \subseteq Held(slot', committed)
                        /\ 0 \notin Held(slot', committed)
      OBVIOUS
    <3>1. committed \in Header /\ 0 \notin Held(slot, committed)
          /\ kept \subseteq Held(slot, committed)
      BY <1>0 DEF Inv, NoBlankQueued, Durable
    <3> QED
      BY <2>2, <3>1, FreshSlot
  <2>6. (kept \ Victim) \subseteq Held(slot', hdr') /\ 0 \notin Held(slot', hdr')
    BY <2>2, FreshSlot
  <2>7. HeaderPart'
    <3>1. pushed <= pushed' /\ pushed' \in Ids /\ kept \ Victim \in SUBSET kept
      BY <2>2, NextReading
    <3> QED
      BY <2>1, <2>4, <2>5, <2>6, <3>1, NotCommitting
  <2> QED
    BY <2>4, <2>7 DEF Inv, TypeOK, Past, RamPart, SlotPart, HeaderPart
<1> QED
  BY <1>1, <1>2, <1>3, <1>4 DEF Push

LEMMA PeekInv ==
  ASSUME Inv, Peek
  PROVE  Inv'
<1>1. PICK k \in 1 .. Capacity : k <= hdr.count /\ SkipBad(k)
  BY DEF Peek
<1> DEFINE left == kept \ { slot[At(hdr.tail, j)].id : j \in 0 .. (k - 1) }
<1>2. /\ Mounted /\ Mounted' /\ hdr \in Header /\ Consistent(hdr)
      /\ k \in 0 .. hdr.count /\ hdr.count \in 0 .. Capacity
  BY <1>1, CapacityAssumption DEF SkipBad, Mounted, Inv, TypeOK, HeadersConsistent, Header
<1>3. /\ hdr' = Advanced(hdr, k) /\ slot' = slot /\ pushed' = pushed
      /\ evicted' = evicted + k
      /\ power' = power /\ refused' = refused /\ reordered' = reordered
      /\ CommitOk(hdr') \/ (CommitFailed(left) /\ dirty' = dirty)
  BY <1>1 DEF SkipBad
<1>4. hdr' \in Header /\ Consistent(hdr')
  BY <1>2, <1>3, AdvancedHeader
<1>5. 0 \notin Held(slot', hdr') /\ left \subseteq Held(slot', hdr')
  BY <1>2, <1>3, SkippedSlots
<1>6. RamPart'
  <2>1. evicted' \in Nat
    BY <1>2, <1>3, CapacityAssumption DEF Inv, TypeOK
  <2>2. dirty' \in BOOLEAN
    BY <1>3 DEF CommitOk, Inv, TypeOK
  <2> QED
    BY <1>3, <1>4, <2>1, <2>2 DEF Inv, TypeOK, RamPart
<1>7. SlotPart'
  BY <1>3 DEF Inv, TypeOK, Past, SlotPart, Distinct
<1>8. HeaderPart'
  <2>1. CASE CommitOk(hdr')
    BY <1>3, <1>4, <1>5, <2>1, Committing DEF Inv, TypeOK, Past
  <2>2. CASE CommitFailed(left)
    <3>1. left \in SUBSET kept
      OBVIOUS
    <3>2. committed # NoHeader => left \subseteq Held(slot', committed)
                                  /\ 0 \notin Held(slot', committed)
      BY <1>3 DEF Inv, Durable, NoBlankQueued
    <3>3. pushed <= pushed' /\ pushed' \in Ids
      BY <1>3, PushesAssumption DEF Inv, TypeOK, Ids
    <3> HIDE DEF left
    <3> QED
      BY <1>3, <1>4, <1>5, <2>2, <3>1, <3>2, <3>3, NotCommitting
  <2> QED
    BY <1>3, <2>1, <2>2
<1> QED
  BY <1>6, <1>7, <1>8 DEF Inv, TypeOK, Past, RamPart, SlotPart, HeaderPart

LEMMA PopInv ==
  ASSUME Inv, Pop
  PROVE  Inv'
<1>1. /\ Mounted /\ Mounted' /\ hdr \in Header /\ Consistent(hdr)
      /\ hdr.tail \in Slots /\ 1 \in 0 .. hdr.count /\ hdr.count \in 0 .. Capacity
  BY CapacityAssumption DEF Pop, Readable, Mounted, Inv, TypeOK, HeadersConsistent, Header
<1>2. /\ hdr' = Advanced(hdr, 1) /\ slot' = slot /\ committed' = committed
      /\ kept' = kept \ {slot[hdr.tail].id} /\ dirty' = TRUE
      /\ pushed' = pushed /\ evicted' = evicted
      /\ power' = power /\ refused' = refused /\ reordered' = reordered
  BY DEF Pop, flash, Front
<1>3. hdr' \in Header /\ Consistent(hdr')
  BY <1>1, <1>2, AdvancedHeader
<1>4. { slot[At(hdr.tail, j)].id : j \in 0 .. (1 - 1) } = {slot[hdr.tail].id}
  <2>1. At(hdr.tail, 0) = hdr.tail /\ 0 .. (1 - 1) = {0}
    BY <1>1, CapacityAssumption DEF At, Slots
  <2> QED
    BY <2>1
<1>5. 0 \notin Held(slot', hdr') /\ kept' \subseteq Held(slot', hdr')
  BY <1>1, <1>2, <1>4, SkippedSlots
<1>6. RamPart'
  BY <1>2, <1>3 DEF Inv, TypeOK, RamPart
<1>7. SlotPart'
  BY <1>2 DEF Inv, TypeOK, Past, SlotPart, Distinct
<1>8. HeaderPart'
  <2>1. HeadersConsistent' /\ NoBlankQueued'
    BY <1>2, <1>3, <1>5 DEF Inv, HeadersConsistent, NoBlankQueued
  <2>2. Durable'
    BY <1>2, <1>5 DEF Inv, Durable
  <2> QED
    BY <1>2, <2>1, <2>2 DEF Inv, TypeOK, Past, HeaderPart
<1> QED
  BY <1>6, <1>7, <1>8 DEF Inv, TypeOK, Past, RamPart, SlotPart, HeaderPart

LEMMA FlushInv ==
  ASSUME Inv, Flush
  PROVE  Inv'
<1>1. /\ Mounted /\ Mounted' /\ hdr' = hdr /\ slot' = slot /\ pushed' = pushed
      /\ power' = power /\ refused' = refused /\ reordered' = reordered
      /\ evicted' = evicted
      /\ CommitOk(hdr') \/ (CommitFailed(kept) /\ dirty' = dirty)
  BY DEF Flush, Mounted
<1>2. /\ hdr' \in Header /\ Consistent(hdr') /\ 0 \notin Held(slot', hdr')
      /\ kept \subseteq Held(slot', hdr')
  BY <1>1 DEF Inv, TypeOK, HeadersConsistent, NoBlankQueued, Durable
<1>3. RamPart'
  BY <1>1 DEF Inv, TypeOK, RamPart, CommitOk
<1>4. SlotPart'
  BY <1>1 DEF Inv, TypeOK, Past, SlotPart, Distinct
<1>5. HeaderPart'
  <2>1. CASE CommitOk(hdr')
    BY <1>1, <1>2, <2>1, Committing DEF Inv, TypeOK, Past
  <2>2. CASE CommitFailed(kept)
    <3>1. committed # NoHeader => kept \subseteq Held(slot', committed)
                                  /\ 0 \notin Held(slot', committed)
      BY <1>1 DEF Inv, Durable, NoBlankQueued
    <3>2. pushed <= pushed' /\ pushed' \in Ids /\ kept \in SUBSET kept
      BY <1>1, PushesAssumption DEF Inv, TypeOK, Ids
    <3> QED
      BY <1>1, <1>2, <2>2, <3>1, <3>2, NotCommitting
  <2> QED
    BY <1>1, <2>1, <2>2
<1> QED
  BY <1>3, <1>4, <1>5 DEF Inv, TypeOK, Past, RamPart, SlotPart, HeaderPart

LEMMA PowerCutInv ==
  ASSUME Inv, PowerCut
  PROVE  Inv'
<1>0. committed \in Header \cup {NoHeader}
  BY DEF Inv, TypeOK
<1>1. CASE Cut
  <2>1. RamPart'
    BY <1>1, EmptyHeader DEF Cut, PowerLost, RamReset, Inv, TypeOK, RamPart
  <2>2. SlotPart'
    BY <1>1 DEF Cut, flash, Inv, TypeOK, Past, SlotPart, Distinct
  <2>3. HeaderPart'
    BY <1>1 DEF Cut, PowerLost, flash, Mounted, HeaderPart, Inv, TypeOK, Past,
       HeadersConsistent, NoBlankQueued, Durable
  <2> QED
    BY <2>1, <2>2, <2>3 DEF Inv, TypeOK, Past, RamPart, SlotPart, HeaderPart
<1>2. CASE CutInPush
  <2>1. /\ Mounted /\ ~ Mounted' /\ pushed < MaxPushes /\ pushed' = pushed + 1
        /\ power' = "off" /\ hdr' = Empty /\ committed' = committed
        /\ refused' = refused /\ dirty' = FALSE /\ evicted' = 0
    BY <1>2 DEF CutInPush, PowerLost, RamReset, Mounted
  <2>2. RamPart'
    <3>1. reordered' \in BOOLEAN
      BY <1>2 DEF CutInPush
    <3> QED
      BY <2>1, <3>1, EmptyHeader, NextReading DEF Inv, TypeOK, RamPart
  <2>3. /\ SlotPart' /\ kept' \subseteq kept
        /\ committed # NoHeader =>
             0 \notin Held(slot', committed) /\ kept' \subseteq Held(slot', committed)
    <3>0. committed # NoHeader => /\ committed \in Header
                                  /\ 0 \notin Held(slot, committed)
                                  /\ kept \subseteq Held(slot, committed)
      BY <1>0 DEF Inv, NoBlankQueued, Durable
    <3>1. CASE slot' = Torn(hdr.head) /\ kept' = kept
      <4>1. SlotPart'
        BY <2>1, <3>1, TornInv, NextReading DEF SlotPart
      <4>2. \A h \in Header : Held(slot', h) = Held(slot, h)
        BY <2>1, <3>1, TornInv
      <4> QED
        BY <3>0, <3>1, <4>1, <4>2
    <3>2. CASE slot' = Written(hdr.head, pushed + 1) /\ kept' = kept \ Victim
      <4>1. SlotPart'
        BY <2>1, <3>2, FreshSlot DEF SlotPart, Distinct
      <4> QED
        BY <2>1, <3>0, <3>2, <4>1, FreshSlot
    <3> QED
      BY <1>2, <2>1, <3>1, <3>2 DEF CutInPush
  <2>4. HeaderPart'
    <3>1. kept' \subseteq 1 .. MaxPushes /\ kept' \subseteq 1 .. pushed'
      BY <2>1, <2>3, NextReading DEF Inv, TypeOK
    <3>2. HeadersConsistent' /\ NoBlankQueued'
      BY <2>1, <2>3 DEF Inv, HeadersConsistent, NoBlankQueued
    <3>3. Durable'
      BY <2>1, <2>3 DEF Inv, Durable
    <3> QED
      BY <1>0, <2>1, <3>1, <3>2, <3>3 DEF HeaderPart
  <2> QED
    BY <2>2, <2>3, <2>4 DEF Inv, TypeOK, Past, RamPart, SlotPart, HeaderPart
<1>3. CASE CutInHeader
  <2>1. RamPart'
    BY <1>3, EmptyHeader DEF CutInHeader, PowerLost, RamReset, Inv, TypeOK, RamPart
  <2>2. SlotPart'
    BY <1>3 DEF CutInHeader, Inv, TypeOK, Past, SlotPart, Distinct
  <2>3. HeaderPart'
    BY <1>3 DEF CutInHeader, PowerLost, Mounted, HeaderPart,
       HeadersConsistent, NoBlankQueued, Durable
  <2> QED
    BY <2>1, <2>2, <2>3 DEF Inv, TypeOK, Past, RamPart, SlotPart, HeaderPart
<1> QED
  BY <1>1, <1>2, <1>3 DEF PowerCut

\* Inv is inductive.
LEMMA StepInv == Inv /\ [Next]_vars => Inv'
<1> SUFFICES ASSUME Inv, [Next]_vars PROVE Inv'
  OBVIOUS
<1>1. CASE Begin
  BY <1>1, BeginInv
<1>2. CASE Push
  BY <1>2, PushInv
<1>3. CASE Peek
  BY <1>3, PeekInv
<1>4. CASE Pop
  BY <1>4, PopInv
<1>5. CASE Flush
  BY <1>5, FlushInv
<1>6. CASE PowerCut
  BY <1>6, PowerCutInv
<1>7. CASE UNCHANGED vars
  BY <1>7 DEF vars, Inv, TypeOK, Mounted, HeadersConsistent, NoBlankQueued,
     Distinct, Past, Durable
<1> QED
  BY <1>1, <1>2, <1>3, <1>4, <1>5, <1>6, <1>7 DEF Next

LEMMA Invariance == Spec => []Inv
<1>1. Init => Inv
  BY InitInv
<1>2. Inv /\ [Next]_vars => Inv'
  BY StepInv
<1> QED
  BY <1>1, <1>2, PTL DEF Spec

-----------------------------------------------------------------------------
(* The theorems.                                                           *)

\* Every variable of the store keeps its type: no call moves a header field
\* out of the range that begin() checks (store.cpp:174-176).
THEOREM TypeCorrect == Spec => []TypeOK
<1>1. Inv => TypeOK
  BY DEF Inv
<1> QED
  BY <1>1, Invariance, PTL

\* begin() trusts a header whose fields are each in range (store.cpp:174-176);
\* it may, because no header ever reaches flash with fields that disagree.
THEOREM HeadersStayConsistent == Spec => []HeadersConsistent
<1>1. Inv => HeadersConsistent
  BY DEF Inv
<1> QED
  BY <1>1, Invariance, PTL

\* No header counts a slot that never held a reading.
THEOREM NeverQueuesBlank == Spec => []NoBlankQueued
<1>1. Inv => NoBlankQueued
  BY DEF Inv
<1> QED
  BY <1>1, Invariance, PTL

\* A reading whose push or flush succeeded survives a power cut at any instant
\* until it is popped or evicted, for every capacity of the ring.
THEOREM PromisedReadingsSurvive == Spec => []Durable
<1>1. Inv => Durable
  BY DEF Inv
<1> QED
  BY <1>1, Invariance, PTL

-----------------------------------------------------------------------------
(* What a call loses, it counts.                                           *)

\* A loss that is confined to a finite set is no larger than the set.
LEMMA ConfinedLoss ==
  ASSUME NEW lost, NEW given, IsFiniteSet(given), NEW n \in Int,
         Cardinality(given) <= n, NEW popped, lost \subseteq given \cup popped
  PROVE  Cardinality(lost \ popped) <= n
<1>1. lost \ popped \in SUBSET given
  OBVIOUS
<1>2. Cardinality(lost \ popped) <= Cardinality(given) /\ IsFiniteSet(lost \ popped)
  BY <1>1, FS_Subset
<1>3. Cardinality(lost \ popped) \in Nat /\ Cardinality(given) \in Nat
  BY <1>2, FS_CardinalityType
<1> QED
  BY <1>2, <1>3

\* At most one reading is overwritten, and only when the ring is full.
LEMMA VictimSize ==
  /\ IsFiniteSet(Victim)
  /\ Cardinality(Victim) <= IF Full(hdr) THEN 1 ELSE 0
<1>1. CASE Full(hdr)
  <2>1. Victim = {slot[hdr.tail].id}
    BY <1>1 DEF Victim
  <2>2. IsFiniteSet(Victim) /\ Cardinality(Victim) = 1
    BY <2>1, FS_Singleton
  <2> QED
    BY <1>1, <2>2
<1>2. CASE ~ Full(hdr)
  <2>1. Victim = {}
    BY <1>2 DEF Victim
  <2>2. IsFiniteSet(Victim) /\ Cardinality(Victim) = 0
    BY <2>1, FS_EmptySet
  <2> QED
    BY <1>2, <2>2
<1> QED
  BY <1>1, <1>2

\* k slots walked past hold at most k readings.
LEMMA WalkedSize ==
  ASSUME NEW k \in Nat, NEW t
  PROVE  /\ IsFiniteSet({ slot[At(t, j)].id : j \in 0 .. (k - 1) })
         /\ Cardinality({ slot[At(t, j)].id : j \in 0 .. (k - 1) }) <= k
<1> DEFINE walked == { slot[At(t, j)].id : j \in 0 .. (k - 1) }
           f == [j \in 0 .. (k - 1) |-> slot[At(t, j)].id]
<1>1. f \in Surjection(0 .. (k - 1), walked)
  BY DEF Surjection
<1>2. IsFiniteSet(0 .. (k - 1)) /\ Cardinality(0 .. (k - 1)) = k
  <2>1. k - 1 \in Int /\ 0 \in Int
    OBVIOUS
  <2>2. IsFiniteSet(0 .. (k - 1))
        /\ Cardinality(0 .. (k - 1)) = IF 0 > k - 1 THEN 0 ELSE (k - 1) - 0 + 1
    BY <2>1, FS_Interval
  <2> QED
    BY <2>2
<1> HIDE DEF f, walked
<1>3. IsFiniteSet(walked) /\ Cardinality(walked) <= Cardinality(0 .. (k - 1))
  BY <1>1, <1>2, FS_Surjection
<1> QED
  BY <1>2, <1>3 DEF walked

\* What leaves the promise in a call is confined to readings the call counts.
LossAllowed ==
  (Mounted /\ power' = "up" /\ committed' # NoHeader) =>
    Cardinality((kept \ kept') \ (IF Readable /\ hdr' = Advanced(hdr, 1)
                                    THEN {Front} ELSE {}))
      <= evicted' - evicted

\* A step that keeps every promise, or gives up only counted readings.
LEMMA ConfinedStep ==
  ASSUME NEW given, IsFiniteSet(given), evicted \in Nat, evicted' \in Nat,
         Cardinality(given) <= evicted' - evicted, kept \ kept' \subseteq given
  PROVE  LossAllowed
<1> DEFINE popped == IF Readable /\ hdr' = Advanced(hdr, 1) THEN {Front} ELSE {}
<1>1. kept \ kept' \subseteq given \cup popped /\ evicted' - evicted \in Int
  OBVIOUS
<1> HIDE DEF popped
<1>2. Cardinality((kept \ kept') \ popped) <= evicted' - evicted
  BY <1>1, ConfinedLoss
<1> QED
  BY <1>2 DEF LossAllowed, popped

LEMMA StepLoss ==
  ASSUME Inv, [Next]_vars
  PROVE  LossAllowed
<1> SUFFICES ASSUME Mounted, power' = "up", committed' # NoHeader
             PROVE  LossAllowed
  BY DEF LossAllowed
<1>1. evicted \in Nat /\ evicted' \in Nat
  BY StepInv DEF Inv, TypeOK
<1>2. IsFiniteSet({}) /\ Cardinality({}) = 0
  BY FS_EmptySet
<1>3. ASSUME evicted' = evicted, kept \subseteq kept' PROVE LossAllowed
  <2>1. kept \ kept' \subseteq {} /\ Cardinality({}) <= evicted' - evicted
    BY <1>1, <1>2, <1>3
  <2> QED
    BY <1>1, <1>2, <2>1, ConfinedStep
<1>4. CASE Begin
  BY <1>4 DEF Begin, MountFails, BeginExisting, Reformat, BeginCreated, CreateFails, Mounted
<1>5. CASE PushUnmounted
  BY <1>5 DEF PushUnmounted, Mounted
<1>6. CASE PushSlotFails
  BY <1>3, <1>6 DEF PushSlotFails
<1>7. CASE PushPersisted \/ PushHeaderFails \/ PushDeferred
  <2>1. /\ PushMoves /\ pushed < MaxPushes
        /\ slot' = Written(hdr.head, pushed + 1) /\ hdr' = Appended(hdr)
        /\ evicted' = IF Full(hdr) THEN evicted + 1 ELSE evicted
    BY <1>7 DEF PushPersisted, PushHeaderFails, PushDeferred, PushMoves
  <2>2. kept' = Held(slot', hdr') \/ kept' = kept \ Victim
    BY <1>7 DEF PushPersisted, PushHeaderFails, PushDeferred, CommitOk, CommitFailed
  <2>3. kept \ Victim \subseteq Held(slot', hdr')
    BY <2>1, FreshSlot
  <2>4. kept \ kept' \subseteq Victim
    BY <2>2, <2>3
  <2>5. Cardinality(Victim) <= evicted' - evicted
    BY <1>1, <2>1, VictimSize, FS_CardinalityType
  <2> QED
    BY <1>1, <2>4, <2>5, VictimSize, ConfinedStep
<1>8. CASE Peek
  <2>1. PICK k \in 1 .. Capacity : k <= hdr.count /\ SkipBad(k)
    BY <1>8 DEF Peek
  <2> DEFINE walked == { slot[At(hdr.tail, j)].id : j \in 0 .. (k - 1) }
  <2>2. k \in Nat /\ k \in 0 .. hdr.count
    BY <2>1, CapacityAssumption DEF Inv, TypeOK, Header
  <2>3. IsFiniteSet(walked) /\ Cardinality(walked) <= k
    BY <2>2, WalkedSize
  <2>4. kept \ walked \subseteq Held(slot, Advanced(hdr, k))
    BY <2>2, SkippedSlots
  <2>5. kept' = Held(slot, Advanced(hdr, k)) \/ kept' = kept \ walked
    BY <2>1 DEF SkipBad, CommitOk, CommitFailed
  <2>6. evicted' = evicted + k
    BY <2>1 DEF SkipBad
  <2> HIDE DEF walked
  <2>7. kept \ kept' \subseteq walked
    BY <2>4, <2>5
  <2>8. Cardinality(walked) <= evicted' - evicted
    BY <1>1, <2>2, <2>3, <2>6, FS_CardinalityType
  <2> QED
    BY <1>1, <2>3, <2>7, <2>8, ConfinedStep
<1>9. CASE Pop
  <2>1. /\ Readable /\ hdr' = Advanced(hdr, 1) /\ evicted' = evicted
        /\ (kept \ kept') \ {Front} = {}
    BY <1>9 DEF Pop
  <2> QED
    BY <1>1, <1>2, <2>1 DEF LossAllowed
<1>10. CASE Flush
  <2>1. kept \subseteq Held(slot, hdr)
    BY DEF Inv, Durable
  <2> QED
    BY <1>3, <1>10, <2>1 DEF Flush, CommitOk, CommitFailed
<1>11. CASE PowerCut
  BY <1>11 DEF PowerCut, Cut, CutInPush, CutInHeader, PowerLost
<1>12. CASE UNCHANGED vars
  BY <1>3, <1>12 DEF vars
<1> QED
  BY <1>4, <1>5, <1>6, <1>7, <1>8, <1>9, <1>10, <1>11, <1>12 DEF Next, Push

\* While the node runs, a promised reading leaves the ring only by the pop of
\* the record peeked or counted as evicted (store.cpp:197-199, store.h:35), for
\* every capacity: a walk over k bad slots that drops k readings counts k.
THEOREM NoSilentLoss == Spec => LossIsCounted
<1>1. Inv /\ [Next]_vars => LossAllowed
  BY StepLoss
<1>2. LossAllowed => [(Mounted /\ power' = "up" /\ committed' # NoHeader) =>
        Cardinality((kept \ kept') \ (IF Readable /\ hdr' = Advanced(hdr, 1)
                                        THEN {Front} ELSE {}))
          <= evicted' - evicted ]_vars
  BY DEF LossAllowed
<1> QED
  BY <1>1, <1>2, Invariance, PTL DEF Spec, LossIsCounted

-----------------------------------------------------------------------------
(* The ring is the queue that store.h promises: the slots of a header, read *)
(* in order, before and after one flash write.                              *)

Entries == [id : Ids, ok : BOOLEAN]

Ord(s, h) == [k \in 1 .. h.count |-> s[At(h.tail, k - 1)]]

\* The header once the oldest has made room for one more.
Room(h) == IF Full(h) THEN Advanced(h, 1) ELSE h

LEMMA OrdSeq ==
  ASSUME NEW s \in [Slots -> Entries], NEW h \in Header
  PROVE  /\ h.count \in Nat /\ h.count <= Capacity /\ h.tail \in Slots
         /\ \A k \in 1 .. h.count : At(h.tail, k - 1) \in Slots
         /\ Ord(s, h) \in Seq(Entries) /\ Len(Ord(s, h)) = h.count
         /\ DOMAIN Ord(s, h) = 1 .. h.count
         /\ \A k \in 1 .. h.count : Ord(s, h)[k] = s[At(h.tail, k - 1)]
<1>1. h.count \in Nat /\ h.count <= Capacity /\ h.tail \in Slots
  BY CapacityAssumption DEF Header
<1>2. \A k \in 1 .. h.count : At(h.tail, k - 1) \in Slots
  <2> TAKE k \in 1 .. h.count
  <2>1. k - 1 \in 0 .. Capacity
    BY <1>1, CapacityAssumption
  <2> QED
    BY <1>1, <2>1, AtInSlots
<1> DEFINE F(k) == s[At(h.tail, k - 1)]
<1>3. \A k \in 1 .. h.count : F(k) \in Entries
  BY <1>2
<1>4. Ord(s, h) = [k \in 1 .. h.count |-> F(k)]
  BY DEF Ord
<1> HIDE DEF F
<1>5. [k \in 1 .. h.count |-> F(k)] \in Seq(Entries)
  BY <1>1, <1>3
<1>6. Ord(s, h) \in Seq(Entries) /\ DOMAIN Ord(s, h) = 1 .. h.count
  BY <1>4, <1>5
<1>7. Len(Ord(s, h)) = h.count
  BY <1>1, <1>6
<1>8. \A k \in 1 .. h.count : Ord(s, h)[k] = s[At(h.tail, k - 1)]
  BY DEF Ord
<1> QED
  BY <1>1, <1>2, <1>6, <1>7, <1>8

\* Two readings in order that agree everywhere are one.
LEMMA SameOrd ==
  ASSUME NEW u \in Seq(Entries), NEW v \in Seq(Entries), Len(u) = Len(v),
         \A k \in 1 .. Len(u) : u[k] = v[k]
  PROVE  u = v
<1>1. DOMAIN u = 1 .. Len(u) /\ DOMAIN v = 1 .. Len(u)
  OBVIOUS
<1> QED
  BY <1>1

\* Walking past k slots drops the first k.
LEMMA DropOrd ==
  ASSUME NEW s \in [Slots -> Entries], NEW h \in Header, Consistent(h),
         NEW k \in 0 .. h.count
  PROVE  SubSeq(Ord(s, h), k + 1, h.count) = Ord(s, Advanced(h, k))
<1>0. k \in Nat /\ k <= h.count /\ h.count \in Nat /\ h.count <= Capacity
      /\ h.tail \in Slots
  BY OrdSeq
<1>1. /\ Advanced(h, k) \in Header /\ Advanced(h, k).tail = At(h.tail, k)
      /\ Advanced(h, k).count = h.count - k
  BY AdvancedHeader DEF Advanced
<1>2. /\ Ord(s, h) \in Seq(Entries) /\ Len(Ord(s, h)) = h.count
      /\ \A m \in 1 .. h.count : Ord(s, h)[m] = s[At(h.tail, m - 1)]
  BY OrdSeq
<1>3. /\ Ord(s, Advanced(h, k)) \in Seq(Entries)
      /\ Len(Ord(s, Advanced(h, k))) = h.count - k
      /\ \A m \in 1 .. h.count - k :
           Ord(s, Advanced(h, k))[m] = s[At(At(h.tail, k), m - 1)]
  BY <1>1, OrdSeq
<1> DEFINE u == Ord(s, h)
           v == Ord(s, Advanced(h, k))
           w == SubSeq(u, k + 1, h.count)
<1> HIDE DEF u, v
<1>4. /\ w \in Seq(Entries) /\ Len(w) = h.count - k
      /\ \A m \in 1 .. h.count - k : w[m] = u[m + k]
  <2>1. u \in Seq(Entries) /\ Len(u) = h.count
    BY <1>2 DEF u
  <2> QED
    BY <1>0, <2>1
<1>5. ASSUME NEW m \in 1 .. h.count - k PROVE w[m] = v[m]
  <2>0. m \in Nat /\ m >= 1 /\ m + k <= h.count
    BY <1>0
  <2>1. m + k \in 1 .. h.count /\ (m + k) - 1 = k + (m - 1) /\ m - 1 \in Nat
        /\ k + (m - 1) <= Capacity
    BY <1>0, <2>0, CapacityAssumption
  <2>2. At(At(h.tail, k), m - 1) = At(h.tail, (m + k) - 1)
    BY <1>0, <2>1, AtSum
  <2>3. w[m] = s[At(h.tail, (m + k) - 1)]
    BY <1>2, <1>4, <2>1 DEF u
  <2> QED
    BY <1>3, <2>2, <2>3 DEF v
<1>6. v \in Seq(Entries) /\ Len(v) = h.count - k
  BY <1>3 DEF v
<1> HIDE DEF w
<1>7. w = v
  BY <1>4, <1>5, <1>6, SameOrd
<1> QED
  BY <1>7 DEF u, v, w

\* Making room takes the first when the ring is full; the head slot is then the
\* first slot after the ones still queued, and none of them.
LEMMA RoomOrd ==
  ASSUME NEW s \in [Slots -> Entries], NEW h \in Header, Consistent(h)
  PROVE  /\ Room(h) \in Header /\ Room(h).count \in 0 .. (Capacity - 1)
         /\ h.head = At(Room(h).tail, Room(h).count)
         /\ \A k \in 1 .. Room(h).count : At(Room(h).tail, k - 1) # h.head
         /\ Contract!Roomy(Ord(s, h)) = Ord(s, Room(h))
<1>0. h.count \in Nat /\ h.count <= Capacity /\ h.tail \in Slots
      /\ Len(Ord(s, h)) = h.count /\ Ord(s, h) \in Seq(Entries)
  BY OrdSeq
<1>1. Full(h) => 1 \in 0 .. h.count
  BY CapacityAssumption DEF Full
<1>2. Room(h) \in Header /\ Consistent(Room(h)) /\ Room(h).head = h.head
  <2>1. CASE Full(h)
    BY <1>1, <2>1, AdvancedHeader DEF Room, Advanced
  <2>2. CASE ~ Full(h)
    BY <2>2 DEF Room
  <2> QED
    BY <2>1, <2>2
<1>3. Room(h).count \in 0 .. (Capacity - 1)
  BY <1>0, CapacityAssumption DEF Room, Full, Advanced
<1>4. h.head = At(Room(h).tail, Room(h).count) /\ Room(h).tail \in Slots
  BY <1>2 DEF Consistent, Header
<1>5. ASSUME NEW k \in 1 .. Room(h).count, At(Room(h).tail, k - 1) = h.head
      PROVE  FALSE
  <2>1. k - 1 \in 0 .. (Capacity - 1) /\ k - 1 # Room(h).count
    BY <1>3, CapacityAssumption
  <2> QED
    BY <1>3, <1>4, <1>5, <2>1, AtInjective
<1>6. Contract!Roomy(Ord(s, h)) = Ord(s, Room(h))
  <2>1. CASE Full(h)
    <3>1. SubSeq(Ord(s, h), 1 + 1, h.count) = Ord(s, Advanced(h, 1))
      BY <1>1, <2>1, DropOrd
    <3> DEFINE u == Ord(s, h)
    <3>2. u \in Seq(Entries) /\ Len(u) = h.count
      BY <1>0
    <3> HIDE DEF u
    <3>3. Tail(u) = SubSeq(u, 1 + 1, h.count)
      BY <1>0, <2>1, <3>2, CapacityAssumption DEF Full
    <3>4. Tail(Ord(s, h)) = Ord(s, Advanced(h, 1))
      BY <3>1, <3>3, Zenon DEF u
    <3>5. Contract!Roomy(u) = Tail(u) /\ Room(h) = Advanced(h, 1)
      BY <2>1, <3>2 DEF Contract!Roomy, Room, Full
    <3> QED
      BY <3>4, <3>5 DEF u
  <2>2. CASE ~ Full(h)
    BY <1>0, <2>2 DEF Contract!Roomy, Room, Full
  <2> QED
    BY <2>1, <2>2
<1> QED
  BY <1>2, <1>3, <1>4, <1>5, <1>6

\* One slot is written: at most one place in the order of a header changes.
LEMMA OverwriteOrd ==
  ASSUME NEW s \in [Slots -> Entries], NEW t \in [Slots -> Entries],
         NEW i \in Slots, \A x \in Slots : x # i => t[x] = s[x], NEW h \in Header
  PROVE  \/ Ord(t, h) = Ord(s, h) /\ \A j \in 1 .. h.count : At(h.tail, j - 1) # i
         \/ \E j \in 1 .. h.count :
              /\ At(h.tail, j - 1) = i
              /\ Ord(t, h) = [Ord(s, h) EXCEPT ![j] = t[i]]
<1>1. h.count \in Nat /\ h.count <= Capacity /\ h.tail \in Slots
      /\ \A k \in 1 .. h.count : At(h.tail, k - 1) \in Slots
  BY OrdSeq
<1>2. CASE \A j \in 1 .. h.count : At(h.tail, j - 1) # i
  <2>1. \A k \in 1 .. h.count : t[At(h.tail, k - 1)] = s[At(h.tail, k - 1)]
    BY <1>1, <1>2
  <2> QED
    BY <1>2, <2>1 DEF Ord
<1>3. ASSUME NEW j \in 1 .. h.count, At(h.tail, j - 1) = i
      PROVE  Ord(t, h) = [Ord(s, h) EXCEPT ![j] = t[i]]
  <2>1. ASSUME NEW k \in 1 .. h.count, k # j PROVE At(h.tail, k - 1) # i
    <3>1. k - 1 \in 0 .. (Capacity - 1) /\ j - 1 \in 0 .. (Capacity - 1) /\ k - 1 # j - 1
      BY <1>1, <2>1, CapacityAssumption
    <3> QED
      BY <1>1, <1>3, <3>1, AtInjective
  <2>2. \A k \in 1 .. h.count :
          t[At(h.tail, k - 1)] = IF k = j THEN t[i] ELSE s[At(h.tail, k - 1)]
    BY <1>1, <1>3, <2>1
  <2> QED
    BY <2>2 DEF Ord
<1> QED
  BY <1>2, <1>3

-----------------------------------------------------------------------------
(* Every call of the ring is a step of the queue, or none.                  *)

\* What the node will drain, and what it would drain after a power cut.
Draining == IF Mounted THEN InOrder(hdr) ELSE <<>>
Survives == IF committed = NoHeader THEN <<>> ELSE InOrder(committed)

\* Two slots that hold the same reading, and one was written, are one.
LEMMA SameSlot ==
  ASSUME Inv, NEW i \in Slots, NEW j \in Slots, slot[i] = slot[j], slot[i].id # 0
  PROVE  i = j
BY DEF Inv, Distinct

\* The write of a push replaces at most one entry of the image, and not one
\* that stays queued.
LEMMA ImageReplaced ==
  ASSUME Inv, Mounted, slot' \in [Slots -> Entries], committed' = committed,
         \A x \in Slots : x # hdr.head => slot'[x] = slot[x]
  PROVE  \/ Survives' = Survives
         \/ \E j \in DOMAIN Survives :
              /\ Survives[j] \notin Contract!Elements(Contract!Roomy(Draining))
              /\ Survives[j] = slot[hdr.head]
              /\ Survives' = [Survives EXCEPT ![j] = slot'[hdr.head]]
<1>1. CASE committed = NoHeader
  BY <1>1 DEF Survives
<1>2. CASE committed # NoHeader
  <2>1. /\ slot \in [Slots -> Entries] /\ hdr \in Header /\ Consistent(hdr)
        /\ committed \in Header /\ 0 \notin Held(slot, committed) /\ hdr.head \in Slots
    BY <1>2 DEF Inv, TypeOK, HeadersConsistent, NoBlankQueued, Header, Entries
  <2>2. Survives = Ord(slot, committed) /\ Survives' = Ord(slot', committed)
        /\ Draining = Ord(slot, hdr)
    BY <1>2 DEF Survives, Draining, InOrder, Ord
  <2>3. CASE Ord(slot', committed) = Ord(slot, committed)
    BY <2>2, <2>3
  <2>4. ASSUME NEW j \in 1 .. committed.count, At(committed.tail, j - 1) = hdr.head,
               Ord(slot', committed) = [Ord(slot, committed) EXCEPT ![j] = slot'[hdr.head]]
        PROVE  /\ j \in DOMAIN Survives
               /\ Survives[j] \notin Contract!Elements(Contract!Roomy(Draining))
               /\ Survives[j] = slot[hdr.head]
    <3>1. /\ DOMAIN Ord(slot, committed) = 1 .. committed.count
          /\ Ord(slot, committed)[j] = slot[hdr.head] /\ committed.count \in Nat
      BY <2>1, <2>4, OrdSeq
    <3>2. slot[hdr.head].id # 0
      <4>1. j - 1 \in 0 .. (committed.count - 1)
        BY <3>1
      <4> QED
        BY <2>1, <2>4, <4>1, HeldAt
    <3>3. /\ Contract!Roomy(Ord(slot, hdr)) = Ord(slot, Room(hdr)) /\ Room(hdr) \in Header
          /\ \A k \in 1 .. Room(hdr).count : At(Room(hdr).tail, k - 1) # hdr.head
      BY <2>1, RoomOrd
    <3>4. /\ DOMAIN Ord(slot, Room(hdr)) = 1 .. Room(hdr).count
          /\ \A k \in 1 .. Room(hdr).count :
               /\ At(Room(hdr).tail, k - 1) \in Slots
               /\ Ord(slot, Room(hdr))[k] = slot[At(Room(hdr).tail, k - 1)]
      BY <2>1, <3>3, OrdSeq
    <3>5. \A k \in 1 .. Room(hdr).count : Ord(slot, Room(hdr))[k] # slot[hdr.head]
      BY <2>1, <3>2, <3>3, <3>4, SameSlot
    <3>6. slot[hdr.head] \notin Contract!Elements(Ord(slot, Room(hdr)))
      BY <3>4, <3>5 DEF Contract!Elements
    <3> QED
      BY <2>2, <3>1, <3>3, <3>6
  <2> QED
    BY <2>1, <2>2, <2>3, <2>4, OverwriteOrd
<1> QED
  BY <1>1, <1>2

\* A torn slot is a damaged entry of the image.
LEMMA TornImage ==
  ASSUME Inv, Mounted, slot' \in {slot, Torn(hdr.head)}, committed' = committed
  PROVE  Contract!ReplacedBy(Contract!Damaged)
<1>1. /\ slot \in [Slots -> Entries] /\ slot' \in [Slots -> Entries] /\ hdr.head \in Slots
  BY TornInv DEF Inv, TypeOK, Entries, Header
<1>2. CASE slot' = slot
  BY <1>2 DEF Contract!ReplacedBy, InOrder
<1>3. CASE slot' = Torn(hdr.head)
  <2>1. /\ \A x \in Slots : x # hdr.head => slot'[x] = slot[x]
        /\ slot'[hdr.head] = Contract!Damaged(slot[hdr.head])
    BY <1>1, <1>3 DEF Torn, Contract!Damaged
  <2>2. \/ Survives' = Survives
        \/ \E j \in DOMAIN Survives :
             /\ Survives[j] \notin Contract!Elements(Contract!Roomy(Draining))
             /\ Survives' = [Survives EXCEPT ![j] = Contract!Damaged(Survives[j])]
    BY <1>1, <2>1, ImageReplaced
  <2> QED
    BY <2>2 DEF Contract!ReplacedBy, InOrder, Ord, Survives, Draining
<1> QED
  BY <1>2, <1>3

\* A written slot is the new entry, in the image as in the queue.
LEMMA WrittenImage ==
  ASSUME Inv, Mounted, pushed < MaxPushes, slot' = Written(hdr.head, pushed + 1),
         committed' = committed, NEW e, e = [id |-> pushed + 1, ok |-> TRUE]
  PROVE  \/ Survives' = Survives
         \/ \E j \in DOMAIN Survives :
              /\ Survives[j] \notin Contract!Elements(Contract!Roomy(Draining))
              /\ Survives' = [Survives EXCEPT ![j] = e]
<1>1. /\ slot' \in [Slots -> Entries] /\ hdr.head \in Slots /\ slot \in [Slots -> Entries]
      /\ hdr \in Header
  BY FreshSlot DEF Entries, Inv, TypeOK, Header
<1>2. /\ \A x \in Slots : x # hdr.head => slot'[x] = slot[x]
      /\ slot'[hdr.head] = e
  BY <1>1 DEF Written
<1> QED
  BY <1>1, <1>2, ImageReplaced

\* The queue after a push that wrote its slot.
LEMMA PushedQueue ==
  ASSUME Inv, PushMoves, NEW e, e = [id |-> pushed + 1, ok |-> TRUE]
  PROVE  /\ Draining' = Append(Contract!Roomy(Draining), e)
         /\ e \in [id : 1 .. MaxPushes, ok : {TRUE}]
<1>1. /\ Mounted /\ Mounted' /\ pushed < MaxPushes
      /\ slot' = Written(hdr.head, pushed + 1) /\ hdr' = Appended(hdr)
  BY DEF PushMoves, Mounted
<1>2. /\ slot \in [Slots -> Entries] /\ slot' \in [Slots -> Entries] /\ hdr \in Header
      /\ Consistent(hdr) /\ hdr' \in Header /\ hdr.head \in Slots
  <2>1. hdr \in Header /\ Consistent(hdr) /\ slot \in [Slots -> Entries]
    BY <1>1 DEF Inv, TypeOK, HeadersConsistent, Entries
  <2>2. slot' \in [Slots -> Entries]
    BY <1>1, FreshSlot DEF Entries
  <2> QED
    BY <1>1, <2>1, <2>2, AppendedHeader DEF Header
<1>3. /\ Room(hdr) \in Header /\ Room(hdr).count \in 0 .. (Capacity - 1)
      /\ hdr.head = At(Room(hdr).tail, Room(hdr).count)
      /\ \A k \in 1 .. Room(hdr).count : At(Room(hdr).tail, k - 1) # hdr.head
      /\ Contract!Roomy(Ord(slot, hdr)) = Ord(slot, Room(hdr))
  BY <1>2, RoomOrd
<1>4. hdr'.tail = Room(hdr).tail /\ hdr'.count = Room(hdr).count + 1
  <2>1. CASE Full(hdr)
    BY <1>1, <2>1, CapacityAssumption DEF Appended, Room, Advanced, Full
  <2>2. CASE ~ Full(hdr)
    BY <1>1, <2>2 DEF Appended, Room
  <2> QED
    BY <2>1, <2>2
<1>5. e \in Entries /\ e \in [id : 1 .. MaxPushes, ok : {TRUE}]
  BY <1>1, NextReading DEF Entries
<1> DEFINE q == Ord(slot, Room(hdr))
           r == Ord(slot', hdr')
           c == Room(hdr).count
           w == Append(q, e)
<1>6. /\ q \in Seq(Entries) /\ Len(q) = c /\ c \in Nat
      /\ \A k \in 1 .. c : /\ q[k] = slot[At(Room(hdr).tail, k - 1)]
                           /\ At(Room(hdr).tail, k - 1) \in Slots
  BY <1>2, <1>3, OrdSeq
<1>7. /\ r \in Seq(Entries) /\ Len(r) = c + 1
      /\ \A k \in 1 .. c + 1 : r[k] = slot'[At(Room(hdr).tail, k - 1)]
  BY <1>2, <1>4, OrdSeq
<1> HIDE DEF q, r, c
<1>8. /\ w \in Seq(Entries) /\ Len(w) = c + 1 /\ w[c + 1] = e
      /\ \A k \in 1 .. c : w[k] = q[k]
  BY <1>5, <1>6
<1> HIDE DEF w
<1>9. ASSUME NEW k \in 1 .. c + 1 PROVE r[k] = w[k]
  <2>1. CASE k = c + 1
    <3>1. r[k] = slot'[hdr.head]
      <4>1. k - 1 = c
        BY <1>6, <2>1
      <4> QED
        BY <1>3, <1>7, <4>1 DEF c
    <3>2. slot'[hdr.head] = e
      BY <1>1, <1>2 DEF Written
    <3> QED
      BY <1>8, <2>1, <3>1, <3>2
  <2>2. CASE k # c + 1
    <3>1. k \in 1 .. c
      BY <1>6, <2>2
    <3>2. At(Room(hdr).tail, k - 1) # hdr.head /\ At(Room(hdr).tail, k - 1) \in Slots
      BY <1>3, <1>6, <3>1 DEF c
    <3>3. slot'[At(Room(hdr).tail, k - 1)] = slot[At(Room(hdr).tail, k - 1)]
      BY <1>1, <1>2, <3>2 DEF Written
    <3> QED
      BY <1>6, <1>7, <1>8, <3>1, <3>3
  <2> QED
    BY <2>1, <2>2
<1>10. r = w
  BY <1>6, <1>7, <1>8, <1>9, SameOrd
<1>11. Draining = Ord(slot, hdr) /\ Draining' = r
  BY <1>1 DEF Draining, r, InOrder, Ord
<1> QED
  BY <1>3, <1>5, <1>10, <1>11 DEF w, q

\* The order of an empty header is the empty queue.
LEMMA EmptyOrd ==
  ASSUME NEW s
  PROVE  Ord(s, Empty) = <<>>
BY DEF Ord, Empty

LEMMA Stutters ==
  ASSUME power' = power \/ (power # "up" /\ power' # "up"),
         Draining' = Draining, Survives' = Survives
  PROVE  UNCHANGED Contract!vars
<1>1. Mounted' = Mounted
  BY DEF Mounted
<1> QED
  BY <1>1 DEF Contract!vars, Draining, Survives, InOrder, Ord

\* begin() starts the queue from its image; a refused mount changes neither.
LEMMA BeginMaps ==
  ASSUME Inv, Begin
  PROVE  [Contract!Next]_(Contract!vars)
<1>1. CASE MountFails
  <2>1. power # "up" /\ power' # "up" /\ UNCHANGED <<slot, committed>>
    BY <1>1 DEF MountFails, flash
  <2>2. Draining' = Draining /\ Survives' = Survives
    BY <2>1 DEF Draining, Survives, Mounted, InOrder, Ord
  <2> QED
    BY <2>1, <2>2, Stutters
<1>2. CASE BeginExisting
  <2>1. /\ ~ Mounted /\ Mounted' /\ hdr' = committed /\ committed # NoHeader
        /\ UNCHANGED <<slot, committed>>
    BY <1>2 DEF BeginExisting, Mounted, flash
  <2>2. Contract!Restart
    BY <2>1 DEF Contract!Restart, InOrder
  <2> QED
    BY <2>2 DEF Contract!Next
<1>3. CASE Reformat
  <2>1. ~ Mounted /\ power' = power /\ FsMayTear /\ committed' = NoHeader
    BY <1>3 DEF Reformat, Mounted
  <2>2. Contract!LoseImage
    BY <2>1 DEF Contract!LoseImage
  <2>3. Mounted' = Mounted
    BY <2>1 DEF Mounted
  <2>4. Contract!Wiped
    BY <2>1, <2>2, <2>3 DEF Contract!Wiped
  <2> QED
    BY <2>4 DEF Contract!Next
<1>4. CASE BeginCreated
  <2>1. /\ ~ Mounted /\ Mounted' /\ hdr' = Empty /\ committed = NoHeader
        /\ committed' = Empty
    BY <1>4 DEF BeginCreated, Mounted
  <2>2. Draining' = <<>> /\ Survives' = <<>> /\ Survives = <<>>
    BY <2>1, EmptyOrd, EmptyHeader DEF Draining, Survives, InOrder, Ord
  <2>3. Contract!Restart
    BY <2>1, <2>2 DEF Contract!Restart, InOrder, Ord, Draining, Survives
  <2> QED
    BY <2>3 DEF Contract!Next
<1>5. CASE CreateFails
  <2>1. power # "up" /\ power' # "up" /\ committed = NoHeader /\ committed' = committed
    BY <1>5 DEF CreateFails
  <2>2. Draining' = Draining /\ Survives' = Survives
    BY <2>1 DEF Draining, Survives, Mounted
  <2> QED
    BY <2>1, <2>2, Stutters
<1> QED
  BY <1>1, <1>2, <1>3, <1>4, <1>5 DEF Begin

\* A failed write damages the oldest entry of a full queue, and no other.
LEMMA FailedQueue ==
  ASSUME Inv, Mounted, hdr' = hdr, power' = power, slot' \in {slot, Torn(hdr.head)}
  PROVE  \/ Draining' = Draining
         \/ /\ Len(Draining) = Capacity
            /\ Draining' = <<Contract!Damaged(Head(Draining))>> \o Tail(Draining)
<1>1. /\ slot \in [Slots -> Entries] /\ slot' \in [Slots -> Entries] /\ hdr.head \in Slots
      /\ hdr \in Header /\ Consistent(hdr)
  BY TornInv DEF Inv, TypeOK, Entries, Header, HeadersConsistent
<1>2. Draining = Ord(slot, hdr) /\ Draining' = Ord(slot', hdr)
  BY DEF Draining, Mounted, InOrder, Ord
<1>3. CASE slot' = slot
  BY <1>2, <1>3
<1>4. CASE slot' = Torn(hdr.head)
  <2>1. /\ \A x \in Slots : x # hdr.head => slot'[x] = slot[x]
        /\ slot'[hdr.head] = Contract!Damaged(slot[hdr.head])
    BY <1>1, <1>4 DEF Torn, Contract!Damaged
  <2>2. CASE Ord(slot', hdr) = Ord(slot, hdr)
    BY <1>2, <2>2
  <2>3. ASSUME NEW j \in 1 .. hdr.count, At(hdr.tail, j - 1) = hdr.head,
               Ord(slot', hdr) = [Ord(slot, hdr) EXCEPT ![j] = slot'[hdr.head]]
        PROVE  /\ Len(Draining) = Capacity
               /\ Draining' = <<Contract!Damaged(Head(Draining))>> \o Tail(Draining)
    <3>1. /\ hdr.count \in Nat /\ hdr.count <= Capacity /\ hdr.tail \in Slots
          /\ Ord(slot, hdr) \in Seq(Entries) /\ Len(Ord(slot, hdr)) = hdr.count
          /\ Ord(slot, hdr)[j] = slot[hdr.head]
      BY <1>1, <2>3, OrdSeq
    <3>2. hdr.head = At(hdr.tail, hdr.count)
      BY <1>1 DEF Consistent
    <3>3. hdr.count = Capacity /\ j = 1
      <4>1. CASE hdr.count # Capacity
        <5>1. hdr.count \in 0 .. (Capacity - 1) /\ j - 1 \in 0 .. (Capacity - 1)
              /\ j - 1 # hdr.count
          BY <3>1, <4>1, CapacityAssumption
        <5> QED
          BY <2>3, <3>1, <3>2, <5>1, AtInjective
      <4>2. CASE hdr.count = Capacity
        <5>1. At(hdr.tail, Capacity) = At(hdr.tail, 0)
          BY <3>1, CapacityAssumption DEF At, Slots
        <5>2. 0 \in 0 .. (Capacity - 1) /\ j - 1 \in 0 .. (Capacity - 1)
          BY <3>1, <4>2, CapacityAssumption
        <5>3. j - 1 = 0
          BY <2>3, <3>1, <3>2, <4>2, <5>1, <5>2, AtInjective
        <5> QED
          BY <3>1, <4>2, <5>3
      <4> QED
        BY <4>1, <4>2
    <3> DEFINE q == Ord(slot, hdr)
               e == Contract!Damaged(slot[hdr.head])
    <3>4. q \in Seq(Entries) /\ Len(q) = Capacity /\ q[1] = slot[hdr.head] /\ Capacity >= 1
          /\ Capacity \in Nat
      BY <3>1, <3>3, CapacityAssumption
    <3>5. e \in Entries
      BY <1>1, <2>1
    <3>6. Draining' = [q EXCEPT ![1] = e] /\ Draining = q
      BY <1>2, <2>1, <2>3, <3>3
    <3> HIDE DEF q, e
    <3> DEFINE u == [q EXCEPT ![1] = e]
               v == <<e>> \o Tail(q)
    <3>7. u \in Seq(Entries) /\ Len(u) = Capacity /\ u[1] = e
          /\ \A k \in 2 .. Capacity : u[k] = q[k]
      BY <3>4, <3>5
    <3>8. v \in Seq(Entries) /\ Len(v) = Capacity /\ v[1] = e
          /\ \A k \in 2 .. Capacity : v[k] = q[k]
      <4>1. Tail(q) \in Seq(Entries) /\ Len(Tail(q)) = Capacity - 1
            /\ \A k \in 2 .. Capacity : Tail(q)[k - 1] = q[k]
        BY <3>4
      <4>2. <<e>> \in Seq(Entries) /\ Len(<<e>>) = 1 /\ <<e>>[1] = e
        BY <3>5
      <4> QED
        BY <3>4, <4>1, <4>2
    <3> HIDE DEF u, v
    <3>9. u = v
      <4>1. \A k \in 1 .. Len(u) : u[k] = v[k]
        BY <3>4, <3>7, <3>8
      <4> QED
        BY <3>7, <3>8, <4>1, SameOrd
    <3>10. Head(q) = slot[hdr.head]
      BY <3>4
    <3> QED
      BY <3>4, <3>6, <3>9, <3>10 DEF u, v, e
  <2>4. \/ Ord(slot', hdr) = Ord(slot, hdr)
        \/ \E j \in 1 .. hdr.count :
             /\ At(hdr.tail, j - 1) = hdr.head
             /\ Ord(slot', hdr) = [Ord(slot, hdr) EXCEPT ![j] = slot'[hdr.head]]
    BY <1>1, <2>1, OverwriteOrd
  <2> QED
    BY <2>2, <2>3, <2>4
<1> QED
  BY <1>3, <1>4

\* push() puts, or fails to put, one entry.
LEMMA PushMaps ==
  ASSUME Inv, Push
  PROVE  [Contract!Next]_(Contract!vars)
<1>1. CASE PushUnmounted
  BY <1>1 DEF PushUnmounted, flash, Contract!vars, Mounted, InOrder
<1>2. CASE PushSlotFails
  <2>1. /\ Mounted /\ Mounted' /\ hdr' = hdr /\ power' = power /\ committed' = committed
        /\ slot' \in {slot, Torn(hdr.head)}
    BY <1>2 DEF PushSlotFails, Mounted
  <2>2. \/ Draining' = Draining
        \/ /\ Len(Draining) = Capacity
           /\ Draining' = <<Contract!Damaged(Head(Draining))>> \o Tail(Draining)
    BY <2>1, FailedQueue
  <2>3. Contract!ReplacedBy(Contract!Damaged)
    BY <2>1, TornImage
  <2>4. Contract!PutFails
    BY <2>1, <2>2, <2>3 DEF Contract!PutFails, Draining, InOrder, Ord
  <2> QED
    BY <2>4 DEF Contract!Next
<1>3. CASE PushPersisted \/ PushHeaderFails \/ PushDeferred
  <2> DEFINE e == [id |-> pushed + 1, ok |-> TRUE]
  <2>1. /\ PushMoves /\ Mounted /\ Mounted' /\ pushed < MaxPushes
        /\ slot' = Written(hdr.head, pushed + 1)
    BY <1>3 DEF PushPersisted, PushHeaderFails, PushDeferred, PushMoves, Mounted
  <2>2. Draining' = Append(Contract!Roomy(Draining), e) /\ e \in [id : 1 .. MaxPushes, ok : {TRUE}]
    BY <2>1, PushedQueue
  <2>3. \/ committed' = hdr' /\ committed' # NoHeader
        \/ committed' = committed
        \/ FsMayTear /\ committed' = NoHeader
    <3>1. hdr' \in Header
      BY <1>3, PushInv DEF Push, Inv, TypeOK
    <3> QED
      BY <1>3, <3>1, NoHeaderDiffers
         DEF PushPersisted, PushHeaderFails, PushDeferred, CommitOk, CommitFailed
  <2>4. \/ Survives' = Draining'
        \/ Survives' = Survives
        \/ \E j \in DOMAIN Survives :
             /\ Survives[j] \notin Contract!Elements(Contract!Roomy(Draining))
             /\ Survives' = [Survives EXCEPT ![j] = e]
        \/ FsMayTear /\ Survives' = <<>>
    <3>1. CASE committed' = hdr' /\ committed' # NoHeader
      BY <2>1, <3>1 DEF Survives, Draining, InOrder, Ord
    <3>2. CASE committed' = committed
      <4>1. e = [id |-> pushed + 1, ok |-> TRUE]
        OBVIOUS
      <4> HIDE DEF e
      <4> QED
        BY <2>1, <3>2, <4>1, WrittenImage
    <3>3. CASE FsMayTear /\ committed' = NoHeader
      BY <3>3 DEF Survives
    <3> QED
      BY <2>3, <3>1, <3>2, <3>3
  <2> HIDE DEF e
  <2>5. Contract!Put(e)
    BY <2>1, <2>2, <2>4 DEF Contract!Put, Contract!ReplacedBy, Contract!LoseImage,
       Draining, Survives, InOrder, Ord
  <2> QED
    BY <2>2, <2>5 DEF Contract!Next
<1> QED
  BY <1>1, <1>2, <1>3 DEF Push

\* peek() skips damaged entries, pop() takes the first, flush() commits.
LEMMA PeekMaps ==
  ASSUME Inv, Peek
  PROVE  [Contract!Next]_(Contract!vars)
<1>1. PICK k \in 1 .. Capacity : k <= hdr.count /\ SkipBad(k)
  BY DEF Peek
<1>2. /\ Mounted /\ Mounted' /\ slot' = slot /\ hdr' = Advanced(hdr, k)
      /\ \A j \in 0 .. (k - 1) : ~ slot[At(hdr.tail, j)].ok
  BY <1>1 DEF SkipBad, Mounted
<1>3. /\ slot \in [Slots -> Entries] /\ hdr \in Header /\ Consistent(hdr)
      /\ k \in 0 .. hdr.count /\ k \in 1 .. hdr.count /\ hdr' \in Header
  <2>1. /\ slot \in [Slots -> Entries] /\ hdr \in Header /\ Consistent(hdr)
    BY <1>2 DEF Inv, TypeOK, HeadersConsistent, Entries
  <2>2. k \in 0 .. hdr.count /\ k \in 1 .. hdr.count
    BY <1>1, <2>1, CapacityAssumption DEF Header
  <2> QED
    BY <1>2, <2>1, <2>2, AdvancedHeader
<1>4. /\ Draining = Ord(slot, hdr) /\ Draining' = Ord(slot, Advanced(hdr, k))
  BY <1>2 DEF Draining, InOrder, Ord
<1>5. /\ Len(Draining) = hdr.count
      /\ \A j \in 1 .. hdr.count : Draining[j] = slot[At(hdr.tail, j - 1)]
  BY <1>3, <1>4, OrdSeq
<1>6. Draining' = SubSeq(Draining, k + 1, Len(Draining))
  BY <1>3, <1>4, <1>5, DropOrd
<1>7. \A j \in 1 .. k : ~ Draining[j].ok
  <2> TAKE j \in 1 .. k
  <2>1. j \in 1 .. hdr.count /\ j - 1 \in 0 .. (k - 1)
    BY <1>1, <1>3, CapacityAssumption DEF Header
  <2> QED
    BY <1>2, <1>5, <2>1
<1>8. Survives' \in {Draining', Survives} \/ (FsMayTear /\ Survives' = <<>>)
  <2>1. \/ committed' = hdr' /\ committed' # NoHeader
        \/ committed' = committed
        \/ FsMayTear /\ committed' = NoHeader
    BY <1>1, <1>3, NoHeaderDiffers DEF SkipBad, CommitOk, CommitFailed
  <2>2. CASE committed' = hdr' /\ committed' # NoHeader
    BY <1>2, <2>2 DEF Survives, Draining, InOrder, Ord
  <2>3. CASE committed' = committed
    BY <1>2, <2>3 DEF Survives, InOrder, Ord
  <2>4. CASE FsMayTear /\ committed' = NoHeader
    BY <2>4 DEF Survives
  <2> QED
    BY <2>1, <2>2, <2>3, <2>4
<1>9. \E n \in 1 .. Len(Draining) :
        /\ \A j \in 1 .. n : ~ Draining[j].ok
        /\ Draining' = SubSeq(Draining, n + 1, Len(Draining))
  BY <1>3, <1>5, <1>6, <1>7
<1>10. Contract!Skip
  BY <1>2, <1>8, <1>9
     DEF Contract!Skip, Contract!LoseImage, Draining, Survives, InOrder, Ord
<1> QED
  BY <1>10 DEF Contract!Next

LEMMA PopMaps ==
  ASSUME Inv, Pop
  PROVE  [Contract!Next]_(Contract!vars)
<1>1. /\ Mounted /\ Mounted' /\ slot' = slot /\ committed' = committed
      /\ hdr' = Advanced(hdr, 1) /\ hdr.count > 0 /\ slot[hdr.tail].ok
  BY DEF Pop, Readable, Mounted, flash
<1>2. /\ slot \in [Slots -> Entries] /\ hdr \in Header /\ Consistent(hdr)
      /\ hdr.count \in Nat /\ 1 \in 0 .. hdr.count
  BY <1>1, CapacityAssumption DEF Inv, TypeOK, HeadersConsistent, Entries, Header
<1> DEFINE q == Ord(slot, hdr)
<1>3. /\ q \in Seq(Entries) /\ Len(q) = hdr.count /\ hdr.tail \in Slots
      /\ q[1] = slot[At(hdr.tail, 1 - 1)]
  BY <1>1, <1>2, OrdSeq
<1>4. SubSeq(q, 1 + 1, hdr.count) = Ord(slot, Advanced(hdr, 1))
  BY <1>2, DropOrd
<1> HIDE DEF q
<1>5. Tail(q) = SubSeq(q, 1 + 1, hdr.count) /\ q # <<>> /\ Head(q) = q[1]
  BY <1>1, <1>2, <1>3
<1>6. q[1] = slot[hdr.tail]
  <2>1. At(hdr.tail, 1 - 1) = hdr.tail
    BY <1>3, CapacityAssumption DEF At, Slots
  <2> QED
    BY <1>3, <2>1
<1>7. Draining = q /\ Draining' = Ord(slot, Advanced(hdr, 1)) /\ Survives' = Survives
  BY <1>1 DEF Draining, Survives, InOrder, Ord, q
<1>8. /\ Draining # <<>> /\ Head(Draining).ok
      /\ Draining' = Tail(Draining) /\ Survives' = Survives
  BY <1>1, <1>4, <1>5, <1>6, <1>7
<1>9. Contract!Take
  BY <1>1, <1>8 DEF Contract!Take, Draining, Survives, InOrder, Ord
<1> QED
  BY <1>9 DEF Contract!Next

LEMMA FlushMaps ==
  ASSUME Inv, Flush
  PROVE  [Contract!Next]_(Contract!vars)
<1>1. /\ Mounted /\ Mounted' /\ slot' = slot /\ hdr' = hdr /\ power' = power
      /\ hdr \in Header
  BY DEF Flush, Mounted, Inv, TypeOK
<1>2. Draining' = Draining
  BY <1>1 DEF Draining, InOrder, Ord
<1>3. CASE committed' = hdr
  <2>1. Survives' = Draining
    BY <1>1, <1>3, NoHeaderDiffers DEF Survives, Draining, InOrder, Ord
  <2>2. Contract!Commit
    BY <1>1, <1>2, <2>1 DEF Contract!Commit, Draining, Survives, InOrder, Ord
  <2> QED
    BY <2>2 DEF Contract!Next
<1>4. CASE committed' = committed
  <2>1. Survives' = Survives
    BY <1>1, <1>4 DEF Survives, InOrder, Ord
  <2> QED
    BY <1>1, <1>2, <2>1, Stutters
<1>5. CASE FsMayTear /\ committed' = NoHeader
  <2>1. Survives' = <<>>
    BY <1>5 DEF Survives
  <2>2. Contract!Commit
    BY <1>1, <1>2, <1>5, <2>1
       DEF Contract!Commit, Contract!LoseImage, Draining, Survives, InOrder, Ord
  <2> QED
    BY <2>2 DEF Contract!Next
<1> QED
  BY <1>3, <1>4, <1>5 DEF Flush, CommitOk, CommitFailed

\* A cut empties the queue and may damage or replace one entry of the image, or
\* lose it whole.
LEMMA PowerCutMaps ==
  ASSUME Inv, PowerCut
  PROVE  [Contract!Next]_(Contract!vars)
<1>1. CASE Cut
  <2>1. /\ power # "off" /\ power' = "off" /\ slot' = slot /\ committed' = committed
    BY <1>1 DEF Cut, PowerLost, flash
  <2>2. Survives' = Survives /\ Draining' = <<>>
    BY <2>1 DEF Survives, Draining, Mounted, InOrder, Ord
  <2>3. CASE Mounted
    <3>1. Mounted /\ ~ Mounted'
      BY <2>1, <2>3 DEF Mounted
    <3>2. Contract!ReplacedBy(Contract!Damaged)
      BY <2>1, <2>3, TornImage
    <3>3. Contract!PowerCut
      BY <2>2, <3>1, <3>2 DEF Contract!PowerCut, Draining
    <3> QED
      BY <3>3 DEF Contract!Next
  <2>4. CASE ~ Mounted
    <3>1. power # "up" /\ power' # "up" /\ Draining' = Draining
      BY <2>1, <2>2, <2>4 DEF Mounted, Draining
    <3> QED
      BY <2>2, <3>1, Stutters
  <2> QED
    BY <2>3, <2>4
<1>2. CASE CutInPush
  <2>1. /\ Mounted /\ ~ Mounted' /\ pushed < MaxPushes /\ committed' = committed
        /\ slot' = Torn(hdr.head) \/ slot' = Written(hdr.head, pushed + 1)
    BY <1>2 DEF CutInPush, PowerLost, Mounted
  <2>2. Draining' = <<>>
    BY <2>1 DEF Draining
  <2>3. CASE slot' = Torn(hdr.head)
    <3>1. Contract!ReplacedBy(Contract!Damaged)
      BY <2>1, <2>3, TornImage
    <3>2. Contract!PowerCut
      BY <2>1, <2>2, <3>1 DEF Contract!PowerCut, Draining
    <3> QED
      BY <3>2 DEF Contract!Next
  <2>4. CASE slot' = Written(hdr.head, pushed + 1)
    <3>1. PICK e \in [id : 1 .. MaxPushes, ok : {TRUE}] : e = [id |-> pushed + 1, ok |-> TRUE]
      BY <2>1, NextReading
    <3>2. \/ Survives' = Survives
          \/ \E j \in DOMAIN Survives :
               /\ Survives[j] \notin Contract!Elements(Contract!Roomy(Draining))
               /\ Survives' = [Survives EXCEPT ![j] = e]
      BY <2>1, <2>4, <3>1, WrittenImage
    <3>3. Mounted' = FALSE
      BY <2>1
    <3>4. \E f \in [id : 1 .. MaxPushes, ok : {TRUE}] :
            \/ Survives' = Survives
            \/ \E j \in DOMAIN Survives :
                 /\ Survives[j] \notin Contract!Elements(Contract!Roomy(Draining))
                 /\ Survives' = [Survives EXCEPT ![j] = f]
      BY <3>2
    <3>5. Contract!PowerCut
      BY <2>1, <2>2, <3>3, <3>4, Zenon
         DEF Contract!PowerCut, Contract!ReplacedBy, Draining, Survives
    <3> QED
      BY <3>5 DEF Contract!Next
  <2> QED
    BY <2>1, <2>3, <2>4
<1>3. CASE CutInHeader
  <2>1. Mounted /\ ~ Mounted' /\ FsMayTear /\ committed' = NoHeader
    BY <1>3 DEF CutInHeader, PowerLost, Mounted
  <2>2. Contract!PowerCut
    BY <2>1 DEF Contract!PowerCut, Contract!LoseImage
  <2> QED
    BY <2>2 DEF Contract!Next
<1> QED
  BY <1>1, <1>2, <1>3 DEF PowerCut

LEMMA StepMaps ==
  ASSUME Inv, [Next]_vars
  PROVE  [Contract!Next]_(Contract!vars)
<1>1. CASE UNCHANGED vars
  <2>1. power' = power /\ Draining' = Draining /\ Survives' = Survives
    BY <1>1 DEF vars, Draining, Survives, Mounted, InOrder, Ord
  <2> QED
    BY <2>1, Stutters
<1> QED
  BY <1>1, BeginMaps, PushMaps, PeekMaps, PopMaps, FlushMaps, PowerCutMaps DEF Next

\* The slots, the two headers and the files are the bounded queue that store.h
\* describes: every call is one step of it, a power cut leaves its image, and
\* what a commit, a failed write or a torn header may do to the image is what
\* the queue allows, for every capacity.
THEOREM ImplementsReadingQueue == Spec => ImplementsQueue
<1>1. Init => Contract!Init
  <2> SUFFICES ASSUME Init PROVE Contract!Init
    OBVIOUS
  <2>1. ~ Mounted /\ committed = NoHeader
    BY DEF Init, Mounted
  <2>2. Mounted = FALSE
    BY <2>1 DEF Mounted
  <2> QED
    BY <2>1, <2>2 DEF Contract!Init
<1>2. Inv /\ [Next]_vars => [Contract!Next]_(Contract!vars)
  BY StepMaps
<1> QED
  BY <1>1, <1>2, Invariance, PTL DEF Spec, ImplementsQueue, Contract!Spec

=============================================================================
