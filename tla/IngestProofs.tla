---------------------------- MODULE IngestProofs ----------------------------
(***************************************************************************)
(* Proofs about Ingest, for every number of boots, messages, deliveries    *)
(* and crashes, every tolerance and every error of the device's clock; and *)
(* about Contract, for every message there may be.                         *)
(***************************************************************************)
EXTENDS Ingest, FiniteSetTheorems, WellFoundedInduction, TLAPS

\* The deployment runs one ingestion (infra/docker-compose.yml:91).
OneProcess == \A p, q \in Process : p = q

-----------------------------------------------------------------------------
(* The least of a finite set of rows.                                      *)

LEMMA Earliest ==
  ASSUME NEW S, IsFiniteSet(S), S # {}, \A r \in S : r.time \in Int
  PROVE  \E r \in S : \A x \in S : r.time <= x.time
<1> DEFINE IsFirst(T, r) == r \in T /\ \A x \in T : r.time <= x.time
           Bad == { n \in Nat : \E T \in SUBSET S :
                      T # {} /\ Cardinality(T) = n /\ ~ \E r \in T : IsFirst(T, r) }
<1>1. SUFFICES ASSUME ~ \E r \in S : IsFirst(S, r) PROVE FALSE
  OBVIOUS
<1>2. Bad # {} /\ Bad \in SUBSET Nat
  BY <1>1, FS_CardinalityType
<1>3. OpToRel(<, Nat) = { p \in Nat \X Nat : p[1] < p[2] }
  BY DEF OpToRel
<1>4. PICK n \in Bad : \A k \in Bad : ~ (<<k, n>> \in OpToRel(<, Nat))
  <2> HIDE DEF Bad
  <2> QED
    BY <1>2, NatLessThanWellFounded, WFMin
<1>5. \A k \in Bad : ~ (k < n)
  <2> HIDE DEF Bad
  <2> SUFFICES ASSUME NEW k \in Bad, k < n PROVE FALSE
    OBVIOUS
  <2>1. <<k, n>> \notin { p \in Nat \X Nat : p[1] < p[2] }
    BY <1>3, <1>4, Zenon
  <2> QED
    BY <1>2, <2>1
<1>6. PICK T \in SUBSET S : T # {} /\ Cardinality(T) = n /\ ~ \E r \in T : IsFirst(T, r)
  BY <1>4
<1>7. PICK t : t \in T
  BY <1>6
<1>8. IsFiniteSet(T)
  BY FS_Subset
<1>9. Cardinality(T \ {t}) = n - 1 /\ IsFiniteSet(T \ {t}) /\ n \in Nat
  BY <1>4, <1>6, <1>7, <1>8, FS_RemoveElement
<1>10. CASE T \ {t} = {}
  BY <1>6, <1>7, <1>10
<1>11. CASE T \ {t} # {}
  <2>1. n - 1 \in Nat
    BY <1>9, FS_CardinalityType
  <2>2. \E r \in T \ {t} : IsFirst(T \ {t}, r)
    <3>1. SUFFICES ASSUME ~ \E r \in T \ {t} : IsFirst(T \ {t}, r) PROVE FALSE
      OBVIOUS
    <3>2. n - 1 \in Bad
      <4>1. T \ {t} \in SUBSET S
        OBVIOUS
      <4> QED
        BY <1>9, <1>11, <2>1, <3>1, <4>1
    <3> HIDE DEF Bad
    <3> QED
      BY <1>5, <1>9, <3>2
  <2>3. PICK u \in T \ {t} : IsFirst(T \ {t}, u)
    BY <2>2
  <2>4. t.time \in Int /\ u.time \in Int /\ \A x \in T : x.time \in Int
    BY <1>7
  <2>5. IsFirst(T, t) \/ IsFirst(T, u)
    BY <1>7, <2>3, <2>4
  <2> QED
    BY <1>6, <1>7, <2>3, <2>5
<1> QED
  BY <1>10, <1>11

-----------------------------------------------------------------------------
(* What messages, rows and anchors are made of.                            *)

MessageT ==
  [boot : Int, kind : Kinds, seq : Nat, up : Int, claimed : BOOLEAN, ts : Int,
   shape : {"good", "malformed", "throws", "refused"}]

RowT ==
  [boot : Int, kind : Kinds, seq : Nat, up : Int, ts : Int, claimed : BOOLEAN,
   time : Int, from : {"clock", "anchor", "arrival"}]

AnchorT == UNION { [S -> Int] : S \in SUBSET Int }

Typed ==
  /\ now \in Int /\ boot \in 0 .. Boots /\ start \in [Boot -> Int]
  /\ taken \in SUBSET MessageT /\ IsFiniteSet(taken)
  /\ rows \in SUBSET RowT /\ IsFiniteSet(rows)
  /\ anchors \in [Process -> AnchorT]
  /\ pending \in [Process -> SUBSET [m : MessageT, row : RowT]]
  /\ up \in SUBSET Process /\ restarted \in BOOLEAN

LEMMA FatesAreShapes ==
  ASSUME NEW kind \in Kinds
  PROVE  Fates[kind] \subseteq {"good", "malformed", "throws", "refused"}
<1>1. \A parsed, admitted : Fate(parsed, admitted) \in {"good", "malformed", "throws", "refused"}
  BY DEF Fate
<1>2. \A k \in {"reading", "sample", "event"} : \A m :
        FateOf(k, m) \in {"good", "malformed", "throws", "refused"}
  BY <1>1 DEF FateOf
<1>3. CASE kind = "reading"
  <2>1. Fates[kind] = { FateOf("reading", m) : m \in Readings }
    BY <1>3, SMT DEF Fates
  <2> QED
    BY <1>2, <2>1, Zenon
<1>4. CASE kind = "sample"
  <2>1. Fates[kind] = { FateOf("sample", m) : m \in Samples }
    BY <1>4, SMT DEF Fates
  <2> QED
    BY <1>2, <2>1, Zenon
<1>5. CASE kind = "event"
  <2>1. Fates[kind] = { FateOf("event", m) : m \in Events }
    BY <1>5, SMT DEF Fates
  <2> QED
    BY <1>2, <2>1, Zenon
<1> QED
  BY <1>3, <1>4, <1>5, IngestDataAssumption

LEMMA ObservedTyped ==
  ASSUME NEW known \in AnchorT, NEW m \in MessageT
  PROVE  /\ Observed(known, m) \in AnchorT
         /\ DOMAIN Observed(known, m) = DOMAIN known \cup {m.boot}
         /\ \A b \in DOMAIN known : Observed(known, m)[b] = known[b]
         /\ m.boot \notin DOMAIN known => Observed(known, m)[m.boot] = m.ts - m.up
<1>1. PICK S \in SUBSET Int : known \in [S -> Int]
  BY DEF AnchorT
<1>2. Observed(known, m) \in [S \cup {m.boot} -> Int]
  <2>1. m.ts - m.up \in Int /\ DOMAIN known = S
    BY <1>1 DEF MessageT
  <2> QED
    BY <1>1, <2>1 DEF Observed
<1>3. S \cup {m.boot} \in SUBSET Int
  BY DEF MessageT
<1> QED
  BY <1>1, <1>2, <1>3 DEF AnchorT, Observed

LEMMA ResolvedTyped ==
  ASSUME NEW known \in AnchorT, NEW m \in MessageT, NEW replayed, now \in Int
  PROVE  Resolved(known, m, replayed) \in RowT
<1>1. m.boot \in DOMAIN known => Placed(known, m) \in Int
  BY DEF AnchorT, Placed, MessageT
<1> QED
  BY <1>1 DEF Resolved, Origin, MessageT, RowT

LEMMA NoneTyped == None \in AnchorT
<1>1. None \in [{} -> Int]
  BY DEF None
<1> QED
  BY <1>1 DEF AnchorT

\* The row each boot's anchor is reloaded from.
LEMMA ReloadedFrom ==
  ASSUME Typed
  PROVE  /\ Reloaded \in AnchorT
         /\ DOMAIN Reloaded = { r.boot : r \in Anchoring }
         /\ \A b \in DOMAIN Reloaded :
              \E r \in Anchoring : r.boot = b /\ Reloaded[b] = r.time - r.up
<1> DEFINE of(b) == { r \in Anchoring : r.boot = b }
           first(b) == CHOOSE r \in of(b) : \A x \in of(b) : r.time <= x.time
           booted == { r.boot : r \in Anchoring }
<1>1. Reloaded = [b \in booted |-> first(b).time - first(b).up]
  BY DEF Reloaded
<1>2. ASSUME NEW b \in booted PROVE first(b) \in of(b)
  <2>1. of(b) # {} /\ of(b) \subseteq rows
    BY DEF Anchoring
  <2>2. IsFiniteSet(of(b)) /\ \A r \in of(b) : r.time \in Int
    BY <2>1, FS_Subset DEF Typed, RowT
  <2>3. \E r \in of(b) : \A x \in of(b) : r.time <= x.time
    <3> HIDE DEF of
    <3> QED
      BY <2>1, <2>2, Earliest
  <2> HIDE DEF of
  <2> QED
    BY <2>3
<1>3. ASSUME NEW b \in booted
      PROVE  /\ first(b) \in Anchoring /\ first(b).boot = b
             /\ first(b).time - first(b).up \in Int
  <2>1. first(b) \in of(b)
    BY <1>2
  <2>2. first(b) \in Anchoring /\ first(b).boot = b
    <3> HIDE DEF first
    <3> QED
      BY <2>1
  <2> HIDE DEF first
  <2> QED
    BY <2>2 DEF Anchoring, Typed, RowT
<1>4. booted \in SUBSET Int
  BY DEF Anchoring, Typed, RowT
<1> HIDE DEF first, booted
<1>5. Reloaded \in [booted -> Int]
  BY <1>1, <1>3
<1>6. Reloaded \in AnchorT
  BY <1>4, <1>5 DEF AnchorT
<1> QED
  BY <1>1, <1>3, <1>6 DEF booted

-----------------------------------------------------------------------------
(* The inductive invariant, for any number of processes.                   *)

Same(T, b, kind) == { m \in T : m.boot = b /\ m.kind = kind }

\* A boot numbers the messages of a kind from one, and no number is used twice.
Counted == \A m \in taken : m.seq \in 1 .. Cardinality(Same(taken, m.boot, m.kind))

Unique ==
  \A m, k \in taken : m.boot = k.boot /\ m.kind = k.kind /\ m.seq = k.seq => m = k

Carries(r, m) ==
  /\ r.boot = m.boot /\ r.kind = m.kind /\ r.seq = m.seq
  /\ r.up = m.up /\ r.ts = m.ts /\ r.claimed = m.claimed

\* base is the start of boot b by the clock of one of its messages.
BaseOf(b, base) == \E m \in taken : m.boot = b /\ m.claimed /\ base = m.ts - m.up

\* A row is that of a message; it was believed, or lies on some base of its boot.
Sound(r) ==
  /\ \E m \in taken : Carries(r, m)
  /\ r.from = "clock" => r.claimed /\ r.time = r.ts
  /\ r.from = "anchor" => BaseOf(r.boot, r.time - r.up)

Well ==
  /\ \A r \in rows : Sound(r)
  /\ \A p \in Process : \A w \in pending[p] :
       w.m \in taken /\ Carries(w.row, w.m) /\ Sound(w.row)

Based ==
  \A p \in Process : \A b \in DOMAIN anchors[p] : BaseOf(b, anchors[p][b])

IInv ==
  /\ Typed /\ Counted /\ Unique /\ Well /\ Based
  /\ handled \subseteq taken /\ HandledIsKept

Quiet(p) == Crash(p) \/ InsertThrows(p) \/ \E m \in taken : HandleThrows(p, m)

\* Which action changes what.
LEMMA Writers ==
  ASSUME Next
  PROVE  \/ Tick /\ UNCHANGED <<device, server>>
         \/ DeviceBoots /\ UNCHANGED <<now, taken, server>>
         \/ \E kind \in Kinds : Take(kind) /\ UNCHANGED <<now, boot, start, server>>
         \/ \E p \in Process :
              /\ UNCHANGED <<now, device>>
              /\ \/ \E m \in taken : Reject(p, m)
                 \/ \E m \in taken, replayed \in BOOLEAN : Handle(p, m, replayed)
                 \/ Insert(p) \/ Start(p)
                 \/ p \in Process /\ Down(p) /\ UNCHANGED <<rows, rejected, handled, restarted>>
BY DEF Next, Tick, DeviceBoots, Take, Serve, Reject, Handle, Insert, Start, Crash,
       HandleThrows, InsertThrows

LEMMA DownTyped == ASSUME Typed, NEW p \in Process, Down(p), UNCHANGED <<now, device, rows, restarted>> PROVE Typed'
BY NoneTyped DEF Typed, Down, device

LEMMA TypedKept == ASSUME Typed, Next PROVE Typed'
<1>1. CASE Tick
  BY <1>1 DEF Tick, Typed, device, server
<1>2. CASE DeviceBoots
  <2>1. boot + 1 \in 0 .. Boots
    BY <1>2, IngestBoundsAssumption DEF DeviceBoots, Typed
  <2> QED
    BY <1>2, <2>1 DEF DeviceBoots, Typed, server
<1>3. ASSUME NEW kind \in Kinds, Take(kind) PROVE Typed'
  <2>1. /\ boot \in Boot /\ NextSeq(kind) \in Nat
        /\ now - start[boot] \in Int
    <3>1. IsFiniteSet({ m \in taken : m.boot = boot /\ m.kind = kind })
      BY FS_Subset DEF Typed
    <3>2. Cardinality({ m \in taken : m.boot = boot /\ m.kind = kind }) \in Nat
      BY <3>1, FS_CardinalityType
    <3> QED
      BY <1>3, <3>2 DEF Take, Typed, Boot, NextSeq
  <2>2. \A claimed \in BOOLEAN, err \in ClockErrors :
          (IF claimed THEN now + err ELSE 0) \in Int
    BY IngestDataAssumption DEF Typed
  <2>3. PICK claimed \in BOOLEAN, err \in ClockErrors,
             shape \in {"good", "malformed", "throws", "refused"} :
          taken' = taken \cup
            {[boot |-> boot, kind |-> kind, seq |-> NextSeq(kind),
              up |-> now - start[boot], claimed |-> claimed,
              ts |-> IF claimed THEN now + err ELSE 0, shape |-> shape]}
    BY <1>3, FatesAreShapes DEF Take
  <2>4. PICK ts \in Int : taken' = taken \cup
            {[boot |-> boot, kind |-> kind, seq |-> NextSeq(kind),
              up |-> now - start[boot], claimed |-> claimed, ts |-> ts, shape |-> shape]}
    BY <2>2, <2>3
  <2>5. taken' \in SUBSET MessageT
    BY <2>1, <2>4 DEF Typed, MessageT, Boot
  <2>6. IsFiniteSet(taken')
    BY <2>4, FS_AddElement DEF Typed
  <2> QED
    BY <1>3, <2>5, <2>6 DEF Take, Typed, server
<1>4. ASSUME NEW p \in Process, NEW m \in taken, Reject(p, m) PROVE Typed'
  BY <1>4 DEF Reject, Typed, device
<1>5. ASSUME NEW p \in Process, NEW m \in taken, NEW replayed \in BOOLEAN,
             Handle(p, m, replayed)
      PROVE  Typed'
  <2>1. anchors[p] \in AnchorT /\ m \in MessageT /\ now \in Int
    BY DEF Typed
  <2>2. Observed(anchors[p], m) \in AnchorT /\ Resolved(anchors[p], m, replayed) \in RowT
    BY <2>1, ObservedTyped, ResolvedTyped
  <2>3. anchors' \in [Process -> AnchorT]
    BY <1>5, <2>2 DEF Handle, Typed
  <2>4. pending' \in [Process -> SUBSET [m : MessageT, row : RowT]]
    BY <1>5, <2>1, <2>2 DEF Handle, Typed
  <2> QED
    BY <1>5, <2>3, <2>4 DEF Handle, Typed, device
<1>6. ASSUME NEW p \in Process, Insert(p) PROVE Typed'
  <2>1. PICK w \in pending[p] : rows' = IF Conflicts(w.row) THEN rows ELSE rows \cup {w.row}
    BY <1>6 DEF Insert
  <2>2. w.row \in RowT /\ IsFiniteSet(rows \cup {w.row})
    BY <1>6, FS_AddElement DEF Typed
  <2>3. rows' \in SUBSET RowT /\ IsFiniteSet(rows')
    BY <2>1, <2>2 DEF Typed
  <2>4. pending' \in [Process -> SUBSET [m : MessageT, row : RowT]]
    BY <1>6 DEF Insert, Typed
  <2> QED
    BY <1>6, <2>3, <2>4 DEF Insert, Typed, device
<1>7. ASSUME NEW p \in Process, Start(p) PROVE Typed'
  BY <1>7, ReloadedFrom DEF Start, Typed, device
<1> QED
  BY <1>1, <1>2, <1>3, <1>4, <1>5, <1>6, <1>7, Writers, DownTyped

-----------------------------------------------------------------------------
(* Messages: no two have one identity, and each stays what it was.         *)

LEMMA TakenKept ==
  ASSUME Typed, Counted, Unique, Next
  PROVE  Counted' /\ Unique' /\ taken \subseteq taken'
<1>1. CASE taken' = taken
  BY <1>1 DEF Counted, Unique, Same
<1>2. ASSUME NEW kind \in Kinds, Take(kind) PROVE Counted' /\ Unique' /\ taken \subseteq taken'
  <2>1. PICK new : /\ taken' = taken \cup {new}
                   /\ new.boot = boot /\ new.kind = kind
                   /\ new.seq = 1 + Cardinality(Same(taken, boot, kind))
    <3>1. PICK claimed \in BOOLEAN, err \in ClockErrors,
               shape \in {"good"} \cup IF Strange < MaxStrange THEN Fates[kind] ELSE {} :
            taken' = taken \cup
              {[boot |-> boot, kind |-> kind, seq |-> NextSeq(kind),
                up |-> now - start[boot], claimed |-> claimed,
                ts |-> IF claimed THEN now + err ELSE 0, shape |-> shape]}
      BY <1>2, Zenon DEF Take
    <3> DEFINE new == [boot |-> boot, kind |-> kind, seq |-> NextSeq(kind),
                       up |-> now - start[boot], claimed |-> claimed,
                       ts |-> IF claimed THEN now + err ELSE 0, shape |-> shape]
    <3>2. new.boot = boot /\ new.kind = kind /\ new.seq = NextSeq(kind)
      OBVIOUS
    <3>3. NextSeq(kind) = 1 + Cardinality(Same(taken, boot, kind))
      BY Zenon DEF NextSeq, Same
    <3>4. taken' = taken \cup {new}
      BY <3>1, Zenon
    <3> HIDE DEF new
    <3> QED
      BY <3>2, <3>3, <3>4
  <2> DEFINE N == Cardinality(Same(taken, boot, kind))
  <2>2. \A b, k : IsFiniteSet(Same(taken, b, k)) /\ Cardinality(Same(taken, b, k)) \in Nat
    <3> TAKE b, k
    <3>1. Same(taken, b, k) \subseteq taken
      BY DEF Same
    <3> QED
      BY <3>1, FS_Subset, FS_CardinalityType DEF Typed
  <2>3. \A m \in Same(taken, boot, kind) : m.seq \in Nat /\ m.seq < new.seq
    <3> TAKE m \in Same(taken, boot, kind)
    <3>1. m \in taken /\ m.boot = boot /\ m.kind = kind
      BY DEF Same
    <3>2. m.seq \in 1 .. N
      BY <3>1 DEF Counted
    <3> QED
      BY <2>1, <2>2, <3>2
  <2>4. new \notin taken
    BY <2>1, <2>2, <2>3 DEF Same
  <2>5. Same(taken', boot, kind) = Same(taken, boot, kind) \cup {new}
    BY <2>1 DEF Same
  <2>6. Cardinality(Same(taken', boot, kind)) = N + 1 /\ N \in Nat
    <3>1. new \notin Same(taken, boot, kind)
      BY <2>4 DEF Same
    <3> QED
      BY <2>2, <2>5, <3>1, FS_AddElement
  <2>7. \A b, k : b # boot \/ k # kind => Same(taken', b, k) = Same(taken, b, k)
    BY <2>1 DEF Same
  <2>9. ASSUME NEW m \in taken' PROVE m.seq \in 1 .. Cardinality(Same(taken', m.boot, m.kind))
    <3>1. CASE m = new
      BY <2>1, <2>6, <3>1
    <3>2. CASE m \in taken /\ m.boot = boot /\ m.kind = kind
      BY <2>6, <3>2 DEF Counted
    <3>3. CASE m \in taken /\ (m.boot # boot \/ m.kind # kind)
      BY <2>7, <3>3 DEF Counted
    <3> QED
      BY <2>1, <3>1, <3>2, <3>3
  <2>10. Counted'
    BY <2>9 DEF Counted
  <2>11. Unique'
    <3>1. \A m \in taken : m.boot = new.boot /\ m.kind = new.kind => m.seq # new.seq
      BY <2>1, <2>2, <2>3 DEF Same
    <3> QED
      BY <2>1, <3>1 DEF Unique
  <2> QED
    BY <2>1, <2>10, <2>11
<1> QED
  BY <1>1, <1>2, Writers DEF device, server

-----------------------------------------------------------------------------
(* Rows and anchors, whatever the processes do.                            *)

LEMMA SoundStays ==
  ASSUME taken \subseteq taken'
  PROVE  /\ \A r : Sound(r) => Sound(r)'
         /\ \A b, base : BaseOf(b, base) => BaseOf(b, base)'
BY DEF Sound, BaseOf, Carries

LEMMA ResolvedSound ==
  ASSUME Typed, Based, NEW p \in Process, NEW m \in taken, NEW replayed \in BOOLEAN
  PROVE  /\ Carries(Resolved(anchors[p], m, replayed), m)
         /\ Sound(Resolved(anchors[p], m, replayed))
<1> DEFINE r == Resolved(anchors[p], m, replayed)
<1>1. Carries(r, m)
  BY DEF Carries, Resolved
<1>2. r.from = "clock" => r.claimed /\ r.time = r.ts
  BY DEF Resolved, Origin, Believed
<1>3. ASSUME r.from = "anchor" PROVE BaseOf(r.boot, r.time - r.up)
  <2>1. m.boot \in DOMAIN anchors[p] /\ r.time = anchors[p][m.boot] + m.up
    BY <1>3 DEF Resolved, Origin, Placed
  <2>2. anchors[p][m.boot] \in Int /\ m.up \in Int
    BY <2>1 DEF Typed, AnchorT, MessageT
  <2>3. r.boot = m.boot /\ r.up = m.up
    BY <1>1 DEF Carries
  <2>4. r.time - r.up = anchors[p][m.boot]
    <3> HIDE DEF r
    <3> QED
      BY <2>1, <2>2, <2>3
  <2>5. BaseOf(m.boot, anchors[p][m.boot])
    BY <2>1 DEF Based
  <2> QED
    BY <2>3, <2>4, <2>5
<1> QED
  BY <1>1, <1>2, <1>3 DEF Sound

LEMMA BasedKept ==
  ASSUME IInv, Next, Typed', taken \subseteq taken' PROVE Based'
<1> USE SoundStays DEF IInv
<1>1. CASE UNCHANGED anchors
  BY <1>1 DEF Based
<1>2. ASSUME NEW p \in Process, NEW m \in taken, NEW replayed \in BOOLEAN,
             Handle(p, m, replayed), anchors' # anchors
      PROVE  Based'
  <2>1. anchors' = [anchors EXCEPT ![p] = Observed(anchors[p], m)] /\ m.claimed
    BY <1>2 DEF Handle, Believed
  <2>2. anchors[p] \in AnchorT /\ m \in MessageT
    BY DEF Typed
  <2>3. \A b \in DOMAIN Observed(anchors[p], m) : BaseOf(b, Observed(anchors[p], m)[b])
    <3> SUFFICES ASSUME NEW b \in DOMAIN Observed(anchors[p], m)
                 PROVE  BaseOf(b, Observed(anchors[p], m)[b])
      OBVIOUS
    <3>3. /\ DOMAIN Observed(anchors[p], m) = DOMAIN anchors[p] \cup {m.boot}
          /\ m.boot \notin DOMAIN anchors[p] => Observed(anchors[p], m)[m.boot] = m.ts - m.up
      BY <2>2, ObservedTyped
    <3>1. CASE b \in DOMAIN anchors[p]
      BY <2>2, <3>1, ObservedTyped DEF Based
    <3>2. CASE b \notin DOMAIN anchors[p]
      <4>1. b = m.boot /\ Observed(anchors[p], m)[b] = m.ts - m.up
        BY <3>2, <3>3
      <4> QED
        BY <2>1, <4>1 DEF BaseOf
    <3> QED
      BY <3>1, <3>2
  <2>4. \A q \in Process : anchors'[q] = IF q = p THEN Observed(anchors[p], m) ELSE anchors[q]
    BY <2>1 DEF Typed
  <2> QED
    BY <2>3, <2>4 DEF Based
<1>3. ASSUME NEW p \in Process, Start(p) PROVE Based'
  <2>1. \A b \in DOMAIN Reloaded : BaseOf(b, Reloaded[b])
    <3> SUFFICES ASSUME NEW b \in DOMAIN Reloaded PROVE BaseOf(b, Reloaded[b])
      OBVIOUS
    <3>1. PICK r \in Anchoring : r.boot = b /\ Reloaded[b] = r.time - r.up
      BY ReloadedFrom
    <3> QED
      BY <3>1 DEF Anchoring, Well, Sound, BaseOf, Carries
  <2>2. \A q \in Process : anchors'[q] = IF q = p THEN Reloaded ELSE anchors[q]
    BY <1>3 DEF Start, Typed
  <2> QED
    BY <2>1, <2>2 DEF Based
<1>4. ASSUME NEW p \in Process, Down(p) PROVE Based'
  <2>1. \A q \in Process : anchors'[q] = IF q = p THEN None ELSE anchors[q]
    BY <1>4 DEF Down, Typed
  <2> QED
    BY <2>1 DEF Based, None
<1> QED
  BY <1>1, <1>2, <1>3, <1>4, Writers DEF server, Reject, Insert

LEMMA WellKept ==
  ASSUME IInv, Next, taken \subseteq taken' PROVE Well'
<1> USE SoundStays DEF IInv
<1>1. CASE UNCHANGED <<rows, pending>>
  BY <1>1 DEF Well
<1>2. ASSUME NEW p \in Process, NEW m \in taken, NEW replayed \in BOOLEAN,
             Handle(p, m, replayed)
      PROVE  Well'
  <2> DEFINE w0 == [m |-> m, row |-> Resolved(anchors[p], m, replayed)]
  <2>1. \A q \in Process : pending'[q] = pending[q] \/ (q = p /\ pending'[q] = {w0})
    BY <1>2 DEF Handle, Typed
  <2>2. w0.m \in taken /\ Carries(w0.row, w0.m) /\ Sound(w0.row)
    BY ResolvedSound
  <2>3. rows' = rows
    BY <1>2 DEF Handle
  <2> HIDE DEF w0
  <2> QED
    BY <2>1, <2>2, <2>3 DEF Well
<1>3. ASSUME NEW p \in Process, Insert(p) PROVE Well'
  <2>1. \A q \in Process : pending'[q] \subseteq pending[q]
    BY <1>3 DEF Insert, Typed
  <2>2. \E w \in pending[p] : rows' \subseteq rows \cup {w.row}
    BY <1>3 DEF Insert
  <2> QED
    BY <2>1, <2>2 DEF Well
<1>4. ASSUME NEW p \in Process, Down(p), rows' = rows PROVE Well'
  <2>1. \A q \in Process : pending'[q] \subseteq pending[q]
    BY <1>4 DEF Down, Typed
  <2> QED
    BY <1>4, <2>1 DEF Well
<1> QED
  BY <1>1, <1>2, <1>3, <1>4, Writers DEF server, Reject, Start

LEMMA KeptKept ==
  ASSUME IInv, Next, taken \subseteq taken'
  PROVE  handled' \subseteq taken' /\ HandledIsKept'
<1> USE DEF IInv
<1>1. rows \subseteq rows' /\ rejected \subseteq rejected'
  BY Writers DEF server, Reject, Handle, Insert, Start
<1>2. ASSUME NEW m \in handled' \ handled
      PROVE  m \in taken' /\ (m \in rejected' \/ \E r \in rows' : SameIdentity(r, m) /\ r.up = m.up)
  <2>1. ASSUME NEW p \in Process, NEW k \in taken, Reject(p, k) PROVE m = k /\ m \in rejected'
    BY <1>2, <2>1 DEF Reject
  <2>2. ASSUME NEW p \in Process, NEW k \in taken, NEW replayed \in BOOLEAN,
               Handle(p, k, replayed)
        PROVE  m \in taken /\ \E r \in rows' : SameIdentity(r, m) /\ r.up = m.up
    <3>1. m = k /\ Stored(k) /\ rows' = rows
      BY <1>2, <2>2 DEF Handle
    <3>2. PICK r \in rows : SameIdentity(r, k)
      BY <3>1 DEF Stored
    <3>3. PICK j \in taken : Carries(r, j)
      BY DEF Well, Sound
    <3>4. j = k
      BY <3>2, <3>3 DEF Unique, SameIdentity, Carries
    <3> QED
      BY <3>1, <3>2, <3>3, <3>4 DEF Carries
  <2>3. ASSUME NEW p \in Process, Insert(p)
        PROVE  m \in taken /\ \E r \in rows' : SameIdentity(r, m) /\ r.up = m.up
    <3>1. PICK w \in pending[p] :
            /\ rows' = IF Conflicts(w.row) THEN rows ELSE rows \cup {w.row}
            /\ handled' = handled \cup {w.m}
      BY <2>3 DEF Insert
    <3>2. m = w.m /\ w.m \in taken /\ Carries(w.row, w.m)
      BY <1>2, <3>1 DEF Well
    <3>3. CASE Conflicts(w.row)
      <4>1. PICK x \in rows : SameIdentity(x, w.row)
        BY <3>3 DEF Conflicts
      <4>2. PICK j \in taken : Carries(x, j)
        BY DEF Well, Sound
      <4>3. j = m
        BY <3>2, <4>1, <4>2 DEF Unique, SameIdentity, Carries
      <4> QED
        BY <1>1, <3>2, <4>1, <4>2, <4>3 DEF SameIdentity, Carries
    <3>4. CASE ~ Conflicts(w.row)
      BY <3>1, <3>2, <3>4 DEF SameIdentity, Carries
    <3> QED
      BY <3>3, <3>4
  <2> QED
    BY <1>2, <2>1, <2>2, <2>3, Writers DEF server, Start
<1> QED
  BY <1>1, <1>2 DEF HandledIsKept, SameIdentity

LEMMA Invariance == Spec => []IInv
<1>1. Init => IInv
  <2> SUFFICES ASSUME Init PROVE IInv
    OBVIOUS
  <2>1. Typed
    <3>1. start \in [Boot -> Int] /\ boot \in 0 .. Boots
      BY IngestBoundsAssumption DEF Init
    <3>2. anchors \in [Process -> AnchorT]
      BY NoneTyped DEF Init
    <3>3. pending \in [Process -> SUBSET [m : MessageT, row : RowT]]
      BY DEF Init
    <3>4. taken \in SUBSET MessageT /\ IsFiniteSet(taken)
      BY FS_EmptySet DEF Init
    <3>5. rows \in SUBSET RowT /\ IsFiniteSet(rows)
      BY FS_EmptySet DEF Init
    <3>6. now \in Int
      BY DEF Init
    <3>7. up \in SUBSET Process
      BY DEF Init
    <3>8. restarted \in BOOLEAN
      BY DEF Init
    <3> QED
      BY <3>1, <3>2, <3>3, <3>4, <3>5, <3>6, <3>7, <3>8 DEF Typed
  <2>2. Counted /\ Unique /\ Well /\ Based
    BY DEF Init, Counted, Unique, Well, Based, None
  <2> QED
    BY <2>1, <2>2 DEF Init, IInv, HandledIsKept
<1>2. IInv /\ [Next]_vars => IInv'
  <2>1. CASE Next
    <3> SUFFICES ASSUME IInv, Next PROVE IInv'
      BY <2>1
    <3>1. Typed'
      BY TypedKept DEF IInv
    <3>2. Counted' /\ Unique' /\ taken \subseteq taken'
      BY TakenKept DEF IInv
    <3> QED
      BY <3>1, <3>2, BasedKept, WellKept, KeptKept DEF IInv
  <2>2. CASE UNCHANGED vars
    BY <2>2 DEF vars, device, IInv, Typed, Counted, Unique, Same, Well, Sound, Carries,
       BaseOf, Based, HandledIsKept
  <2> QED
    BY <2>1, <2>2
<1> QED
  BY <1>1, <1>2, PTL DEF Spec

\* What was handled to the end has its row or is in rejected_message, whatever fails
\* and however many processes ingest (docs/CONTRACT.md:112-114).
THEOREM NothingDropped == Spec => []HandledIsKept
<1>1. IInv => HandledIsKept
  BY DEF IInv
<1> QED
  BY <1>1, Invariance, PTL

-----------------------------------------------------------------------------
(* One process: nothing is stored between its lookup and its insert, and   *)
(* until it restarts its anchors are the first it observed.                *)

Alone ==
  \A p \in Process :
    /\ pending[p] # {} => p \in up
    /\ \A w \in pending[p] : ~ Stored(w.m)

\* Until a restart every anchored row lies on the anchor of its boot.
OnAnchor(p, r) ==
  r.from = "anchor" => r.boot \in DOMAIN anchors[p] /\ r.time - r.up = anchors[p][r.boot]

Aligned ==
  ~ restarted =>
    /\ \A r, x \in rows : r.from = "anchor" /\ x.from = "anchor" /\ r.boot = x.boot
                           => r.time - r.up = x.time - x.up
    /\ \A p \in up : /\ \A r \in rows : OnAnchor(p, r)
                     /\ \A w \in pending[p] : OnAnchor(p, w.row)

LEMMA AloneKept ==
  ASSUME OneProcess, IInv, Alone, OneRowPerIdentity, Next, taken \subseteq taken'
  PROVE  Alone' /\ OneRowPerIdentity'
<1> USE DEF IInv
<1>1. CASE UNCHANGED <<rows, pending, up>>
  BY <1>1 DEF Alone, OneRowPerIdentity, Stored, SameIdentity
<1>2. ASSUME NEW p \in Process, NEW m \in taken, NEW replayed \in BOOLEAN,
             Handle(p, m, replayed)
      PROVE  Alone' /\ OneRowPerIdentity'
  <2> DEFINE w0 == [m |-> m, row |-> Resolved(anchors[p], m, replayed)]
  <2>1. \A q \in Process :
          pending'[q] = pending[q] \/ (q = p /\ ~ Stored(m) /\ pending'[q] = {w0})
    BY <1>2 DEF Handle, Typed
  <2>2. w0.m = m
    OBVIOUS
  <2>3. rows' = rows /\ up' = up /\ p \in up
    BY <1>2 DEF Handle, Ready
  <2> HIDE DEF w0
  <2> QED
    BY <2>1, <2>2, <2>3 DEF Alone, OneRowPerIdentity, Stored, SameIdentity
<1>3. ASSUME NEW p \in Process, Insert(p) PROVE Alone' /\ OneRowPerIdentity'
  <2>1. \A q \in Process : pending'[q] = {}
    BY <1>3 DEF Insert, Typed, OneProcess
  <2>2. PICK w \in pending[p] : rows' \subseteq rows \cup {w.row}
    BY <1>3 DEF Insert
  <2>3. \A r \in rows : ~ SameIdentity(r, w.row) /\ ~ SameIdentity(w.row, r)
    BY DEF Alone, Stored, SameIdentity, Well, Carries
  <2> QED
    BY <2>1, <2>2, <2>3 DEF Alone, OneRowPerIdentity
<1>4. ASSUME NEW p \in Process, Down(p), rows' = rows PROVE Alone' /\ OneRowPerIdentity'
  <2>1. \A q \in Process : pending'[q] = {}
    BY <1>4 DEF Down, Typed, OneProcess
  <2> QED
    BY <1>4, <2>1 DEF Alone, OneRowPerIdentity
<1>5. ASSUME NEW p \in Process, Start(p) PROVE Alone' /\ OneRowPerIdentity'
  BY <1>5 DEF Start, Alone, OneRowPerIdentity, Stored, SameIdentity
<1> QED
  BY <1>1, <1>2, <1>3, <1>4, <1>5, Writers DEF server, Reject

LEMMA AlignedKept ==
  ASSUME OneProcess, IInv, Alone, Aligned, Next
  PROVE  Aligned'
<1> USE DEF IInv
<1>1. CASE UNCHANGED <<rows, pending, up, anchors, restarted>>
  BY <1>1 DEF Aligned, OnAnchor
<1>2. ASSUME NEW p \in Process, NEW m \in taken, NEW replayed \in BOOLEAN,
             Handle(p, m, replayed)
      PROVE  Aligned'
  <2> DEFINE w0 == [m |-> m, row |-> Resolved(anchors[p], m, replayed)]
  <2>1. \A q \in Process : pending'[q] = pending[q] \/ (q = p /\ pending'[q] = {w0})
    BY <1>2 DEF Handle, Typed
  <2>2. OnAnchor(p, w0.row)
    <3>1. ASSUME w0.row.from = "anchor"
          PROVE  /\ w0.row.boot \in DOMAIN anchors[p]
                 /\ w0.row.time = anchors[p][w0.row.boot] + w0.row.up
      BY <3>1 DEF Resolved, Origin, Placed
    <3>2. Resolved(anchors[p], m, replayed) \in RowT
      <4>1. anchors[p] \in AnchorT /\ m \in MessageT /\ now \in Int
        BY DEF Typed
      <4> QED
        BY <4>1, ResolvedTyped
    <3>3. w0.row.time \in Int /\ w0.row.up \in Int
      BY <3>2 DEF RowT
    <3>5. anchors[p] \in AnchorT
      BY DEF Typed
    <3>4. \A b \in DOMAIN anchors[p] : anchors[p][b] \in Int
      BY <3>5 DEF AnchorT
    <3> HIDE DEF w0
    <3> QED
      BY <3>1, <3>3, <3>4 DEF OnAnchor
  <2>3. rows' = rows /\ up' = up /\ p \in up /\ restarted' = restarted
    BY <1>2 DEF Handle, Ready
  <2>4. \A q \in Process : \A b \in DOMAIN anchors[q] :
          b \in DOMAIN anchors'[q] /\ anchors'[q][b] = anchors[q][b]
    <3>1. anchors[p] \in AnchorT /\ m \in MessageT
      BY DEF Typed
    <3>2. \A q \in Process :
            anchors'[q] = anchors[q] \/ (q = p /\ anchors'[q] = Observed(anchors[p], m))
      BY <1>2 DEF Handle, Typed
    <3>3. \A b \in DOMAIN anchors[p] : /\ b \in DOMAIN Observed(anchors[p], m)
                                      /\ Observed(anchors[p], m)[b] = anchors[p][b]
      BY <3>1, ObservedTyped
    <3> QED
      BY <3>2, <3>3
  <2> HIDE DEF w0
  <2> QED
    BY <2>1, <2>2, <2>3, <2>4 DEF Aligned, OnAnchor, Typed
<1>3. ASSUME NEW p \in Process, Insert(p) PROVE Aligned'
  <2>1. \A q \in Process : q = p /\ pending'[q] = {}
    BY <1>3 DEF Insert, Typed, OneProcess
  <2>2. PICK w \in pending[p] : rows' \subseteq rows \cup {w.row}
    BY <1>3 DEF Insert
  <2>3. p \in up /\ up' = up /\ anchors' = anchors /\ restarted' = restarted
    BY <1>3 DEF Insert
  <2>4. ~ restarted => \A r \in rows' : OnAnchor(p, r)
    BY <2>2, <2>3 DEF Aligned
  <2> QED
    BY <2>1, <2>3, <2>4 DEF Aligned, OnAnchor, Typed
<1>4. ASSUME NEW p \in Process, Down(p), rows' = rows, restarted' = restarted PROVE Aligned'
  <2>1. up' = {}
    BY <1>4 DEF Down, Typed, OneProcess
  <2> QED
    BY <1>4, <2>1 DEF Aligned
<1>5. ASSUME NEW p \in Process, Start(p) PROVE Aligned'
  BY <1>5 DEF Start, Aligned
<1> QED
  BY <1>1, <1>2, <1>3, <1>4, <1>5, Writers DEF server, Reject

OneInv == Alone /\ OneRowPerIdentity /\ Aligned

LEMMA InvarianceOfOne == ASSUME OneProcess PROVE Spec => []OneInv
<1>1. Init => OneInv
  BY DEF Init, OneInv, Alone, OneRowPerIdentity, Aligned
<1>2. IInv /\ OneInv /\ [Next]_vars => OneInv'
  <2>1. CASE Next
    BY <2>1, TakenKept, AloneKept, AlignedKept DEF OneInv, IInv
  <2>2. CASE UNCHANGED vars
    BY <2>2 DEF vars, device, OneInv, Alone, OneRowPerIdentity, Aligned, OnAnchor, Stored,
       SameIdentity
  <2> QED
    BY <2>1, <2>2
<1> QED
  BY <1>1, <1>2, Invariance, PTL DEF Spec

\* However often a message is delivered, whatever it resolves to and whatever fails,
\* it is kept and is one row (docs/CONTRACT.md:59-63, 112-114, postgres.py:46-49).
THEOREM EachOnce == ASSUME OneProcess PROVE Spec => []KeptOnce
<1>1. IInv /\ OneInv => KeptOnce
  BY DEF IInv, OneInv, KeptOnce
<1> QED
  BY <1>1, Invariance, InvarianceOfOne, PTL

\* Rows placed by the anchor keep the distances of their uptimes (README.md:200-202).
THEOREM OutageKeepsShape == ASSUME OneProcess PROVE Spec => []AnchoredShape
<1>1. ASSUME IInv, OneInv PROVE AnchoredShape
  <2> SUFFICES ASSUME NEW r \in rows, NEW x \in rows,
                      r.from = "anchor", x.from = "anchor", r.boot = x.boot,
                      restarted => Steady(r.boot)
               PROVE  r.time - x.time = r.up - x.up
    BY DEF AnchoredShape
  <2>1. r.time - r.up = x.time - x.up
    <3>1. CASE ~ restarted
      BY <1>1, <3>1 DEF OneInv, Aligned
    <3>2. CASE Steady(r.boot)
      BY <1>1, <3>2 DEF IInv, Well, Sound, BaseOf, Steady
    <3> QED
      BY <3>1, <3>2
  <2> QED
    BY <1>1, <2>1 DEF IInv, Typed, RowT
<1> QED
  BY <1>1, Invariance, InvarianceOfOne, PTL

-----------------------------------------------------------------------------
(* Arrival is the last resort.  Anchors are reloaded from two of the three *)
(* tables, so this is about a device that sends to those two.              *)

OnlyReloaded == "event" \notin Kinds

\* A process that runs has anchored every boot with a believed row, and a row waiting
\* to be placed by its arrival has none in its boot.
Anchored ==
  /\ \A p \in up :
       /\ \A x \in rows : x.from = "clock" => x.boot \in DOMAIN anchors[p]
       /\ \A w \in pending[p] : w.row.from = "clock" => w.row.boot \in DOMAIN anchors[p]
  /\ \A p \in Process : \A w \in pending[p] : \A x \in rows :
       w.row.from = "arrival" /\ x.from = "clock" => x.boot # w.row.boot

LEMMA AnchoredKept ==
  ASSUME OneProcess, OnlyReloaded, IInv, Alone, Anchored, Next
  PROVE  Anchored'
<1> USE DEF IInv
<1>1. CASE UNCHANGED <<rows, pending, up, anchors>>
  BY <1>1 DEF Anchored
<1>2. ASSUME NEW p \in Process, NEW m \in taken, NEW replayed \in BOOLEAN,
             Handle(p, m, replayed)
      PROVE  Anchored'
  <2> DEFINE r0 == Resolved(anchors[p], m, replayed)
  <2>1. \A q \in Process :
          pending'[q] = pending[q] \/ (q = p /\ pending'[q] = {[m |-> m, row |-> r0]})
    BY <1>2 DEF Handle, Typed
  <2>2. rows' = rows /\ up' = up /\ p \in up
    BY <1>2 DEF Handle, Ready
  <2>3. anchors[p] \in AnchorT /\ m \in MessageT
    BY DEF Typed
  <2>4. \A q \in Process :
          \/ anchors'[q] = anchors[q]
          \/ q = p /\ anchors'[q] = Observed(anchors[p], m)
    BY <1>2 DEF Handle, Typed
  <2>5. DOMAIN Observed(anchors[p], m) = DOMAIN anchors[p] \cup {m.boot}
    BY <2>3, ObservedTyped
  <2>6. \A q \in Process : DOMAIN anchors[q] \subseteq DOMAIN anchors'[q]
    BY <2>4, <2>5
  <2>7. r0.from = "clock" => r0.boot \in DOMAIN anchors'[p]
    <3>1. ASSUME r0.from = "clock" PROVE anchors'[p] = Observed(anchors[p], m) /\ r0.boot = m.boot
      BY <1>2, <3>1 DEF Handle, Typed, Resolved, Origin
    <3> HIDE DEF r0
    <3> QED
      BY <2>5, <3>1
  <2>8. r0.from = "arrival" => r0.boot \notin DOMAIN anchors[p]
    BY DEF Resolved, Origin
  <2> HIDE DEF r0
  <2>9. \A x \in rows : x.from = "clock" => x.boot \in DOMAIN anchors[p]
    BY <2>2 DEF Anchored
  <2>10. \A q \in Process : \A w \in pending'[q] :
           w \in pending[q] \/ (q = p /\ w.row = r0)
    BY <2>1
  <2> QED
    BY <2>2, <2>6, <2>7, <2>8, <2>9, <2>10 DEF Anchored, Typed
<1>3. ASSUME NEW p \in Process, Insert(p) PROVE Anchored'
  <2>1. \A q \in Process : q = p /\ pending'[q] = {}
    BY <1>3 DEF Insert, Typed, OneProcess
  <2>2. PICK w \in pending[p] : rows' \subseteq rows \cup {w.row}
    BY <1>3 DEF Insert
  <2>3. p \in up /\ up' = up /\ anchors' = anchors
    BY <1>3 DEF Insert
  <2> QED
    BY <2>1, <2>2, <2>3 DEF Anchored, Typed
<1>4. ASSUME NEW p \in Process, Down(p), rows' = rows PROVE Anchored'
  <2>1. up' = {} /\ \A q \in Process : pending'[q] = {}
    BY <1>4 DEF Down, Typed, OneProcess
  <2> QED
    BY <2>1 DEF Anchored
<1>5. ASSUME NEW p \in Process, Start(p) PROVE Anchored'
  <2>1. \A q \in Process : q = p /\ pending'[q] = {}
    BY <1>5 DEF Start, Alone, OneProcess
  <2>2. anchors'[p] = Reloaded /\ rows' = rows /\ up' \subseteq Process
    BY <1>5 DEF Start, Typed
  <2>3. \A x \in rows : x.from = "clock" => x \in Anchoring
    BY DEF Anchoring, Typed, RowT, Well, Sound, OnlyReloaded
  <2>4. \A x \in rows : x.from = "clock" => x.boot \in DOMAIN Reloaded
    BY <2>3, ReloadedFrom
  <2> QED
    BY <2>1, <2>2, <2>4 DEF Anchored
<1> QED
  BY <1>1, <1>2, <1>3, <1>4, <1>5, Writers DEF server, Reject

\* Arrival is not used for a boot one of whose messages was believed and stored,
\* restarts included (README.md:232, ports.py:39-43).
THEOREM ArrivalComesLast ==
  ASSUME OneProcess, OnlyReloaded PROVE Spec => ArrivalIsLastResort
<1>1. Init => Anchored
  BY DEF Init, Anchored
<1>2. IInv /\ OneInv /\ Anchored /\ [Next]_vars => Anchored'
  <2>1. CASE Next
    BY <2>1, AnchoredKept DEF OneInv
  <2>2. CASE UNCHANGED vars
    BY <2>2 DEF vars, Anchored
  <2> QED
    BY <2>1, <2>2
<1>3. IInv /\ Anchored /\ [Next]_vars =>
        [ \A r \in rows' \ rows :
            r.from = "arrival" => ~ \E x \in rows : x.boot = r.boot /\ x.from = "clock" ]_vars
  <2>1. CASE UNCHANGED rows
    BY <2>1
  <2>2. ASSUME NEW p \in Process, Insert(p), Anchored
        PROVE  \A r \in rows' \ rows :
                 r.from = "arrival" => ~ \E x \in rows : x.boot = r.boot /\ x.from = "clock"
    <3>1. PICK w \in pending[p] : rows' \subseteq rows \cup {w.row}
      BY <2>2 DEF Insert
    <3> QED
      BY <2>2, <3>1 DEF Anchored
  <2> QED
    BY <2>1, <2>2, Writers DEF server, Reject, Handle, Start, vars
<1> QED
  BY <1>1, <1>2, <1>3, Invariance, InvarianceOfOne, PTL DEF Spec, ArrivalIsLastResort

-----------------------------------------------------------------------------
(* The contract and the tables.  A value of JSON may be anything; where it *)
(* is a number, the bounds are compared with whole ones.                   *)

Number(raw) == raw.is \in {"int", "float"} => raw.n \in Int

\* What a field lets through, its column may hold.
Agrees(spec, checks) ==
  /\ spec.kind \in {"number", "integer", "choice", "flag"}
  /\ spec.kind \in {"number", "integer"} =>
       /\ spec.lo \in Int /\ spec.hi \in Int /\ spec.column \in DOMAIN checks
       /\ \A n \in Int : Within(spec, n) => n \in checks[spec.column]
  /\ spec.kind = "choice" =>
       /\ spec.column \notin DOMAIN checks
       /\ spec.column \in DOMAIN Words => spec.choices \subseteq Words[spec.column]
  /\ spec.kind = "flag" => spec.column \notin DOMAIN checks \cup DOMAIN Words

\* The columns that sample_location_whole and sample_altitude_whole relate.
Location == {"lat", "lon", "loc_acc_m", "alt_msl_m", "alt_acc_m"}

\* The bounds stay names below: the provers would list an interval of numbers.
LEMMA Bounds ==
  /\ MaxLux \in Int /\ Minute \in Int /\ TenMinutes \in Int
  /\ TenKm \in Int /\ NineKm \in Int
BY SMT DEF MaxLux, Minute, TenMinutes, TenKm, NineKm

LEMMA NumAgrees ==
  ASSUME NEW column, NEW lo \in Int, NEW hi \in Int, NEW checks,
         column \in DOMAIN checks, lo .. hi \subseteq checks[column]
  PROVE  /\ Agrees(Num(column, lo, hi), checks) /\ Agrees(Opt(Num(column, lo, hi)), checks)
         /\ Agrees(Count(column, lo, hi), checks) /\ Agrees(Opt(Count(column, lo, hi)), checks)
BY DEF Agrees, Num, Opt, Count, Within

LEMMA ValueHolds ==
  ASSUME NEW spec, NEW checks, Agrees(spec, checks), NEW raw, Number(raw),
         CheckValue(spec, raw) = "accepted"
  PROVE  Holds(checks, [column |-> spec.column, raw |-> raw])
<1>1. CASE spec.kind = "choice"
  BY <1>1 DEF Agrees, CheckValue, Verdict, Holds, Text
<1>2. CASE spec.kind = "flag"
  BY <1>2 DEF Agrees, Holds
<1>3. CASE spec.kind \in {"number", "integer"}
  <2>1. raw.is # "huge" /\ raw.n \in Int /\ Within(spec, raw.n)
    BY <1>3 DEF CheckValue, Verdict, Number
  <2> QED
    BY <1>3, <2>1 DEF Agrees, Holds
<1> QED
  BY <1>1, <1>2, <1>3 DEF Agrees, SMT

\* Group by group.
LEMMA BaroAgrees ==
  \A f \in DOMAIN SCHEMA.baro :
    Agrees(SCHEMA.baro[f], SampleChecks) /\ SCHEMA.baro[f].column \notin Location
<1>1. SCHEMA.baro = [hpa |-> Num("pressure_hpa", 300, 1100)]
  BY SMT DEF SCHEMA
<1>2. "pressure_hpa" \in DOMAIN SampleChecks /\ SampleChecks["pressure_hpa"] = 300 .. 1100
  BY SMT DEF SampleChecks
<1>3. Agrees(Num("pressure_hpa", 300, 1100), SampleChecks)
  BY <1>2, NumAgrees, Bounds, SMT
<1>4. \A f \in DOMAIN SCHEMA.baro : SCHEMA.baro[f].column \notin Location
  BY <1>1, SMT DEF Location, Num
<1> QED
  BY <1>1, <1>3, <1>4, SMT

LEMMA LightAgrees ==
  \A f \in DOMAIN SCHEMA.light :
    Agrees(SCHEMA.light[f], SampleChecks) /\ SCHEMA.light[f].column \notin Location
<1>1. SCHEMA.light = [lux |-> Num("illuminance_lux", 0, MaxLux)]
  BY SMT DEF SCHEMA
<1>2. "illuminance_lux" \in DOMAIN SampleChecks /\ SampleChecks["illuminance_lux"] = 0 .. MaxLux
  BY SMT DEF SampleChecks
<1>3. Agrees(Num("illuminance_lux", 0, MaxLux), SampleChecks)
  BY <1>2, NumAgrees, Bounds, SMT
<1>4. \A f \in DOMAIN SCHEMA.light : SCHEMA.light[f].column \notin Location
  BY <1>1, SMT DEF Location, Num
<1> QED
  BY <1>1, <1>3, <1>4, SMT

LEMMA SoundAgrees ==
  \A f \in DOMAIN SCHEMA.sound :
    Agrees(SCHEMA.sound[f], SampleChecks) /\ SCHEMA.sound[f].column \notin Location
<1>1. SCHEMA.sound = [rms_dbfs |-> Num("sound_rms_dbfs", -160, 0),
                      peak_dbfs |-> Num("sound_peak_dbfs", -160, 0)]
  BY SMT DEF SCHEMA
<1>2. "sound_rms_dbfs" \in DOMAIN SampleChecks /\ SampleChecks["sound_rms_dbfs"] = -160 .. 0
  BY SMT DEF SampleChecks
<1>3. Agrees(Num("sound_rms_dbfs", -160, 0), SampleChecks)
  BY <1>2, NumAgrees, Bounds, SMT
<1>4. "sound_peak_dbfs" \in DOMAIN SampleChecks /\ SampleChecks["sound_peak_dbfs"] = -160 .. 0
  BY SMT DEF SampleChecks
<1>5. Agrees(Num("sound_peak_dbfs", -160, 0), SampleChecks)
  BY <1>4, NumAgrees, Bounds, SMT
<1>6. \A f \in DOMAIN SCHEMA.sound : SCHEMA.sound[f].column \notin Location
  BY <1>1, SMT DEF Location, Num
<1> QED
  BY <1>1, <1>3, <1>5, <1>6, SMT

LEMMA AccelAgrees ==
  \A f \in DOMAIN SCHEMA.accel :
    Agrees(SCHEMA.accel[f], SampleChecks) /\ SCHEMA.accel[f].column \notin Location
<1>1. SCHEMA.accel = [rms |-> Num("accel_rms", 0, 160), peak |-> Num("accel_peak", 0, 160)]
  BY SMT DEF SCHEMA
<1>2. "accel_rms" \in DOMAIN SampleChecks /\ SampleChecks["accel_rms"] = 0 .. 160
  BY SMT DEF SampleChecks
<1>3. Agrees(Num("accel_rms", 0, 160), SampleChecks)
  BY <1>2, NumAgrees, Bounds, SMT
<1>4. "accel_peak" \in DOMAIN SampleChecks /\ SampleChecks["accel_peak"] = 0 .. 160
  BY SMT DEF SampleChecks
<1>5. Agrees(Num("accel_peak", 0, 160), SampleChecks)
  BY <1>4, NumAgrees, Bounds, SMT
<1>6. \A f \in DOMAIN SCHEMA.accel : SCHEMA.accel[f].column \notin Location
  BY <1>1, SMT DEF Location, Num
<1> QED
  BY <1>1, <1>3, <1>5, <1>6, SMT

LEMMA GyroAgrees ==
  \A f \in DOMAIN SCHEMA.gyro :
    Agrees(SCHEMA.gyro[f], SampleChecks) /\ SCHEMA.gyro[f].column \notin Location
<1>1. SCHEMA.gyro = [rms |-> Num("gyro_rms", 0, 40), peak |-> Num("gyro_peak", 0, 40)]
  BY SMT DEF SCHEMA
<1>2. "gyro_rms" \in DOMAIN SampleChecks /\ SampleChecks["gyro_rms"] = 0 .. 40
  BY SMT DEF SampleChecks
<1>3. Agrees(Num("gyro_rms", 0, 40), SampleChecks)
  BY <1>2, NumAgrees, Bounds, SMT
<1>4. "gyro_peak" \in DOMAIN SampleChecks /\ SampleChecks["gyro_peak"] = 0 .. 40
  BY SMT DEF SampleChecks
<1>5. Agrees(Num("gyro_peak", 0, 40), SampleChecks)
  BY <1>4, NumAgrees, Bounds, SMT
<1>6. \A f \in DOMAIN SCHEMA.gyro : SCHEMA.gyro[f].column \notin Location
  BY <1>1, SMT DEF Location, Num
<1> QED
  BY <1>1, <1>3, <1>5, <1>6, SMT

LEMMA MagAgrees ==
  \A f \in DOMAIN SCHEMA.mag :
    Agrees(SCHEMA.mag[f], SampleChecks) /\ SCHEMA.mag[f].column \notin Location
<1>1. SCHEMA.mag = [ut |-> Num("magnetic_ut", 0, 2000),
                    heading |-> Below(Num("heading_deg", 0, 360))]
  BY SMT DEF SCHEMA
<1>2. "magnetic_ut" \in DOMAIN SampleChecks /\ SampleChecks["magnetic_ut"] = 0 .. 2000
  BY SMT DEF SampleChecks
<1>3. Agrees(Num("magnetic_ut", 0, 2000), SampleChecks)
  BY <1>2, NumAgrees, Bounds, SMT
<1>4. "heading_deg" \in DOMAIN SampleChecks /\ SampleChecks["heading_deg"] = 0 .. 359
  BY SMT DEF SampleChecks
<1>5. Agrees(Below(Num("heading_deg", 0, 360)), SampleChecks)
  BY <1>4, SMT DEF Agrees, Below, Num, Within
<1>6. \A f \in DOMAIN SCHEMA.mag : SCHEMA.mag[f].column \notin Location
  BY <1>1, SMT DEF Location, Below, Num
<1> QED
  BY <1>1, <1>3, <1>5, <1>6, SMT

LEMMA BattAgrees ==
  \A f \in DOMAIN SCHEMA.batt :
    Agrees(SCHEMA.batt[f], SampleChecks) /\ SCHEMA.batt[f].column \notin Location
<1>1. SCHEMA.batt = [c |-> Num("battery_temp_c", -40, 100)]
  BY SMT DEF SCHEMA
<1>2. "battery_temp_c" \in DOMAIN SampleChecks /\ SampleChecks["battery_temp_c"] = -40 .. 100
  BY SMT DEF SampleChecks
<1>3. Agrees(Num("battery_temp_c", -40, 100), SampleChecks)
  BY <1>2, NumAgrees, Bounds, SMT
<1>4. \A f \in DOMAIN SCHEMA.batt : SCHEMA.batt[f].column \notin Location
  BY <1>1, SMT DEF Location, Num
<1> QED
  BY <1>1, <1>3, <1>4, SMT

LEMMA LocAgrees ==
  \A f \in DOMAIN SCHEMA.loc : Agrees(SCHEMA.loc[f], SampleChecks)
<1>1. SCHEMA.loc = [lat |-> Num("lat", -90, 90), lon |-> Num("lon", -180, 180),
                    acc |-> Num("loc_acc_m", 0, TenKm),
                    alt |-> Opt(Num("alt_msl_m", -500, NineKm)),
                    alt_acc |-> Opt(Num("alt_acc_m", 0, TenKm)),
                    spd |-> Opt(Num("speed_ms", 0, 350))]
  BY SMT DEF SCHEMA
<1>2. "lat" \in DOMAIN SampleChecks /\ SampleChecks["lat"] = -90 .. 90
  BY SMT DEF SampleChecks
<1>3. Agrees(Num("lat", -90, 90), SampleChecks)
  BY <1>2, NumAgrees, Bounds, SMT
<1>4. "lon" \in DOMAIN SampleChecks /\ SampleChecks["lon"] = -180 .. 180
  BY SMT DEF SampleChecks
<1>5. Agrees(Num("lon", -180, 180), SampleChecks)
  BY <1>4, NumAgrees, Bounds, SMT
<1>6. "loc_acc_m" \in DOMAIN SampleChecks /\ SampleChecks["loc_acc_m"] = 0 .. TenKm
  BY SMT DEF SampleChecks
<1>7. Agrees(Num("loc_acc_m", 0, TenKm), SampleChecks)
  BY <1>6, NumAgrees, Bounds, SMT
<1>8. "alt_msl_m" \in DOMAIN SampleChecks /\ SampleChecks["alt_msl_m"] = -500 .. NineKm
  BY SMT DEF SampleChecks
<1>9. Agrees(Opt(Num("alt_msl_m", -500, NineKm)), SampleChecks)
  BY <1>8, NumAgrees, Bounds, SMT
<1>10. "alt_acc_m" \in DOMAIN SampleChecks /\ SampleChecks["alt_acc_m"] = 0 .. TenKm
  BY SMT DEF SampleChecks
<1>11. Agrees(Opt(Num("alt_acc_m", 0, TenKm)), SampleChecks)
  BY <1>10, NumAgrees, Bounds, SMT
<1>12. "speed_ms" \in DOMAIN SampleChecks /\ SampleChecks["speed_ms"] = 0 .. 350
  BY SMT DEF SampleChecks
<1>13. Agrees(Opt(Num("speed_ms", 0, 350)), SampleChecks)
  BY <1>12, NumAgrees, Bounds, SMT
<1> QED
  BY <1>1, <1>3, <1>5, <1>7, <1>9, <1>11, <1>13, SMT

LEMMA NoiseAgrees ==
  \A f \in DOMAIN SCHEMA.noise :
    Agrees(SCHEMA.noise[f], SampleChecks) /\ SCHEMA.noise[f].column \notin Location
<1>1. SCHEMA.noise = [laeq |-> Num("noise_laeq_dbfs", -160, 0),
                      lamax |-> Num("noise_lamax_dbfs", -160, 0),
                      l10 |-> Opt(Num("noise_l10_dbfs", -160, 0)),
                      l90 |-> Opt(Num("noise_l90_dbfs", -160, 0))]
  BY SMT DEF SCHEMA
<1>2. "noise_laeq_dbfs" \in DOMAIN SampleChecks /\ SampleChecks["noise_laeq_dbfs"] = -160 .. 0
  BY SMT DEF SampleChecks
<1>3. Agrees(Num("noise_laeq_dbfs", -160, 0), SampleChecks)
  BY <1>2, NumAgrees, Bounds, SMT
<1>4. "noise_lamax_dbfs" \in DOMAIN SampleChecks /\ SampleChecks["noise_lamax_dbfs"] = -160 .. 0
  BY SMT DEF SampleChecks
<1>5. Agrees(Num("noise_lamax_dbfs", -160, 0), SampleChecks)
  BY <1>4, NumAgrees, Bounds, SMT
<1>6. "noise_l10_dbfs" \in DOMAIN SampleChecks /\ SampleChecks["noise_l10_dbfs"] = -160 .. 0
  BY SMT DEF SampleChecks
<1>7. Agrees(Opt(Num("noise_l10_dbfs", -160, 0)), SampleChecks)
  BY <1>6, NumAgrees, Bounds, SMT
<1>8. "noise_l90_dbfs" \in DOMAIN SampleChecks /\ SampleChecks["noise_l90_dbfs"] = -160 .. 0
  BY SMT DEF SampleChecks
<1>9. Agrees(Opt(Num("noise_l90_dbfs", -160, 0)), SampleChecks)
  BY <1>8, NumAgrees, Bounds, SMT
<1>10. \A f \in DOMAIN SCHEMA.noise : SCHEMA.noise[f].column \notin Location
  BY <1>1, SMT DEF Location, Num, Opt
<1> QED
  BY <1>1, <1>3, <1>5, <1>7, <1>9, <1>10, SMT

LEMMA CellAgrees ==
  \A f \in DOMAIN SCHEMA.cell :
    Agrees(SCHEMA.cell[f], SampleChecks) /\ SCHEMA.cell[f].column \notin Location
<1>1. SCHEMA.cell = [rat |-> Choice("cell_rat", {"lte", "nr"}),
                     rsrp |-> Num("cell_rsrp_dbm", -156, -31),
                     rsrq |-> Num("cell_rsrq_db", -43, 20),
                     sinr |-> Opt(Num("cell_sinr_db", -23, 40)),
                     band |-> Opt(Count("cell_band", 1, 1024))]
  BY SMT DEF SCHEMA
<1>2. Agrees(Choice("cell_rat", {"lte", "nr"}), SampleChecks)
  BY SMT DEF Agrees, Choice, SampleChecks, Words
<1>3. "cell_rsrp_dbm" \in DOMAIN SampleChecks /\ SampleChecks["cell_rsrp_dbm"] = -156 .. -31
  BY SMT DEF SampleChecks
<1>4. Agrees(Num("cell_rsrp_dbm", -156, -31), SampleChecks)
  BY <1>3, NumAgrees, Bounds, SMT
<1>5. "cell_rsrq_db" \in DOMAIN SampleChecks /\ SampleChecks["cell_rsrq_db"] = -43 .. 20
  BY SMT DEF SampleChecks
<1>6. Agrees(Num("cell_rsrq_db", -43, 20), SampleChecks)
  BY <1>5, NumAgrees, Bounds, SMT
<1>7. "cell_sinr_db" \in DOMAIN SampleChecks /\ SampleChecks["cell_sinr_db"] = -23 .. 40
  BY SMT DEF SampleChecks
<1>8. Agrees(Opt(Num("cell_sinr_db", -23, 40)), SampleChecks)
  BY <1>7, NumAgrees, Bounds, SMT
<1>9. "cell_band" \in DOMAIN SampleChecks /\ SampleChecks["cell_band"] = 1 .. 1024
  BY SMT DEF SampleChecks
<1>10. Agrees(Opt(Count("cell_band", 1, 1024)), SampleChecks)
  BY <1>9, NumAgrees, Bounds, SMT
<1>11. \A f \in DOMAIN SCHEMA.cell : SCHEMA.cell[f].column \notin Location
  <2> DEFINE band == Opt(Count("cell_band", 1, 1024))
  <2>1. SCHEMA.cell.band = band /\ DOMAIN SCHEMA.cell = {"rat", "rsrp", "rsrq", "sinr", "band"}
    BY <1>1, SMT
  <2>2. band.column = "cell_band"
    BY SMT DEF Opt, Count, Num
  <2> HIDE DEF band
  <2>3. \A f \in {"rat", "rsrp", "rsrq", "sinr"} : SCHEMA.cell[f].column \notin Location
    BY <1>1, SMT DEF Location, Choice, Num, Opt
  <2> QED
    BY <2>1, <2>2, <2>3, SMT DEF Location
<1> QED
  BY <1>1, <1>2, <1>4, <1>6, <1>8, <1>10, <1>11, SMT

LEMMA NetAgrees ==
  \A f \in DOMAIN SCHEMA.net :
    Agrees(SCHEMA.net[f], SampleChecks) /\ SCHEMA.net[f].column \notin Location
<1>1. SCHEMA.net = [via |-> Choice("net_via", {"wifi", "cell", "ethernet", "other"}),
                    vpn |-> Flag("net_vpn"), rtt |-> Opt(Num("net_rtt_ms", 0, Minute))]
  BY SMT DEF SCHEMA
<1>2. Agrees(Choice("net_via", {"wifi", "cell", "ethernet", "other"}), SampleChecks)
  BY SMT DEF Agrees, Choice, SampleChecks, Words
<1>3. Agrees(Flag("net_vpn"), SampleChecks)
  BY SMT DEF Agrees, Flag, SampleChecks, Words
<1>4. "net_rtt_ms" \in DOMAIN SampleChecks /\ SampleChecks["net_rtt_ms"] = 0 .. Minute
  BY SMT DEF SampleChecks
<1>5. Agrees(Opt(Num("net_rtt_ms", 0, Minute)), SampleChecks)
  BY <1>4, NumAgrees, Bounds, SMT
<1>6. \A f \in DOMAIN SCHEMA.net : SCHEMA.net[f].column \notin Location
  BY <1>1, SMT DEF Location, Choice, Flag, Num, Opt
<1> QED
  BY <1>1, <1>2, <1>3, <1>5, <1>6, SMT

LEMMA VibrationAgrees ==
  \A f \in DOMAIN KINDS.vibration : Agrees(KINDS.vibration[f], EventChecks)
<1>1. KINDS.vibration = [dur |-> Count("duration_ms", 1, TenMinutes),
                         pga |-> Num("pga_ms2", 0, 160), ratio |-> Num("sta_lta", 1, 1000),
                         freq |-> Opt(Num("freq_hz", 0, 100))]
  BY SMT DEF KINDS
<1>2. "duration_ms" \in DOMAIN EventChecks /\ EventChecks["duration_ms"] = 1 .. TenMinutes
  BY SMT DEF EventChecks
<1>3. Agrees(Count("duration_ms", 1, TenMinutes), EventChecks)
  BY <1>2, NumAgrees, Bounds, SMT
<1>4. "pga_ms2" \in DOMAIN EventChecks /\ EventChecks["pga_ms2"] = 0 .. 160
  BY SMT DEF EventChecks
<1>5. Agrees(Num("pga_ms2", 0, 160), EventChecks)
  BY <1>4, NumAgrees, Bounds, SMT
<1>6. "sta_lta" \in DOMAIN EventChecks /\ EventChecks["sta_lta"] = 1 .. 1000
  BY SMT DEF EventChecks
<1>7. Agrees(Num("sta_lta", 1, 1000), EventChecks)
  BY <1>6, NumAgrees, Bounds, SMT
<1>8. "freq_hz" \in DOMAIN EventChecks /\ EventChecks["freq_hz"] = 0 .. 100
  BY SMT DEF EventChecks
<1>9. Agrees(Opt(Num("freq_hz", 0, 100)), EventChecks)
  BY <1>8, NumAgrees, Bounds, SMT
<1> QED
  BY <1>1, <1>3, <1>5, <1>7, <1>9, SMT
LEMMA SchemaAgrees ==
  ASSUME NEW g \in DOMAIN SCHEMA, NEW f \in DOMAIN SCHEMA[g]
  PROVE  Agrees(SCHEMA[g][f], SampleChecks)
<1>1. g \in {"baro", "light", "sound", "accel", "gyro", "mag", "batt", "loc", "noise",
            "cell", "net"}
  BY SMT DEF SCHEMA
<1> QED
  BY <1>1, BaroAgrees, LightAgrees, SoundAgrees, AccelAgrees, GyroAgrees, MagAgrees,
     BattAgrees, LocAgrees, NoiseAgrees, CellAgrees, NetAgrees, Zenon

LEMMA OnlyLoc ==
  ASSUME NEW g \in DOMAIN SCHEMA, g # "loc", NEW f \in DOMAIN SCHEMA[g]
  PROVE  SCHEMA[g][f].column \notin Location
<1>1. g \in {"baro", "light", "sound", "accel", "gyro", "mag", "batt", "loc", "noise",
            "cell", "net"}
  BY SMT DEF SCHEMA
<1> QED
  BY <1>1, BaroAgrees, LightAgrees, SoundAgrees, AccelAgrees, GyroAgrees, MagAgrees,
     BattAgrees, NoiseAgrees, CellAgrees, NetAgrees, Zenon

\* Where they are in loc, and which of them it requires.
LEMMA InLoc ==
  /\ "loc" \in DOMAIN SCHEMA
  /\ \A f \in DOMAIN SCHEMA.loc :
       /\ SCHEMA.loc[f].column = "lat" <=> f = "lat"
       /\ SCHEMA.loc[f].column = "lon" <=> f = "lon"
       /\ SCHEMA.loc[f].column = "loc_acc_m" <=> f = "acc"
       /\ SCHEMA.loc[f].column = "alt_msl_m" <=> f = "alt"
       /\ SCHEMA.loc[f].column = "alt_acc_m" <=> f = "alt_acc"
  /\ {"lat", "lon", "acc", "alt", "alt_acc"} \subseteq DOMAIN SCHEMA.loc
  /\ \A f \in {"lat", "lon", "acc"} : SCHEMA.loc[f].required
<1>1. SCHEMA.loc = [lat |-> Num("lat", -90, 90), lon |-> Num("lon", -180, 180),
                    acc |-> Num("loc_acc_m", 0, TenKm), alt |-> Opt(Num("alt_msl_m", -500, NineKm)),
                    alt_acc |-> Opt(Num("alt_acc_m", 0, TenKm)), spd |-> Opt(Num("speed_ms", 0, 350))]
  BY SMT DEF SCHEMA
<1>2. "loc" \in DOMAIN SCHEMA
  BY SMT DEF SCHEMA
<1> QED
  BY <1>1, <1>2, SMT DEF Num, Opt

-----------------------------------------------------------------------------
(* What the parsers accept, the tables take.                               *)

LEMMA AcceptedValues ==
  ASSUME NEW spec, NEW body, CheckGroup(spec, body) = "accepted"
  PROVE  /\ DOMAIN body \subseteq DOMAIN spec
         /\ \A f \in DOMAIN spec : spec[f].required => f \in DOMAIN body
         /\ \A f \in DOMAIN body : CheckValue(spec[f], body[f]) = "accepted"
<1>1. /\ DOMAIN body \subseteq DOMAIN spec
      /\ \A f \in DOMAIN spec : spec[f].required => f \in DOMAIN body
  BY DEF CheckGroup
<1>2. Worst({ CheckValue(spec[f], body[f]) : f \in DOMAIN body }) = "accepted"
  BY DEF CheckGroup
<1>3. \A f \in DOMAIN body : CheckValue(spec[f], body[f]) \in {"accepted", "rejected", "throws"}
  BY DEF CheckValue, Verdict
<1> QED
  BY <1>1, <1>2, <1>3, SMT DEF Worst

Numbers(body) == \A f \in DOMAIN body : Number(body[f])

LEMMA GroupHolds ==
  ASSUME NEW spec, NEW checks, NEW body, CheckGroup(spec, body) = "accepted", Numbers(body),
         \A f \in DOMAIN spec : Agrees(spec[f], checks)
  PROVE  \A cell \in Columns(spec, body) : Holds(checks, cell)
<1> SUFFICES ASSUME NEW f \in DOMAIN body
             PROVE  Holds(checks, [column |-> spec[f].column, raw |-> body[f]])
  BY Zenon DEF Columns
<1>1. Agrees(spec[f], checks) /\ Number(body[f]) /\ CheckValue(spec[f], body[f]) = "accepted"
  BY AcceptedValues, Zenon DEF Numbers
<1> QED
  BY <1>1, ValueHolds, Zenon

\* A sample that samples.parse() accepts is a row that no CHECK of the table refuses,
\* whatever its fields hold: every column is in its range, the location whole or
\* absent, an accuracy of the altitude only beside the altitude
\* (samples.py:47-48, 007_samples.sql:27-42, 008_phone_revision.sql:9-30).
THEOREM SampleIsTaken ==
  ASSUME NEW m, \A g \in DOMAIN m.groups : Numbers(m.groups[g]), ParseSample(m) = "accepted"
  PROVE  SampleTaken(m)
<1> DEFINE verdicts == { CheckGroup(SCHEMA[g], m.groups[g]) : g \in DOMAIN m.groups }
                         \cup {CheckEnvelope(m.env), Verdict(m.win \in 100 .. Minute /\ Altitude(m.groups))}
           cells == UNION { Columns(SCHEMA[g], m.groups[g]) : g \in DOMAIN m.groups }
           set(column) == \E c \in cells : c.column = column
<1>1. DOMAIN m.groups \subseteq DOMAIN SCHEMA /\ Worst(verdicts) = "accepted"
  BY Zenon DEF ParseSample
<1>2. \A g \in DOMAIN m.groups : CheckGroup(SCHEMA[g], m.groups[g]) = "accepted"
  <2> SUFFICES ASSUME NEW g \in DOMAIN m.groups
               PROVE  CheckGroup(SCHEMA[g], m.groups[g]) = "accepted"
    OBVIOUS
  <2>1. CheckGroup(SCHEMA[g], m.groups[g]) \in {"accepted", "rejected", "throws"}
    BY Zenon DEF CheckGroup, Worst
  <2>2. CheckGroup(SCHEMA[g], m.groups[g]) \in verdicts
    BY Zenon
  <2> HIDE DEF verdicts
  <2> QED
    BY <1>1, <2>1, <2>2, Zenon DEF Worst
<1>3. m.win \in 100 .. Minute /\ Altitude(m.groups)
  <2>1. Verdict(m.win \in 100 .. Minute /\ Altitude(m.groups)) \in verdicts
    BY Zenon
  <2>2. CASE ~ (m.win \in 100 .. Minute /\ Altitude(m.groups))
    <3>1. "rejected" \in verdicts
      BY <2>1, <2>2, Zenon DEF Verdict
    <3> HIDE DEF verdicts
    <3> QED
      BY <1>1, <3>1, Zenon DEF Worst
  <2> QED
    BY <2>2, Zenon
<1>4. ASSUME NEW c \in cells PROVE Holds(SampleChecks, c)
  <2>1. PICK g \in DOMAIN m.groups : c \in Columns(SCHEMA[g], m.groups[g])
    BY <1>4, Zenon
  <2>2. \A f \in DOMAIN SCHEMA[g] : Agrees(SCHEMA[g][f], SampleChecks)
    BY <1>1, SchemaAgrees, Zenon
  <2> QED
    BY <1>2, <2>1, <2>2, GroupHolds, Zenon
<1>5. ASSUME NEW f \in {"lat", "lon", "acc", "alt", "alt_acc"}
      PROVE  set(SCHEMA.loc[f].column) <=> Has(m.groups, "loc", f)
  <2>1. SCHEMA.loc[f].column \in Location /\ f \in DOMAIN SCHEMA.loc
    BY InLoc, SMT DEF Location
  <2>2. ASSUME NEW c \in cells, c.column = SCHEMA.loc[f].column PROVE Has(m.groups, "loc", f)
    <3>1. PICK g \in DOMAIN m.groups : c \in Columns(SCHEMA[g], m.groups[g])
      BY <2>2, Zenon
    <3>2. PICK k \in DOMAIN m.groups[g] : c = [column |-> SCHEMA[g][k].column, raw |-> m.groups[g][k]]
      BY <3>1, Zenon DEF Columns
    <3>3. k \in DOMAIN SCHEMA[g] /\ g \in DOMAIN SCHEMA /\ SCHEMA[g][k].column = SCHEMA.loc[f].column
      <4>1. c.column = SCHEMA[g][k].column
        BY <3>2
      <4> QED
        BY <1>1, <1>2, <2>2, <4>1, AcceptedValues, Zenon
    <3>4. g = "loc"
      BY <2>1, <3>3, OnlyLoc, Zenon
    <3>5. k = f
      BY <3>3, <3>4, InLoc, SMT
    <3> QED
      BY <3>4, <3>5, Zenon DEF Has
  <2>3. ASSUME Has(m.groups, "loc", f) PROVE set(SCHEMA.loc[f].column)
    <3> DEFINE c == [column |-> SCHEMA.loc[f].column, raw |-> m.groups.loc[f]]
    <3>1. c \in Columns(SCHEMA.loc, m.groups.loc) /\ "loc" \in DOMAIN m.groups
      BY <2>3, Zenon DEF Columns, Has
    <3>2. c.column = SCHEMA.loc[f].column
      OBVIOUS
    <3> HIDE DEF c
    <3>3. c \in cells
      BY <3>1, Zenon
    <3> QED
      BY <3>2, <3>3, Zenon
  <2> QED
    BY <2>2, <2>3, Zenon
<1>6. /\ SCHEMA.loc.lat.column = "lat" /\ SCHEMA.loc.lon.column = "lon"
      /\ SCHEMA.loc.acc.column = "loc_acc_m" /\ SCHEMA.loc.alt.column = "alt_msl_m"
      /\ SCHEMA.loc.alt_acc.column = "alt_acc_m"
  BY InLoc, SMT
<1> HIDE DEF set, verdicts
<1>7. ASSUME "loc" \in DOMAIN m.groups, NEW f \in {"lat", "lon", "acc"}
      PROVE  Has(m.groups, "loc", f)
  <2>1. CheckGroup(SCHEMA.loc, m.groups.loc) = "accepted"
    BY <1>2, <1>7, Zenon
  <2>2. f \in DOMAIN SCHEMA.loc /\ SCHEMA.loc[f].required
    BY InLoc, SMT
  <2>3. f \in DOMAIN m.groups.loc
    BY <2>1, <2>2, AcceptedValues, Zenon
  <2> QED
    BY <1>7, <2>3, Zenon DEF Has
<1>8. set("lat") = set("lon") /\ set("lat") = set("loc_acc_m")
  <2>1. /\ set("lat") <=> Has(m.groups, "loc", "lat")
        /\ set("lon") <=> Has(m.groups, "loc", "lon")
        /\ set("loc_acc_m") <=> Has(m.groups, "loc", "acc")
    BY <1>5, <1>6, Zenon
  <2>2. /\ Has(m.groups, "loc", "lat") <=> "loc" \in DOMAIN m.groups
        /\ Has(m.groups, "loc", "lon") <=> "loc" \in DOMAIN m.groups
        /\ Has(m.groups, "loc", "acc") <=> "loc" \in DOMAIN m.groups
    BY <1>7, Zenon DEF Has
  <2> QED
    BY <2>1, <2>2, Zenon DEF set
<1>9. set("alt_acc_m") => set("alt_msl_m")
  BY <1>3, <1>5, <1>6, Zenon DEF Altitude
<1> QED
  BY <1>3, <1>4, <1>8, <1>9, Zenon DEF SampleTaken, set

\* And so is an event that events.parse() accepts (008_phone_revision.sql:46-49).
THEOREM EventIsTaken ==
  ASSUME NEW m, Numbers(m.fields), ParseEvent(m) = "accepted"
  PROVE  EventTaken(m)
<1>1. /\ m.kind \in DOMAIN KINDS
      /\ Worst({CheckEnvelope(m.env), CheckGroup(KINDS[m.kind], m.fields)}) = "accepted"
  BY Zenon DEF ParseEvent
<1>2. m.kind = "vibration"
  BY <1>1, SMT DEF KINDS
<1>3. CheckGroup(KINDS.vibration, m.fields) \in {"accepted", "rejected", "throws"}
  BY Zenon DEF CheckGroup, Worst
<1>4. CheckGroup(KINDS.vibration, m.fields) = "accepted"
  BY <1>1, <1>2, <1>3, Zenon DEF Worst
<1>5. \A c \in Columns(KINDS.vibration, m.fields) : Holds(EventChecks, c)
  BY <1>4, VibrationAgrees, GroupHolds, Zenon
<1>6. \A f \in {"dur", "pga", "ratio"} : f \in DOMAIN KINDS.vibration /\ KINDS.vibration[f].required
  <2>1. Count("duration_ms", 1, TenMinutes).required
    BY SMT DEF Count, Num
  <2> QED
    BY <2>1, SMT DEF KINDS, Num
<1> QED
  BY <1>2, <1>4, <1>5, <1>6, AcceptedValues, Zenon DEF EventTaken

\* Of what is tried, the numbers are whole ones.
Kinded(spec) == spec.kind \in {"number", "integer"} => spec.lo \in Int /\ spec.hi \in Int

LEMMA ValuesAreNumbers ==
  ASSUME NEW spec, Kinded(spec), spec.kind \in {"number", "integer", "choice", "flag"}
  PROVE  Number(Usual(spec)) /\ \A v \in Tried(spec) : Number(v)
<1>1. CASE spec.kind = "choice"
  BY <1>1, SMT DEF Usual, Tried, Number, Null, Bool, Text, Huge, Infinite
<1>2. CASE spec.kind = "flag"
  BY <1>2, SMT DEF Usual, Tried, Number, Null, Bool, Text, Huge, Infinite, Int_
<1>3. CASE spec.kind \in {"number", "integer"}
  <2>1. spec.lo \in Int /\ spec.hi \in Int
    BY <1>3 DEF Kinded
  <2>2. Number(Usual(spec))
    BY <1>3, <2>1, SMT DEF Usual, Number, Int_
  <2>3. ASSUME NEW n \in Int PROVE Number(Int_(n)) /\ Number(Float(n))
    BY SMT DEF Number, Int_, Float
  <2>4. ASSUME NEW v \in {Null, Bool, Text("neither"), Huge, Infinite} PROVE Number(v)
    BY SMT DEF Number, Null, Bool, Text, Huge, Infinite
  <2>5. \A n \in {spec.lo - 1, spec.lo, spec.hi - 1, spec.hi, spec.hi + 1} : n \in Int
    BY <2>1, SMT
  <2>6. Tried(spec) = {Null, Bool, Text("neither"), Huge, Infinite} \cup
          UNION { {Int_(n), Float(n)} : n \in {spec.lo - 1, spec.lo, spec.hi - 1, spec.hi, spec.hi + 1} }
    <3>1. spec.kind # "choice" /\ spec.kind # "flag"
      BY <1>3, SMT
    <3> QED
      BY <3>1, Zenon DEF Tried
  <2>7. ASSUME NEW v \in Tried(spec) PROVE Number(v)
    <3> DEFINE bounds == {spec.lo - 1, spec.lo, spec.hi - 1, spec.hi, spec.hi + 1}
    <3>1. v \in {Null, Bool, Text("neither"), Huge, Infinite}
            \/ \E n \in bounds : v \in {Int_(n), Float(n)}
      <4> HIDE DEF bounds
      <4> QED
        BY <2>6, Zenon DEF bounds
    <3>2. CASE \E n \in bounds : v \in {Int_(n), Float(n)}
      <4>1. PICK n \in bounds : v = Int_(n) \/ v = Float(n)
        BY <3>2, Zenon
      <4>2. n \in Int
        BY <2>5, Zenon
      <4> QED
        BY <2>3, <4>1, <4>2, Zenon
    <3> QED
      BY <2>4, <3>1, <3>2, Zenon
  <2> QED
    BY <2>2, <2>7
<1> QED
  BY <1>1, <1>2, <1>3, SMT

LEMMA BodiesAreNumbers ==
  ASSUME NEW spec, NEW checks, \A f \in DOMAIN spec : Agrees(spec[f], checks),
         NEW b \in Bodies(spec)
  PROVE  Numbers(b)
<1> DEFINE part(S) == [f \in S |-> Usual(spec[f])]
           other(f, v) == [part(DOMAIN spec) EXCEPT ![f] = v]
           misspelt == [f \in DOMAIN spec \cup {"misspelt"} |-> IF f = "misspelt" THEN Bool ELSE Usual(spec[f])]
<1>1. ASSUME NEW f \in DOMAIN spec
      PROVE  Number(Usual(spec[f])) /\ \A v \in Tried(spec[f]) : Number(v)
  <2>1. Kinded(spec[f]) /\ spec[f].kind \in {"number", "integer", "choice", "flag"}
    BY Zenon DEF Agrees, Kinded
  <2> QED
    BY <2>1, ValuesAreNumbers, Zenon
<1>2. CASE \E S \in SUBSET DOMAIN spec : b = part(S)
  BY <1>1, <1>2, SMT DEF Numbers
<1>3. CASE \E f \in DOMAIN spec : \E v \in Tried(spec[f]) : b = other(f, v)
  <2>1. PICK f \in DOMAIN spec : \E v \in Tried(spec[f]) : b = other(f, v)
    BY <1>3
  <2>3. PICK v \in Tried(spec[f]) : b = other(f, v)
    BY <2>1
  <2>2. DOMAIN b = DOMAIN spec /\ \A k \in DOMAIN spec : b[k] = IF k = f THEN v ELSE Usual(spec[k])
    BY <2>3, SMT
  <2> QED
    BY <1>1, <2>2, Zenon DEF Numbers
<1>4. CASE b = misspelt
  <2>1. Number(Bool)
    BY SMT DEF Number, Bool
  <2> QED
    BY <1>1, <1>4, <2>1, SMT DEF Numbers
<1> DEFINE parts == { part(S) : S \in SUBSET DOMAIN spec }
           others == UNION { { other(f, v) : v \in Tried(spec[f]) } : f \in DOMAIN spec }
<1>5. Bodies(spec) = parts \cup {misspelt} \cup others
  BY DEF Bodies
<1> HIDE DEF part, other, misspelt
<1>6. b \in parts => \E S \in SUBSET DOMAIN spec : b = part(S)
  BY Zenon
<1>7. b \in others => \E f \in DOMAIN spec : \E v \in Tried(spec[f]) : b = other(f, v)
  BY Zenon
<1> HIDE DEF parts, others
<1> QED
  BY <1>2, <1>3, <1>4, <1>5, <1>6, <1>7, Zenon

LEMMA NoneTriedIsRefused == RangesAgree
<1>1. ASSUME NEW m \in Samples PROVE \A g \in DOMAIN m.groups : Numbers(m.groups[g])
  <2>1. Numbers(<< >>)
    BY SMT DEF Numbers
  <2>2. ASSUME m.groups = Barometer PROVE \A g \in DOMAIN m.groups : Numbers(m.groups[g])
    BY <2>2, SMT DEF Barometer, Numbers, Number, Int_
  <2>3. ASSUME m.groups \in {<< >>, [barometer |-> << >>]}
        PROVE  \A g \in DOMAIN m.groups : Numbers(m.groups[g])
    BY <2>1, <2>3, SMT
  <2>4. ASSUME NEW g \in DOMAIN SCHEMA, NEW b \in Bodies(SCHEMA[g]), m.groups = [k \in {g} |-> b]
        PROVE  \A k \in DOMAIN m.groups : Numbers(m.groups[k])
    <3>1. Numbers(b)
      BY SchemaAgrees, BodiesAreNumbers, Zenon
    <3> QED
      BY <2>4, <3>1, SMT
  <2>5. \/ m.groups = Barometer
        \/ m.groups \in {<< >>, [barometer |-> << >>]}
        \/ \E g \in DOMAIN SCHEMA : \E b \in Bodies(SCHEMA[g]) : m.groups = [k \in {g} |-> b]
    <3> DEFINE enveloped(e) == [env |-> e, win |-> 2000, groups |-> Barometer]
               windowed(win) == [env |-> Envelope, win |-> win, groups |-> Barometer]
               grouped(gs) == [env |-> Envelope, win |-> 2000, groups |-> gs]
               wins == {99, 100, Minute, Minute + 1}
    <3>1. Samples = { enveloped(e) : e \in Envelopes } \cup { windowed(win) : win \in wins }
                      \cup { grouped(gs) : gs \in {<< >>, [barometer |-> << >>]} }
                      \cup UNION { { grouped([k \in {g} |-> b]) : b \in Bodies(SCHEMA[g]) } : g \in DOMAIN SCHEMA }
      BY DEF Samples
    <3>2. /\ \A e : enveloped(e).groups = Barometer
          /\ \A win : windowed(win).groups = Barometer
          /\ \A gs : grouped(gs).groups = gs
      OBVIOUS
    <3> HIDE DEF enveloped, windowed, grouped, wins
    <3>3. \/ \E e \in Envelopes : m = enveloped(e)
          \/ \E win \in wins : m = windowed(win)
          \/ \E gs \in {<< >>, [barometer |-> << >>]} : m = grouped(gs)
          \/ \E g \in DOMAIN SCHEMA : \E b \in Bodies(SCHEMA[g]) : m = grouped([k \in {g} |-> b])
      <4> DEFINE A == { enveloped(e) : e \in Envelopes }
                 B == { windowed(win) : win \in wins }
                 C == { grouped(gs) : gs \in {<< >>, [barometer |-> << >>]} }
                 D == UNION { { grouped([k \in {g} |-> b]) : b \in Bodies(SCHEMA[g]) } : g \in DOMAIN SCHEMA }
      <4>1. Samples = A \cup B \cup C \cup D
        BY <3>1
      <4>2. m \in A => \E e \in Envelopes : m = enveloped(e)
        BY Zenon
      <4>3. m \in B => \E win \in wins : m = windowed(win)
        BY Zenon
      <4>4. m \in C => \E gs \in {<< >>, [barometer |-> << >>]} : m = grouped(gs)
        BY Zenon
      <4>5. m \in D => \E g \in DOMAIN SCHEMA : \E b \in Bodies(SCHEMA[g]) : m = grouped([k \in {g} |-> b])
        BY Zenon
      <4> HIDE DEF A, B, C, D
      <4> QED
        BY <4>1, <4>2, <4>3, <4>4, <4>5, Zenon
    <3> QED
      BY <3>2, <3>3
  <2> QED
    BY <2>2, <2>3, <2>4, <2>5, Zenon
<1>2. ASSUME NEW m \in Samples PROVE FateOf("sample", m) # "refused"
  BY <1>1, SampleIsTaken, SMT DEF FateOf, Fate
<1>3. ASSUME NEW m \in Events PROVE Numbers(m.fields)
  <2>1. ASSUME NEW f \in DOMAIN KINDS.vibration PROVE Number(Usual(KINDS.vibration[f]))
    <3>1. Agrees(KINDS.vibration[f], EventChecks)
      BY VibrationAgrees
    <3> QED
      BY <3>1, ValuesAreNumbers, Zenon DEF Agrees, Kinded
  <2>2. \/ m.fields = [f \in DOMAIN KINDS.vibration |-> Usual(KINDS.vibration[f])]
        \/ m.fields \in Bodies(KINDS.vibration)
    BY SMT DEF Events
  <2>3. CASE m.fields \in Bodies(KINDS.vibration)
    BY <2>3, VibrationAgrees, BodiesAreNumbers, Zenon
  <2>4. CASE m.fields = [f \in DOMAIN KINDS.vibration |-> Usual(KINDS.vibration[f])]
    BY <2>1, <2>4, SMT DEF Numbers
  <2> QED
    BY <2>2, <2>3, <2>4
<1>4. ASSUME NEW m \in Events PROVE FateOf("event", m) # "refused"
  BY <1>3, EventIsTaken, SMT DEF FateOf, Fate
<1>5. /\ Fates.sample = { FateOf("sample", m) : m \in Samples }
      /\ Fates.event = { FateOf("event", m) : m \in Events }
  BY SMT DEF Fates
<1> QED
  BY <1>2, <1>4, <1>5, Zenon DEF RangesAgree

-----------------------------------------------------------------------------
(* Of a message, what is taken is what was tried.                          *)

FatesKnown == \A m \in taken : m.kind \in Kinds /\ m.shape \in {"good"} \cup Fates[m.kind]

LEMMA FatesStay == FatesKnown /\ [Next]_vars => FatesKnown'
<1> SUFFICES ASSUME FatesKnown, [Next]_vars PROVE FatesKnown'
  OBVIOUS
<1>1. ASSUME NEW kind \in Kinds, Take(kind) PROVE FatesKnown'
  <2>1. PICK claimed \in BOOLEAN, err \in ClockErrors :
          \E shape \in {"good"} \cup IF Strange < MaxStrange THEN Fates[kind] ELSE {} :
            taken' = taken \cup
              {[boot |-> boot, kind |-> kind, seq |-> NextSeq(kind),
                up |-> now - start[boot], claimed |-> claimed,
                ts |-> IF claimed THEN now + err ELSE 0, shape |-> shape]}
    BY <1>1, Zenon DEF Take
  <2>2. PICK shape \in {"good"} \cup IF Strange < MaxStrange THEN Fates[kind] ELSE {} :
          taken' = taken \cup
            {[boot |-> boot, kind |-> kind, seq |-> NextSeq(kind),
              up |-> now - start[boot], claimed |-> claimed,
              ts |-> IF claimed THEN now + err ELSE 0, shape |-> shape]}
    BY <2>1, Zenon
  <2>3. shape \in {"good"} \cup Fates[kind]
    OBVIOUS
  <2> QED
    BY <2>2, <2>3, SMT DEF FatesKnown
<1>2. CASE UNCHANGED taken
  BY <1>2 DEF FatesKnown
<1>3. \/ \E kind \in Kinds : Take(kind)
      \/ UNCHANGED taken
  BY DEF Next, vars, device, Tick, DeviceBoots, Serve, Reject, Handle,
         HandleThrows, Insert, InsertThrows, Crash, Start
<1> QED
  BY <1>1, <1>2, <1>3

\* What the second contract lets through, its tables take: whatever a message of
\* it holds in its fields, and so whatever message ingestion is handed
\* (samples.py:47-48, 007_samples.sql:27-29).
THEOREM ContractMeetsTables == Spec => []ParsedIsTaken
<1>1. Init => FatesKnown
  BY DEF Init, FatesKnown
<1>2. FatesKnown => ParsedIsTaken
  <2> SUFFICES ASSUME FatesKnown, NEW m \in taken, m.shape = "refused" PROVE m.kind = "reading"
    BY NoneTriedIsRefused DEF ParsedIsTaken
  <2>1. m.kind \in {"reading", "sample", "event"} /\ "refused" \in Fates[m.kind]
    BY IngestDataAssumption DEF FatesKnown
  <2> QED
    BY <2>1, NoneTriedIsRefused DEF RangesAgree
<1> QED
  BY <1>1, <1>2, FatesStay, PTL DEF Spec
=============================================================================
