-------------------------- MODULE NodeDeliveryProofs --------------------------
(***************************************************************************)
(* Proofs about the node's loop, for every size of store and window, every *)
(* number of readings, power cuts and failures, and all times that the     *)
(* theorems' hypotheses admit.                                             *)
(*                                                                         *)
(* D is how long after a ping was sent its answer may be read, for what is *)
(* sent behind that ping.  An entry sent just behind a ping is told        *)
(* nothing by the answer; KeepAlive and a pass after the answer the next   *)
(* ping is sent, and KeepAlive and a pass after that a stream that died is *)
(* closed.                                                                 *)
(***************************************************************************)
EXTENDS NodeDelivery, FiniteSetTheorems, WellFoundedInduction, TLAPS

Entry == [r : Reading, age : 0 .. (Horizon + 1)]

\* TypeOK in parts, and the image no longer than the store.
NodeTyped ==
  /\ pc \in {"off", "net", "reclaim", "requeue", "drain", "draining", "sample", "handoff",
             "commit"}
  /\ window \in Seq(Entry) /\ Len(window) <= WindowCapacity
  /\ handed \in Seq(Reading)
  /\ drained \in 0 .. DrainBatch /\ sinceRead \in 0 .. ReadPeriod

StoreTyped ==
  /\ queue \in Seq(Reading) /\ Len(queue) <= StoreCapacity
  /\ image \in Seq(Reading) /\ Len(image) <= StoreCapacity
  /\ behind \in 0 .. (StoreCapacity - 1) /\ fails \in 0 .. MaxFails

FlagsTyped ==
  /\ wifi \in BOOLEAN /\ conn \in BOOLEAN /\ pingOut \in BOOLEAN
  /\ alive \in BOOLEAN /\ answer \in BOOLEAN /\ unseen \in BOOLEAN

LinkTyped ==
  /\ wire \in Seq(Reading \cup {Ping})
  /\ sinceIn \in 0 .. (KeepAlive + 1) /\ sinceOut \in 0 .. (KeepAlive + 1)
  /\ sincePass \in 0 .. MaxPass /\ cuts \in 0 .. MaxCuts

HistoryTyped ==
  /\ taken \in 0 .. MaxReadings /\ published \subseteq Reading /\ delivered \subseteq Reading
  /\ counted \subseteq Reading /\ exposed \subseteq Reading /\ cutLost \subseteq Reading
  /\ misplaced \subseteq Reading

Typed == NodeTyped /\ StoreTyped /\ FlagsTyped /\ LinkTyped /\ HistoryTyped

\* What each step of loop() leaves behind, and a client without a session.
Phases ==
  /\ pc = "off" => window = <<>> /\ queue = <<>> /\ behind = 0 /\ ~ conn /\ sincePass = 0
  /\ pc # "requeue" => handed = <<>>
  /\ pc # "net" => sincePass = 0
  /\ alive => conn
  /\ ~ alive => wire = <<>>
  /\ ~ conn => ~ answer /\ ~ pingOut
  /\ pc \in {"handoff", "commit"} => taken >= 1

\* What the node ever handed to a stream, and what it ever took.
Known ==
  /\ Readings(window) \cup Elements(handed) \cup delivered \cup exposed \subseteq published
  /\ Elements(wire) \subseteq published \cup {Ping}
  /\ published \cup counted \cup cutLost \cup misplaced \cup Elements(queue) \cup Elements(image)
       \subseteq 1 .. (IF pc = "handoff" THEN taken - 1 ELSE taken)

TInv == Typed /\ Phases /\ Known

-----------------------------------------------------------------------------
(* Time.                                                                   *)

\* The time since the client last heard the broker, past the largest value it keeps.
Silence == IF sinceIn <= KeepAlive THEN sinceIn ELSE KeepAlive + sincePass

\* One ping is out at a time: unread, or answered.
OnePing ==
  /\ answer => pingOut
  /\ \A i \in DOMAIN wire : wire[i] = Ping =>
       pingOut /\ ~ answer /\ \A j \in DOMAIN wire : wire[j] = Ping => j = i

\* The window is about to be reclaimed.
Over == pc = "reclaim" /\ (unseen \/ ~ conn)

Undelivered == { i \in DOMAIN window : window[i].r \notin delivered }

\* Only a ping that was sent later says anything of an entry.
Follows(i, n) ==
  alive => \E j \in DOMAIN wire :
             wire[j] = window[i].r /\ \A k \in 1 .. j - 1 : wire[k] = Ping => window[i].age <= n

InTime(D, i) ==
  LET age == window[i].age
  IN  /\ conn /\ ~ Over =>
           /\ age <= D + KeepAlive + MaxPass + Silence
           /\ ~ pingOut => age <= D + Silence
           /\ answer => age <= Silence /\ (D = KeepAlive \/ age + MaxPass <= D + sincePass)
           /\ Follows(i, Silence)
      /\ ~ conn /\ ~ Over => age <= D + 2 * KeepAlive + MaxPass + sincePass
      /\ Over => age <= D + 2 * KeepAlive + 2 * MaxPass

Timely(D) == \A i \in Undelivered : InTime(D, i)

\* An entry behind an unread ping on a stream that lives is no older than this.
ReadBy(n) ==
  alive => \A i \in DOMAIN window : \A j, k \in DOMAIN wire :
             j < k /\ wire[j] = Ping /\ wire[k] = window[i].r => window[i].age <= n

AInv(D) == OnePing /\ Timely(D)

-----------------------------------------------------------------------------
(* The store and its image.                                                *)

\* A slot of the image holds what the store still has there, or what was sent or
\* counted since, or the reading whose header is not committed.
Slots ==
  pc # "off" =>
    \A i \in DOMAIN image :
      \/ image[i] \in published \cup counted \cup Handing
      \/ i - behind \in DOMAIN queue /\ image[i] = queue[i - behind]

Unsent == 1 .. taken \subseteq published \cup counted \cup cutLost \cup Handing \cup Elements(image)

InRing == pc = "commit" => taken \in Elements(queue)

-----------------------------------------------------------------------------
(* What is held once.                                                      *)

Once(s) == \A i, j \in DOMAIN s : s[i] = s[j] => i = j

WindowOnce == \A i, j \in DOMAIN window : window[i].r = window[j].r => i = j

Apart ==
  /\ WindowOnce /\ Once(handed) /\ Once(queue) /\ Once(image)
  /\ Readings(window) \cap (Elements(handed) \cup Elements(queue)) = {}
  /\ Elements(handed) \cap (Elements(queue) \cup Elements(image)) = {}

\* Between a commit and the next change the image is the store.
Clean == {"net", "reclaim", "drain", "sample", "handoff"}
Committed == pc \in Clean => image = queue /\ behind = 0

\* What was never sent waits in the order it was taken, behind what may be out of it.
InOrder(s, sent, out) ==
  \A i, j \in DOMAIN s : i < j => s[i] \in out \/ s[j] \in sent \/ s[i] < s[j]

Ordered ==
  /\ InOrder(queue, published, published \cup misplaced)
  /\ InOrder(image, published, published \cup misplaced \cup Handing)

HInv == Apart /\ Committed /\ Ordered

-----------------------------------------------------------------------------
(* The headroom.                                                           *)

Least(a, b) == IF a <= b THEN a ELSE b

\* Ages fall along the window, and behind the last entry that was drained there is
\* one for each period at most.
Falling == \A i, j \in DOMAIN window : i < j => window[i].age >= window[j].age

\* Time since the last reading that went its way.
SinceHanded == IF pc = "handoff" THEN ReadPeriod ELSE sinceRead

Fresh == pc = "handoff" => sinceRead = 0

SpreadFrom(d) ==
  \A i \in d + 1 .. Len(window) :
    window[i].age >= Least(Horizon + 1, SinceHanded + (Len(window) - i) * ReadPeriod)

Spaced ==
  /\ Falling
  /\ \E d \in 0 .. Len(window) : d <= WindowCapacity - Headroom /\ SpreadFrom(d)

-----------------------------------------------------------------------------
(* Sequences, slots and ages.                                              *)

LEMMA Bounds ==
  /\ StoreCapacity \in Nat /\ StoreCapacity > 0 /\ WindowCapacity \in Nat /\ WindowCapacity > 0
  /\ DrainBatch \in Nat /\ DrainBatch > 0 /\ SendBuffer \in Nat
  /\ KeepAlive \in Nat /\ Horizon \in Nat /\ ReadPeriod \in Nat
  /\ MaxPass \in Nat /\ MaxPass > 0
  /\ MaxReadings \in Nat /\ MaxCuts \in Nat /\ MaxFails \in Nat
BY BoundsAssumption, SizesAssumption, TimesAssumption

\* What expire() leaves is the window without some entries at its front, each past
\* the horizon; the first one left, if any, is inside it.
LEMMA Expiry ==
  ASSUME NEW w \in Seq(Entry)
  PROVE  \E m \in 0 .. Len(w) :
           /\ Expired(w) = SubSeq(w, m + 1, Len(w))
           /\ \A i \in 1 .. m : w[i].age > Horizon
           /\ m < Len(w) => w[m + 1].age <= Horizon
<1> DEFINE inside == { i \in DOMAIN w : w[i].age <= Horizon }
<1>1. Len(w) \in Nat /\ DOMAIN w = 1 .. Len(w) /\ \A i \in DOMAIN w : w[i].age \in Nat
  <2>1. ASSUME NEW i \in DOMAIN w PROVE w[i].age \in Nat
    <3>1. w[i] \in Entry
      OBVIOUS
    <3> QED
      BY <3>1, Bounds DEF Entry
  <2> QED
    BY <2>1
<1>2. CASE inside = {}
  <2>1. Expired(w) = <<>>
    BY <1>2 DEF Expired
  <2>2. SubSeq(w, Len(w) + 1, Len(w)) = <<>>
    BY <1>1
  <2>3. \A i \in 1 .. Len(w) : w[i].age > Horizon
    BY <1>1, <1>2, Bounds
  <2> QED
    BY <1>1, <2>1, <2>2, <2>3
<1>3. CASE inside # {}
  <2> DEFINE IsFirst(i) == i \in inside /\ \A j \in inside : i <= j
             first == CHOOSE i \in inside : \A j \in inside : i <= j
  <2>1. \E i \in inside : \A j \in inside : i <= j
    <3>1. OpToRel(<, Nat) = { p \in Nat \X Nat : p[1] < p[2] }
      BY DEF OpToRel
    <3>2. inside \in SUBSET Nat
      BY <1>1
    <3> HIDE DEF inside
    <3>3. PICK i \in inside : \A k \in inside : ~ (<<k, i>> \in OpToRel(<, Nat))
      BY <1>3, <3>2, NatLessThanWellFounded, WFMin
    <3>4. ASSUME NEW k \in inside PROVE ~ (k < i)
      <4>1. <<k, i>> \notin { p \in Nat \X Nat : p[1] < p[2] }
        BY <3>1, <3>3, Zenon
      <4> QED
        BY <3>2, <4>1
    <3> QED
      BY <3>2, <3>4
  <2>2. first \in inside /\ \A j \in inside : first <= j
    <3> HIDE DEF inside
    <3> QED
      BY <2>1
  <2>3. Expired(w) = SubSeq(w, first, Len(w))
    BY <1>3 DEF Expired
  <2> HIDE DEF first
  <2>4. first \in 1 .. Len(w) /\ w[first].age <= Horizon
    BY <1>1, <2>2
  <2>5. \A i \in 1 .. first - 1 : w[i].age > Horizon
    <3> SUFFICES ASSUME NEW i \in 1 .. first - 1 PROVE w[i].age > Horizon
      OBVIOUS
    <3>1. i \in DOMAIN w /\ ~ (first <= i)
      BY <1>1, <2>4
    <3>2. i \notin inside
      BY <2>2, <3>1
    <3> QED
      BY <1>1, <3>1, <3>2, Bounds
  <2>6. first - 1 \in 0 .. Len(w) /\ first - 1 + 1 = first
    BY <1>1, <2>4
  <2> QED
    BY <1>1, <2>3, <2>4, <2>5, <2>6
<1> QED
  BY <1>2, <1>3

\* The rest of a sequence behind its first m elements.
LEMMA Behind ==
  ASSUME NEW T, NEW w \in Seq(T), NEW m \in 0 .. Len(w), NEW v, v = SubSeq(w, m + 1, Len(w))
  PROVE  /\ v \in Seq(T) /\ Len(v) = Len(w) - m /\ DOMAIN v = 1 .. Len(w) - m
         /\ \A i \in DOMAIN v : i + m \in DOMAIN w /\ v[i] = w[i + m]
OBVIOUS

LEMMA ElementsOf ==
  ASSUME NEW T, NEW s \in Seq(T)
  PROVE  /\ Elements(s) \subseteq T
         /\ \A e : Elements(Append(s, e)) = Elements(s) \cup {e}
         /\ s # <<>> => Elements(s) = {Head(s)} \cup Elements(Tail(s))
<1>1. Elements(s) \subseteq T
  BY DEF Elements
<1>2. ASSUME NEW e PROVE Elements(Append(s, e)) = Elements(s) \cup {e}
  <2>1. DOMAIN Append(s, e) = DOMAIN s \cup {Len(s) + 1} /\ Append(s, e)[Len(s) + 1] = e
        /\ \A i \in DOMAIN s : Append(s, e)[i] = s[i]
    OBVIOUS
  <2> QED
    BY <2>1 DEF Elements
<1>3. ASSUME s # <<>> PROVE Elements(s) = {Head(s)} \cup Elements(Tail(s))
  <2>1. Len(s) \in Nat /\ Len(s) > 0 /\ DOMAIN s = 1 .. Len(s) /\ Head(s) = s[1]
        /\ DOMAIN Tail(s) = 1 .. Len(s) - 1
        /\ \A i \in 1 .. Len(s) - 1 : Tail(s)[i] = s[i + 1]
    BY <1>3
  <2>2. ASSUME NEW i \in DOMAIN s PROVE s[i] \in {Head(s)} \cup Elements(Tail(s))
    <3>1. CASE i = 1
      BY <2>1, <3>1
    <3>2. CASE i # 1
      <4>1. i - 1 \in 1 .. Len(s) - 1 /\ s[i] = Tail(s)[i - 1]
        BY <2>1, <3>2
      <4> QED
        BY <2>1, <4>1 DEF Elements
    <3> QED
      BY <3>1, <3>2
  <2>3. ASSUME NEW i \in DOMAIN Tail(s) PROVE Tail(s)[i] \in Elements(s)
    <3>1. i + 1 \in DOMAIN s /\ Tail(s)[i] = s[i + 1]
      BY <2>1
    <3> QED
      BY <3>1 DEF Elements
  <2>4. Head(s) \in Elements(s)
    <3>1. 1 \in DOMAIN s
      BY <2>1
    <3> QED
      BY <2>1, <3>1 DEF Elements
  <2> QED
    BY <2>2, <2>3, <2>4 DEF Elements
<1> QED
  BY <1>1, <1>2, <1>3

\* The slots of the ring, walked one by one.
LEMMA NextSlot ==
  ASSUME NEW b \in 0 .. (StoreCapacity - 1)
  PROVE  (b + 1) % StoreCapacity = IF b + 1 = StoreCapacity THEN 0 ELSE b + 1
BY Bounds

LEMMA SlotAt ==
  ASSUME NEW b \in 0 .. (StoreCapacity - 1), NEW l \in 0 .. StoreCapacity
  PROVE  (b + l) % StoreCapacity =
           IF b + l < StoreCapacity THEN b + l ELSE b + l - StoreCapacity
<1>1. CASE b + l < StoreCapacity
  BY <1>1, Bounds
<1>2. CASE b + l >= StoreCapacity
  <2> DEFINE r == b + l - StoreCapacity
  <2>1. r \in 0 .. StoreCapacity - 1 /\ b + l = r + StoreCapacity
    BY <1>2, Bounds
  <2> HIDE DEF r
  <2>2. (r + StoreCapacity) % StoreCapacity = r
    BY <2>1, Bounds
  <2> QED
    BY <1>2, <2>1, <2>2, Bounds DEF r
<1> QED
  BY <1>1, <1>2, Bounds

-----------------------------------------------------------------------------
(* What a publish does to the window, and a push to the store.             *)

\* The new entry comes last; the m entries that go are past the horizon or exposed.
LEMMA PublishedWindow ==
  ASSUME Typed, NEW r \in Reading, Publish(r)
  PROVE  /\ window' \in Seq(Entry) /\ Len(window') <= WindowCapacity
         /\ \E m \in 0 .. Len(window) :
              /\ Len(window') = Len(window) - m + 1
              /\ \A i \in 1 .. Len(window) - m : window'[i] = window[i + m]
              /\ window'[Len(window')] = [r |-> r, age |-> 0]
              /\ \A i \in 1 .. m : window[i].age > Horizon \/ window[i].r \in exposed'
              /\ exposed' # exposed =>
                   /\ m >= 1 /\ Len(window) - m = WindowCapacity - 1
                   /\ window[m].age <= Horizon
              /\ \A x \in exposed' \ exposed : m >= 1 /\ x = window[m].r
<1> DEFINE w == Expired(window)
           e == [r |-> r, age |-> 0]
<1>0. window \in Seq(Entry) /\ Len(window) <= WindowCapacity /\ e \in Entry
  BY Bounds DEF Typed, NodeTyped, LinkTyped, Entry
<1>1. PICK m \in 0 .. Len(window) :
        /\ w = SubSeq(window, m + 1, Len(window))
        /\ \A i \in 1 .. m : window[i].age > Horizon
        /\ m < Len(window) => window[m + 1].age <= Horizon
  BY <1>0, Expiry
<1>2. window' = Remembered(w, r) /\ exposed' = exposed \cup Overwritten(w)
  BY DEF Publish
<1> HIDE DEF w
<1>3. /\ w \in Seq(Entry) /\ Len(w) = Len(window) - m /\ DOMAIN w = 1 .. Len(window) - m
      /\ \A i \in DOMAIN w : i + m \in DOMAIN window /\ w[i] = window[i + m]
  BY <1>0, <1>1, Behind
<1>4. CASE Len(w) = WindowCapacity
  <2>1. window' = Append(Tail(w), e) /\ exposed' = exposed \cup {w[1].r}
    BY <1>2, <1>4 DEF Remembered, Overwritten
  <2> HIDE DEF e
  <2>2. Len(w) > 0 /\ m + 1 \in 0 .. Len(window) /\ Len(window) \in Nat /\ m \in Nat
    BY <1>0, <1>3, <1>4, Bounds
  <2>3. w[1] = window[m + 1] /\ m + 1 \in DOMAIN window
    <3>1. 1 \in DOMAIN w
      BY <1>3, <2>2
    <3> QED
      BY <1>3, <2>2, <3>1
  <2>4. Tail(w) \in Seq(Entry) /\ Len(Tail(w)) = Len(w) - 1
        /\ \A i \in 1 .. Len(w) - 1 : Tail(w)[i] = w[i + 1]
    BY <1>3, <2>2
  <2>5. \A i \in 1 .. Len(window) - (m + 1) : Tail(w)[i] = window[i + (m + 1)]
    <3> SUFFICES ASSUME NEW i \in 1 .. Len(window) - (m + 1)
                 PROVE  Tail(w)[i] = window[i + (m + 1)]
      OBVIOUS
    <3>1. i \in 1 .. Len(w) - 1 /\ i + 1 \in DOMAIN w /\ i + 1 + m = i + (m + 1)
      BY <1>3, <2>2
    <3> QED
      BY <1>3, <2>4, <3>1
  <2>6. window' \in Seq(Entry) /\ Len(window') = Len(w) /\ window'[Len(w)] = e
        /\ \A i \in 1 .. Len(w) - 1 : window'[i] = Tail(w)[i]
    BY <1>0, <2>1, <2>2, <2>4
  <2>7. \A i \in 1 .. m + 1 : window[i].age > Horizon \/ window[i].r \in exposed'
    <3> SUFFICES ASSUME NEW i \in 1 .. m + 1
                 PROVE  window[i].age > Horizon \/ window[i].r \in exposed'
      OBVIOUS
    <3>1. i \in 1 .. m \/ i = m + 1
      BY <2>2
    <3> QED
      BY <1>1, <2>1, <2>3, <3>1
  <2>8. Len(w) = Len(window) - (m + 1) + 1 /\ Len(window) - (m + 1) = Len(w) - 1
        /\ Len(window) - (m + 1) = WindowCapacity - 1
    BY <1>3, <1>4, <2>2, Bounds
  <2>9. m + 1 >= 1 /\ window[m + 1].age <= Horizon
    BY <1>1, <2>2
  <2>10. \A x \in exposed' \ exposed : x = window[m + 1].r
    BY <2>1, <2>3
  <2>11. window'[Len(window')] = [r |-> r, age |-> 0]
    BY <2>6 DEF e
  <2>12. \A i \in 1 .. Len(window) - (m + 1) : window'[i] = window[i + (m + 1)]
    BY <2>5, <2>6, <2>8
  <2>13. Len(window') = Len(window) - (m + 1) + 1
    BY <2>6, <2>8
  <2>14. \A x \in exposed' \ exposed : m + 1 >= 1 /\ x = window[m + 1].r
    BY <2>9, <2>10
  <2>15. window' \in Seq(Entry) /\ Len(window') <= WindowCapacity
    BY <1>4, <2>6, Bounds
  <2> QED
    BY <2>2, <2>7, <2>8, <2>9, <2>11, <2>12, <2>13, <2>14, <2>15
<1>5. CASE Len(w) # WindowCapacity
  <2>1. window' = Append(w, e) /\ exposed' = exposed
    BY <1>2, <1>5 DEF Remembered, Overwritten
  <2> HIDE DEF e
  <2>2. Len(w) < WindowCapacity /\ Len(w) \in Nat
    BY <1>0, <1>3, <1>5, Bounds
  <2>3. window' \in Seq(Entry) /\ Len(window') = Len(w) + 1 /\ window'[Len(w) + 1] = e
        /\ \A i \in 1 .. Len(w) : window'[i] = w[i]
    <3>1. w \in Seq(Entry) /\ e \in Entry /\ window' = Append(w, e)
      BY <1>0, <1>3, <2>1
    <3> QED
      BY <3>1
  <2>4. \A i \in 1 .. Len(window) - m : window'[i] = window[i + m]
    <3> SUFFICES ASSUME NEW i \in 1 .. Len(window) - m PROVE window'[i] = window[i + m]
      OBVIOUS
    <3>1. i \in 1 .. Len(w) /\ i \in DOMAIN w
      BY <1>3
    <3> QED
      BY <1>3, <2>3, <3>1
  <2>5. window'[Len(window')] = [r |-> r, age |-> 0] /\ Len(window') = Len(window) - m + 1
    BY <1>3, <2>3 DEF e
  <2>6. window' \in Seq(Entry) /\ Len(window') <= WindowCapacity
    BY <2>2, <2>3, Bounds
  <2> QED
    BY <1>1, <2>1, <2>4, <2>5, <2>6
<1> QED
  BY <1>4, <1>5

LEMMA PublishedReadings ==
  ASSUME Typed, NEW r \in Reading, Publish(r)
  PROVE  /\ Readings(window') \subseteq Readings(window) \cup {r}
         /\ exposed' \subseteq exposed \cup Readings(window)
         /\ wire' \in Seq(Reading \cup {Ping}) /\ Elements(wire') \subseteq Elements(wire) \cup {r}
<1>0. window \in Seq(Entry) /\ wire \in Seq(Reading \cup {Ping})
  BY DEF Typed, NodeTyped, LinkTyped, Entry
<1>1. PICK m \in 0 .. Len(window) :
        /\ Len(window') = Len(window) - m + 1
        /\ \A i \in 1 .. Len(window) - m : window'[i] = window[i + m]
        /\ window'[Len(window')] = [r |-> r, age |-> 0]
        /\ \A x \in exposed' \ exposed : m >= 1 /\ x = window[m].r
  BY PublishedWindow
<1>2. window' \in Seq(Entry)
  BY PublishedWindow
<1>3. Readings(window') \subseteq Readings(window) \cup {r}
  <2> SUFFICES ASSUME NEW i \in DOMAIN window' PROVE window'[i].r \in Readings(window) \cup {r}
    BY DEF Readings
  <2>1. CASE i = Len(window')
    BY <1>1, <2>1
  <2>2. CASE i # Len(window')
    <3>1. i \in 1 .. Len(window) - m /\ i + m \in DOMAIN window
      BY <1>0, <1>1, <1>2, <2>2
    <3> QED
      BY <1>1, <3>1 DEF Readings
  <2> QED
    BY <2>1, <2>2
<1>4. exposed' \subseteq exposed \cup Readings(window)
  <2> SUFFICES ASSUME NEW x \in exposed' \ exposed PROVE x \in Readings(window)
    OBVIOUS
  <2>1. m \in DOMAIN window /\ x = window[m].r
    BY <1>0, <1>1
  <2> QED
    BY <2>1 DEF Readings
<1>5. wire' \in Seq(Reading \cup {Ping})
  BY <1>0 DEF Publish
<1>6. Elements(wire') \subseteq Elements(wire) \cup {r}
  BY <1>0, ElementsOf DEF Publish
<1> QED
  BY <1>3, <1>4, <1>5, <1>6

LEMMA OverlaidImage ==
  ASSUME Typed, NEW r \in Reading
  PROVE  /\ Overlaid(r) \in Seq(Reading) /\ Len(Overlaid(r)) = Len(image)
         /\ Elements(Overlaid(r)) \subseteq Elements(image) \cup {r}
<1>1. image \in Seq(Reading)
  BY DEF Typed, StoreTyped, HistoryTyped
<1>2. Overlaid(r) \in Seq(Reading) /\ Len(Overlaid(r)) = Len(image)
  BY <1>1 DEF Overlaid
<1>3. Elements(Overlaid(r)) \subseteq Elements(image) \cup {r}
  BY <1>1 DEF Overlaid, Elements
<1> QED
  BY <1>2, <1>3

LEMMA PushedQueue ==
  ASSUME Typed, NEW r \in Reading
  PROVE  /\ Pushed(r) \in Seq(Reading) /\ Len(Pushed(r)) <= StoreCapacity
         /\ Elements(Pushed(r)) \subseteq Elements(queue) \cup {r}
         /\ Elements(queue) \subseteq Elements(Pushed(r)) \cup Evicted
         /\ r \in Elements(Pushed(r))
         /\ Evicted \subseteq Elements(queue) /\ Evicted \subseteq Reading
<1>1. queue \in Seq(Reading) /\ Len(queue) <= StoreCapacity /\ Len(queue) \in Nat
  BY DEF Typed, StoreTyped, HistoryTyped
<1>2. CASE Len(queue) = StoreCapacity
  <2>1. queue # <<>> /\ Tail(queue) \in Seq(Reading) /\ Len(Tail(queue)) = Len(queue) - 1
    BY <1>1, <1>2, Bounds
  <2>2. Pushed(r) = Append(Tail(queue), r) /\ Evicted = {Head(queue)}
    BY <1>2 DEF Pushed, Evicted
  <2>3. Elements(queue) = {Head(queue)} \cup Elements(Tail(queue)) /\ Elements(queue) \subseteq Reading
    BY <1>1, <2>1, ElementsOf
  <2>4. Elements(Pushed(r)) = Elements(Tail(queue)) \cup {r}
    <3>1. \A e : Elements(Append(Tail(queue), e)) = Elements(Tail(queue)) \cup {e}
      <4> DEFINE rest == Tail(queue)
      <4>1. rest \in Seq(Reading)
        BY <2>1
      <4> HIDE DEF rest
      <4>2. \A e : Elements(Append(rest, e)) = Elements(rest) \cup {e}
        BY <4>1, ElementsOf
      <4> QED
        BY <4>2 DEF rest
    <3> QED
      BY <2>2, <3>1
  <2>5. Pushed(r) \in Seq(Reading) /\ Len(Pushed(r)) = Len(Tail(queue)) + 1
    BY <2>1, <2>2
  <2>6. Len(Pushed(r)) <= StoreCapacity
    BY <1>1, <1>2, <2>1, <2>5, Bounds
  <2> QED
    BY <2>2, <2>3, <2>4, <2>5, <2>6
<1>3. CASE Len(queue) # StoreCapacity
  <2>1. Pushed(r) = Append(queue, r) /\ Evicted = {}
    BY <1>3 DEF Pushed, Evicted
  <2>2. Elements(Pushed(r)) = Elements(queue) \cup {r}
    BY <1>1, <2>1, ElementsOf
  <2>3. Pushed(r) \in Seq(Reading) /\ Len(Pushed(r)) = Len(queue) + 1
    BY <1>1, <2>1
  <2>4. Len(Pushed(r)) <= StoreCapacity
    BY <1>1, <1>3, <2>3, Bounds
  <2> QED
    BY <2>1, <2>2, <2>3, <2>4
<1> QED
  BY <1>2, <1>3

LEMMA PushKeeps ==
  ASSUME Typed, NEW r \in Reading, PushDeferred(r)
  PROVE  /\ queue' \in Seq(Reading) /\ Len(queue') <= StoreCapacity
         /\ image' \in Seq(Reading) /\ Len(image') <= StoreCapacity
         /\ behind' \in 0 .. (StoreCapacity - 1) /\ fails' \in 0 .. MaxFails
         /\ counted' \subseteq Reading /\ counted \subseteq counted'
         /\ counted' \subseteq counted \cup Elements(queue) \cup {r}
         /\ Elements(queue') \cup Elements(image') \subseteq Elements(queue) \cup Elements(image) \cup {r}
         /\ Elements(queue) \cup {r} \subseteq Elements(queue') \cup counted'
<1> USE PushedQueue, OverlaidImage, Bounds
<1>0. /\ queue \in Seq(Reading) /\ Len(queue) <= StoreCapacity
      /\ image \in Seq(Reading) /\ Len(image) <= StoreCapacity
      /\ behind \in 0 .. (StoreCapacity - 1) /\ fails \in 0 .. MaxFails
      /\ counted \subseteq Reading
  BY DEF Typed, StoreTyped, HistoryTyped
<1>1. CASE PushRefused(r)
  <2>1. fails' \in 0 .. MaxFails
    BY <1>0, <1>1 DEF PushRefused, StoreFails
  <2> QED
    BY <1>0, <1>1, <2>1 DEF PushRefused
<1>2. CASE StoreWorks /\ PushUncommitted(r) /\ counted' = counted \cup Evicted
  <2>1. fails' \in 0 .. MaxFails
    BY <1>0, <1>2 DEF StoreWorks
  <2>2. behind' \in 0 .. (StoreCapacity - 1)
    BY <1>0, <1>2, NextSlot DEF PushUncommitted, TailMoves
  <2>3. queue' = Pushed(r) /\ image' = Overlaid(r)
    BY <1>2 DEF PushUncommitted
  <2> QED
    BY <1>0, <1>2, <2>1, <2>2, <2>3
<1> QED
  BY <1>1, <1>2 DEF PushDeferred

LEMMA FlushKeeps ==
  ASSUME Typed, FlushStore
  PROVE  /\ image' \in Seq(Reading) /\ Len(image') <= StoreCapacity
         /\ behind' \in 0 .. (StoreCapacity - 1) /\ fails' \in 0 .. MaxFails
         /\ Elements(image') \subseteq Elements(queue) \cup Elements(image)
BY Bounds DEF Typed, StoreTyped, FlushStore, StoreWorks, StoreFails

LEMMA CutKeeps ==
  ASSUME Typed, Phases, PowerCut
  PROVE  /\ image' \in Seq(Reading) /\ Len(image') = Len(image)
         /\ Elements(image') \subseteq Elements(image) \cup Pushing
         /\ Pushing \subseteq Elements(handed) \cup {taken} /\ Pushing \subseteq Reading
         /\ image' = image \/ \E r \in Pushing : image' = Overlaid(r)
<1>0. image \in Seq(Reading) /\ handed \in Seq(Reading) /\ taken \in 0 .. MaxReadings
  BY DEF Typed, NodeTyped, StoreTyped, HistoryTyped
<1>1. Pushing \subseteq Elements(handed) \cup {taken} /\ Pushing \subseteq Reading
  <2>1. CASE pc = "requeue" /\ handed # <<>>
    <3>1. Elements(handed) = {Head(handed)} \cup Elements(Tail(handed)) /\ Elements(handed) \subseteq Reading
      BY <1>0, <2>1, ElementsOf
    <3> QED
      BY <2>1, <3>1 DEF Pushing
  <2>2. CASE pc = "handoff" /\ Stays
    <3>1. taken \in Reading
      BY <1>0, <2>2, Bounds DEF Phases, Reading
    <3> QED
      BY <2>2, <3>1 DEF Pushing
  <2>3. CASE ~ (pc = "requeue" /\ handed # <<>>) /\ ~ (pc = "handoff" /\ Stays)
    BY <2>3 DEF Pushing
  <2> QED
    BY <2>1, <2>2, <2>3
<1>2. CASE image' = image
  BY <1>0, <1>1, <1>2 DEF Elements
<1>3. CASE image' # image
  <2>1. PICK r \in Pushing : image' = Overlaid(r)
    BY <1>3 DEF PowerCut
  <2>2. r \in Reading
    BY <1>1
  <2>3. image' \in Seq(Reading) /\ Len(image') = Len(image)
        /\ Elements(image') \subseteq Elements(image) \cup {r}
    <3>1. Overlaid(r) \in Seq(Reading) /\ Len(Overlaid(r)) = Len(image)
          /\ Elements(Overlaid(r)) \subseteq Elements(image) \cup {r}
      BY <2>2, OverlaidImage
    <3> QED
      BY <2>1, <3>1
  <2> QED
    BY <1>1, <2>1, <2>3
<1> QED
  BY <1>2, <1>3

-----------------------------------------------------------------------------
(* Types, phases and what is known of every reading.                       *)

LEMMA Begins == Init => TInv
<1> SUFFICES ASSUME Init PROVE TInv
  OBVIOUS
<1> USE Bounds DEF Init
<1>1. Typed
  <2>1. NodeTyped
    <3>1. window = <<>> /\ handed = <<>> /\ <<>> \in Seq(Entry) /\ <<>> \in Seq(Reading) /\ Len(<<>>) = 0
      OBVIOUS
    <3>2. /\ pc = "off" /\ drained \in 0 .. DrainBatch
          /\ sinceRead \in 0 .. ReadPeriod
      OBVIOUS
    <3>3. Len(window) <= WindowCapacity
      BY <3>1
    <3> QED
      BY <3>1, <3>2, <3>3 DEF NodeTyped
  <2>2. StoreTyped /\ HistoryTyped
    BY DEF StoreTyped, HistoryTyped
  <2>3. FlagsTyped
    BY DEF FlagsTyped
  <2>4. LinkTyped
    BY DEF LinkTyped
  <2> QED
    BY <2>1, <2>2, <2>3, <2>4 DEF Typed
<1>2. Phases
  BY DEF Phases
<1>3. Elements(<<>>) = {} /\ Readings(<<>>) = {}
  BY DEF Elements, Readings
<1>4. Known
  BY <1>3 DEF Known
<1> QED
  BY <1>1, <1>2, <1>4 DEF TInv

LEMMA NetTyped ==
  ASSUME TInv, NetStep
  PROVE  TInv'
<1> USE Bounds DEF TInv, Typed
<1>0. Elements(<<>>) = {} /\ Ping \in Reading \cup {Ping}
  BY DEF Elements
<1>1. CASE Connect
  <2>1. Typed'
    <3>1. NodeTyped'
      BY <1>1 DEF Connect, flash, ghost, NodeTyped
    <3>2. StoreTyped'
      BY <1>1 DEF Connect, flash, ghost, StoreTyped
    <3>3. FlagsTyped'
      BY <1>1 DEF Connect, flash, ghost, FlagsTyped
    <3>4. LinkTyped'
      BY <1>1 DEF Connect, flash, ghost, LinkTyped
    <3>5. HistoryTyped'
      BY <1>1 DEF Connect, flash, ghost, HistoryTyped
    <3> QED
      BY <3>1, <3>2, <3>3, <3>4, <3>5
  <2>2. Phases'
    BY <1>1 DEF Connect, flash, ghost, Phases
  <2>3. Known'
    BY <1>0, <1>1 DEF Connect, flash, ghost, Known
  <2> QED
    BY <2>1, <2>2, <2>3
<1>2. CASE NoConnect
  <2>1. Typed'
    <3>1. NodeTyped'
      BY <1>2 DEF NoConnect, flash, ghost, client, net, NodeTyped
    <3>2. StoreTyped'
      BY <1>2 DEF NoConnect, flash, ghost, client, net, StoreTyped
    <3>3. FlagsTyped'
      BY <1>2 DEF NoConnect, flash, ghost, client, net, FlagsTyped
    <3>4. LinkTyped'
      BY <1>2 DEF NoConnect, flash, ghost, client, net, LinkTyped
    <3>5. HistoryTyped'
      BY <1>2 DEF NoConnect, flash, ghost, client, net, HistoryTyped
    <3> QED
      BY <3>1, <3>2, <3>3, <3>4, <3>5
  <2>2. Phases'
    BY <1>2 DEF NoConnect, flash, ghost, client, net, Phases
  <2>3. Known'
    BY <1>2 DEF NoConnect, flash, ghost, client, net, Known
  <2> QED
    BY <2>1, <2>2, <2>3
<1>3. CASE KeepAliveLost
  <2>1. Typed'
    <3>1. NodeTyped'
      BY <1>3 DEF KeepAliveLost, StreamClosed, flash, ghost, NodeTyped
    <3>2. StoreTyped'
      BY <1>3 DEF KeepAliveLost, StreamClosed, flash, ghost, StoreTyped
    <3>3. FlagsTyped'
      BY <1>3 DEF KeepAliveLost, StreamClosed, flash, ghost, FlagsTyped
    <3>4. LinkTyped'
      BY <1>3 DEF KeepAliveLost, StreamClosed, flash, ghost, LinkTyped
    <3>5. HistoryTyped'
      BY <1>3 DEF KeepAliveLost, StreamClosed, flash, ghost, HistoryTyped
    <3> QED
      BY <3>1, <3>2, <3>3, <3>4, <3>5
  <2>2. Phases'
    BY <1>3 DEF KeepAliveLost, StreamClosed, flash, ghost, Phases
  <2>3. Known'
    BY <1>0, <1>3 DEF KeepAliveLost, StreamClosed, flash, ghost, Known
  <2> QED
    BY <2>1, <2>2, <2>3
<1>4. CASE SendPing
  <2>0. wire' \in Seq(Reading \cup {Ping}) /\ Elements(wire') \subseteq Elements(wire) \cup {Ping}
    <3> DEFINE T == Reading \cup {Ping}
    <3>1. wire \in Seq(T) /\ Ping \in T
      BY DEF LinkTyped
    <3>2. Append(wire, Ping) \in Seq(T)
      BY <3>1
    <3>3. Elements(Append(wire, Ping)) = Elements(wire) \cup {Ping}
      BY <3>1, ElementsOf
    <3> QED
      BY <1>4, <3>1, <3>2, <3>3 DEF SendPing
  <2>1. Typed'
    <3>1. NodeTyped'
      BY <1>4, <2>0 DEF SendPing, flash, ghost, NodeTyped
    <3>2. StoreTyped'
      BY <1>4, <2>0 DEF SendPing, flash, ghost, StoreTyped
    <3>3. FlagsTyped'
      BY <1>4, <2>0 DEF SendPing, flash, ghost, FlagsTyped
    <3>4. LinkTyped'
      BY <1>4, <2>0 DEF SendPing, flash, ghost, LinkTyped
    <3>5. HistoryTyped'
      BY <1>4, <2>0 DEF SendPing, flash, ghost, HistoryTyped
    <3> QED
      BY <3>1, <3>2, <3>3, <3>4, <3>5
  <2>2. Phases'
    BY <1>4 DEF SendPing, flash, ghost, Phases
  <2>3. Known'
    BY <1>4, <2>0 DEF SendPing, flash, ghost, Known
  <2> QED
    BY <2>1, <2>2, <2>3
<1>5. CASE ReadAnswer
  <2>1. Typed'
    <3>1. NodeTyped'
      BY <1>5 DEF ReadAnswer, flash, ghost, NodeTyped
    <3>2. StoreTyped'
      BY <1>5 DEF ReadAnswer, flash, ghost, StoreTyped
    <3>3. FlagsTyped'
      BY <1>5 DEF ReadAnswer, flash, ghost, FlagsTyped
    <3>4. LinkTyped'
      BY <1>5 DEF ReadAnswer, flash, ghost, LinkTyped
    <3>5. HistoryTyped'
      BY <1>5 DEF ReadAnswer, flash, ghost, HistoryTyped
    <3> QED
      BY <3>1, <3>2, <3>3, <3>4, <3>5
  <2>2. Phases'
    BY <1>5 DEF ReadAnswer, flash, ghost, Phases
  <2>3. Known'
    BY <1>5 DEF ReadAnswer, flash, ghost, Known
  <2> QED
    BY <2>1, <2>2, <2>3
<1> QED
  BY <1>1, <1>2, <1>3, <1>4, <1>5 DEF NetStep

\* What expire() leaves is made of what was there.
LEMMA ExpiredReadings ==
  ASSUME Typed
  PROVE  /\ Expired(window) \in Seq(Entry) /\ Len(Expired(window)) <= Len(window)
         /\ Readings(Expired(window)) \subseteq Readings(window)
<1>0. window \in Seq(Entry)
  BY DEF Typed, NodeTyped, LinkTyped, Entry
<1>1. PICK m \in 0 .. Len(window) : Expired(window) = SubSeq(window, m + 1, Len(window))
  BY <1>0, Expiry
<1> DEFINE w == Expired(window)
<1> HIDE DEF w
<1>2. /\ w \in Seq(Entry) /\ Len(w) = Len(window) - m /\ DOMAIN w = 1 .. Len(window) - m
      /\ \A i \in DOMAIN w : i + m \in DOMAIN window /\ w[i] = window[i + m]
  BY <1>0, <1>1, Behind DEF w
<1>3. Readings(w) \subseteq Readings(window)
  BY <1>2 DEF Readings
<1> QED
  BY <1>0, <1>2, <1>3 DEF w

LEMMA ReclaimTyped ==
  ASSUME TInv, ReclaimStep
  PROVE  TInv'
<1> USE Bounds DEF TInv, Typed
<1>0. Elements(<<>>) = {} /\ Readings(<<>>) = {}
  BY DEF Elements, Readings
<1>1. CASE SessionHolds
  <2>1. Typed'
    <3>1. NodeTyped'
      BY <1>1 DEF SessionHolds, flash, ghost, client, net, NodeTyped
    <3>2. StoreTyped'
      BY <1>1 DEF SessionHolds, flash, ghost, client, net, StoreTyped
    <3>3. FlagsTyped'
      BY <1>1 DEF SessionHolds, flash, ghost, client, net, FlagsTyped
    <3>4. LinkTyped'
      BY <1>1 DEF SessionHolds, flash, ghost, client, net, LinkTyped
    <3>5. HistoryTyped'
      BY <1>1 DEF SessionHolds, flash, ghost, client, net, HistoryTyped
    <3> QED
      BY <3>1, <3>2, <3>3, <3>4, <3>5
  <2>2. Phases'
    BY <1>1 DEF SessionHolds, flash, ghost, client, net, Phases
  <2>3. Known'
    BY <1>1 DEF SessionHolds, flash, ghost, client, net, Known
  <2> QED
    BY <2>1, <2>2, <2>3
<1>2. CASE Reclaim
  <2> DEFINE w == Expired(window)
  <2>0. /\ handed' \in Seq(Reading) /\ Elements(handed') \subseteq Readings(window)
        /\ window = <<>> => handed' = <<>>
    <3>1. w \in Seq(Entry) /\ Len(w) <= Len(window) /\ Readings(w) \subseteq Readings(window)
          /\ handed' = [i \in DOMAIN w |-> w[i].r]
      BY <1>2, ExpiredReadings DEF Reclaim
    <3> HIDE DEF w
    <3>2. Elements(handed') = Readings(w)
      BY <3>1 DEF Elements, Readings
    <3>3. handed' \in Seq(Reading)
      <4>1. \A i \in DOMAIN w : w[i].r \in Reading
        <5> SUFFICES ASSUME NEW i \in DOMAIN w PROVE w[i].r \in Reading
          OBVIOUS
        <5>1. w[i] \in Entry
          BY <3>1
        <5> QED
          BY <5>1 DEF Entry
      <4> QED
        BY <3>1, <4>1
    <3>4. window = <<>> => handed' = <<>>
      <4> SUFFICES ASSUME window = <<>> PROVE handed' = <<>>
        OBVIOUS
      <4>1. Len(w) = 0
        BY <3>1
      <4> QED
        BY <3>1, <4>1
    <3> QED
      BY <3>1, <3>2, <3>3, <3>4
  <2> HIDE DEF w
  <2>1. Typed'
    <3>1. NodeTyped'
      BY <1>2, <2>0 DEF Reclaim, flash, ghost, client, net, NodeTyped
    <3>2. StoreTyped'
      BY <1>2, <2>0 DEF Reclaim, flash, ghost, client, net, StoreTyped
    <3>3. FlagsTyped'
      BY <1>2, <2>0 DEF Reclaim, flash, ghost, client, net, FlagsTyped
    <3>4. LinkTyped'
      BY <1>2, <2>0 DEF Reclaim, flash, ghost, client, net, LinkTyped
    <3>5. HistoryTyped'
      BY <1>2, <2>0 DEF Reclaim, flash, ghost, client, net, HistoryTyped
    <3> QED
      BY <3>1, <3>2, <3>3, <3>4, <3>5
  <2>2. Phases'
    BY <1>2, <2>0 DEF Reclaim, flash, ghost, client, net, Phases
  <2>3. Known'
    BY <1>0, <1>2, <2>0 DEF Reclaim, flash, ghost, client, net, Known
  <2> QED
    BY <2>1, <2>2, <2>3
<1>3. CASE Requeue
  <2> DEFINE r == Head(handed)
  <2>0. r \in Reading /\ handed' \in Seq(Reading) /\ Elements(handed') \subseteq Elements(handed)
        /\ r \in Elements(handed)
    <3>1. handed \in Seq(Reading) /\ handed # <<>> /\ handed' = Tail(handed)
      BY <1>3 DEF Requeue, NodeTyped
    <3>2. Elements(handed) = {Head(handed)} \cup Elements(Tail(handed))
      BY <3>1, ElementsOf
    <3> QED
      BY <3>1, <3>2
  <2> HIDE DEF r
  <2>a. PushDeferred(r)
    BY <1>3 DEF Requeue, r
  <2>b. /\ queue' \in Seq(Reading) /\ Len(queue') <= StoreCapacity
         /\ image' \in Seq(Reading) /\ Len(image') <= StoreCapacity
         /\ behind' \in 0 .. (StoreCapacity - 1) /\ fails' \in 0 .. MaxFails
         /\ counted' \subseteq Reading /\ counted' \subseteq counted \cup Elements(queue) \cup {r}
         /\ Elements(queue') \cup Elements(image') \subseteq Elements(queue) \cup Elements(image) \cup {r}
    BY <2>0, <2>a, PushKeeps
  <2>1. Typed'
    <3>1. NodeTyped'
      BY <1>3, <2>0, <2>b DEF Requeue, client, net, NodeTyped
    <3>2. StoreTyped'
      BY <1>3, <2>0, <2>b DEF Requeue, client, net, StoreTyped
    <3>3. FlagsTyped'
      BY <1>3, <2>0, <2>b DEF Requeue, client, net, FlagsTyped
    <3>4. LinkTyped'
      BY <1>3, <2>0, <2>b DEF Requeue, client, net, LinkTyped
    <3>5. HistoryTyped'
      BY <1>3, <2>0, <2>b DEF Requeue, client, net, HistoryTyped
    <3> QED
      BY <3>1, <3>2, <3>3, <3>4, <3>5
  <2>2. Phases'
    BY <1>3 DEF Requeue, client, net, Phases
  <2>3. Known'
    BY <1>3, <2>0, <2>b DEF Requeue, client, net, Known
  <2> QED
    BY <2>1, <2>2, <2>3
<1>4. CASE RequeueEnd
  <2>0. FlushStore
    BY <1>4 DEF RequeueEnd
  <2>b. /\ image' \in Seq(Reading) /\ Len(image') <= StoreCapacity
        /\ behind' \in 0 .. (StoreCapacity - 1) /\ fails' \in 0 .. MaxFails
        /\ Elements(image') \subseteq Elements(queue) \cup Elements(image)
    BY <2>0, FlushKeeps
  <2>1. Typed'
    <3>1. NodeTyped'
      BY <1>4, <2>b DEF RequeueEnd, ghost, client, net, NodeTyped
    <3>2. StoreTyped'
      BY <1>4, <2>b DEF RequeueEnd, ghost, client, net, StoreTyped
    <3>3. FlagsTyped'
      BY <1>4, <2>b DEF RequeueEnd, ghost, client, net, FlagsTyped
    <3>4. LinkTyped'
      BY <1>4, <2>b DEF RequeueEnd, ghost, client, net, LinkTyped
    <3>5. HistoryTyped'
      BY <1>4, <2>b DEF RequeueEnd, ghost, client, net, HistoryTyped
    <3> QED
      BY <3>1, <3>2, <3>3, <3>4, <3>5
  <2>2. Phases'
    BY <1>4 DEF RequeueEnd, ghost, client, net, Phases
  <2>3. Known'
    BY <1>4, <2>b DEF RequeueEnd, ghost, client, net, Known
  <2> QED
    BY <2>1, <2>2, <2>3
<1> QED
  BY <1>1, <1>2, <1>3, <1>4 DEF ReclaimStep

LEMMA DrainTyped ==
  ASSUME TInv, DrainStep
  PROVE  TInv'
<1> USE Bounds DEF TInv, Typed
<1>1. CASE Drain
  <2>0. /\ window' \in Seq(Entry) /\ Len(window') <= WindowCapacity
        /\ Readings(window') \subseteq Readings(window) /\ (pc = "off" => window' = window)
    BY <1>1, ExpiredReadings DEF Drain, NodeTyped
  <2>1. Typed'
    <3>1. NodeTyped'
      BY <1>1, <2>0 DEF Drain, flash, ghost, client, net, NodeTyped
    <3>2. StoreTyped'
      BY <1>1, <2>0 DEF Drain, flash, ghost, client, net, StoreTyped
    <3>3. FlagsTyped'
      BY <1>1, <2>0 DEF Drain, flash, ghost, client, net, FlagsTyped
    <3>4. LinkTyped'
      BY <1>1, <2>0 DEF Drain, flash, ghost, client, net, LinkTyped
    <3>5. HistoryTyped'
      BY <1>1, <2>0 DEF Drain, flash, ghost, client, net, HistoryTyped
    <3> QED
      BY <3>1, <3>2, <3>3, <3>4, <3>5
  <2>2. Phases'
    BY <1>1, <2>0 DEF Drain, flash, ghost, client, net, Phases
  <2>3. Known'
    BY <1>1, <2>0 DEF Drain, flash, ghost, client, net, Known
  <2> QED
    BY <2>1, <2>2, <2>3
<1>2. CASE DrainOne
  <2> DEFINE r == Head(queue)
  <2>0. /\ r \in Reading /\ queue' \in Seq(Reading) /\ Len(queue') <= StoreCapacity
        /\ Elements(queue') \subseteq Elements(queue) /\ r \in Elements(queue)
        /\ behind' \in 0 .. (StoreCapacity - 1)
    <3>1. queue \in Seq(Reading) /\ queue # <<>> /\ queue' = Tail(queue)
          /\ Len(queue) <= StoreCapacity /\ behind \in 0 .. (StoreCapacity - 1)
      BY <1>2 DEF DrainOne, MayDrain, StoreTyped
    <3>2. Elements(queue) = {Head(queue)} \cup Elements(Tail(queue))
      BY <3>1, ElementsOf
    <3>3. behind' \in 0 .. (StoreCapacity - 1)
      BY <1>2, <3>1, NextSlot DEF DrainOne, TailMoves
    <3> QED
      BY <3>1, <3>2, <3>3
  <2> HIDE DEF r
  <2>a. Publish(r) /\ alive' = alive /\ conn
    BY <1>2 DEF DrainOne, r, Publish, CanPublish
  <2>b. /\ window' \in Seq(Entry) /\ Len(window') <= WindowCapacity
        /\ Readings(window') \subseteq Readings(window) \cup {r}
        /\ exposed' \subseteq exposed \cup Readings(window)
        /\ wire' \in Seq(Reading \cup {Ping}) /\ Elements(wire') \subseteq Elements(wire) \cup {r}
        /\ published' = published \cup {r} /\ sinceOut' = 0 /\ (~ alive => wire' = wire)
        /\ exposed' \subseteq published /\ exposed' \subseteq Reading
        /\ drained' \in 0 .. DrainBatch
    <3>1. drained' \in 0 .. DrainBatch
      BY <1>2 DEF DrainOne, MayDrain, NodeTyped
    <3> QED
      BY <2>0, <2>a, <3>1, PublishedWindow, PublishedReadings DEF Publish, Known, HistoryTyped
  <2>1. Typed'
    <3>1. NodeTyped'
      BY <1>2, <2>0, <2>a, <2>b DEF DrainOne, flash, NodeTyped
    <3>2. StoreTyped'
      BY <1>2, <2>0, <2>a, <2>b DEF DrainOne, flash, StoreTyped
    <3>3. FlagsTyped'
      BY <1>2, <2>0, <2>a, <2>b DEF DrainOne, flash, FlagsTyped
    <3>4. LinkTyped'
      BY <1>2, <2>0, <2>a, <2>b DEF DrainOne, flash, LinkTyped
    <3>5. HistoryTyped'
      BY <1>2, <2>0, <2>a, <2>b DEF DrainOne, flash, HistoryTyped
    <3> QED
      BY <3>1, <3>2, <3>3, <3>4, <3>5
  <2>2. Phases'
    BY <1>2, <2>0, <2>a, <2>b DEF DrainOne, flash, Phases
  <2>3. Known'
    BY <1>2, <2>0, <2>a, <2>b DEF DrainOne, flash, Known
  <2> QED
    BY <2>1, <2>2, <2>3
<1>3. CASE DrainEnd
  <2>b. /\ image' \in Seq(Reading) /\ Len(image') <= StoreCapacity
        /\ behind' \in 0 .. (StoreCapacity - 1) /\ fails' \in 0 .. MaxFails
        /\ Elements(image') \subseteq Elements(queue) \cup Elements(image)
    BY <1>3, FlushKeeps DEF DrainEnd, StoreTyped, StoreFails
  <2>1. Typed'
    <3>1. NodeTyped'
      BY <1>3, <2>b DEF DrainEnd, ghost, client, net, NodeTyped
    <3>2. StoreTyped'
      BY <1>3, <2>b DEF DrainEnd, ghost, client, net, StoreTyped
    <3>3. FlagsTyped'
      BY <1>3, <2>b DEF DrainEnd, ghost, client, net, FlagsTyped
    <3>4. LinkTyped'
      BY <1>3, <2>b DEF DrainEnd, ghost, client, net, LinkTyped
    <3>5. HistoryTyped'
      BY <1>3, <2>b DEF DrainEnd, ghost, client, net, HistoryTyped
    <3> QED
      BY <3>1, <3>2, <3>3, <3>4, <3>5
  <2>2. Phases'
    BY <1>3, <2>b DEF DrainEnd, ghost, client, net, Phases
  <2>3. Known'
    BY <1>3, <2>b DEF DrainEnd, ghost, client, net, Known
  <2> QED
    BY <2>1, <2>2, <2>3
<1> QED
  BY <1>1, <1>2, <1>3 DEF DrainStep

LEMMA SampleTyped ==
  ASSUME TInv, SampleStep
  PROVE  TInv'
<1> USE Bounds DEF TInv, Typed
<1>1. CASE NoReading
  <2>1. Typed'
    <3>1. NodeTyped'
      BY <1>1 DEF NoReading, flash, ghost, client, net, NodeTyped
    <3>2. StoreTyped'
      BY <1>1 DEF NoReading, flash, ghost, client, net, StoreTyped
    <3>3. FlagsTyped'
      BY <1>1 DEF NoReading, flash, ghost, client, net, FlagsTyped
    <3>4. LinkTyped'
      BY <1>1 DEF NoReading, flash, ghost, client, net, LinkTyped
    <3>5. HistoryTyped'
      BY <1>1 DEF NoReading, flash, ghost, client, net, HistoryTyped
    <3> QED
      BY <3>1, <3>2, <3>3, <3>4, <3>5
  <2>2. Phases'
    BY <1>1 DEF NoReading, flash, ghost, client, net, Phases
  <2>3. Known'
    BY <1>1 DEF NoReading, flash, ghost, client, net, Known
  <2> QED
    BY <2>1, <2>2, <2>3
<1>2. CASE Take
  <2>0. taken' \in 0 .. MaxReadings /\ taken' >= 1 /\ taken' - 1 = taken /\ 1 .. taken \subseteq 1 .. taken'
    BY <1>2 DEF Take, HistoryTyped
  <2>1. Typed'
    <3>1. NodeTyped'
      BY <1>2, <2>0 DEF Take, flash, client, net, NodeTyped
    <3>2. StoreTyped'
      BY <1>2, <2>0 DEF Take, flash, client, net, StoreTyped
    <3>3. FlagsTyped'
      BY <1>2, <2>0 DEF Take, flash, client, net, FlagsTyped
    <3>4. LinkTyped'
      BY <1>2, <2>0 DEF Take, flash, client, net, LinkTyped
    <3>5. HistoryTyped'
      BY <1>2, <2>0 DEF Take, flash, client, net, HistoryTyped
    <3> QED
      BY <3>1, <3>2, <3>3, <3>4, <3>5
  <2>2. Phases'
    BY <1>2, <2>0 DEF Take, flash, client, net, Phases
  <2>3. Known'
    BY <1>2, <2>0 DEF Take, flash, client, net, Known
  <2> QED
    BY <2>1, <2>2, <2>3
<1>3. CASE GoLive
  <2>0. taken \in Reading /\ taken \in 0 .. MaxReadings /\ 1 .. taken = (1 .. taken - 1) \cup {taken}
        /\ pc = "handoff"
    BY <1>3 DEF GoLive, HistoryTyped, Reading, Phases
  <2>a. Publish(taken) /\ alive' = alive /\ conn
    BY <1>3 DEF GoLive, Publish, CanPublish
  <2>b. /\ window' \in Seq(Entry) /\ Len(window') <= WindowCapacity
        /\ Readings(window') \subseteq Readings(window) \cup {taken}
        /\ exposed' \subseteq exposed \cup Readings(window)
        /\ wire' \in Seq(Reading \cup {Ping}) /\ Elements(wire') \subseteq Elements(wire) \cup {taken}
        /\ published' = published \cup {taken} /\ sinceOut' = 0 /\ (~ alive => wire' = wire)
        /\ exposed' \subseteq published /\ exposed' \subseteq Reading
    BY <2>0, <2>a, PublishedWindow, PublishedReadings DEF Publish, Known, HistoryTyped
  <2>1. Typed'
    <3>1. NodeTyped'
      BY <1>3, <2>0, <2>a, <2>b DEF GoLive, flash, NodeTyped
    <3>2. StoreTyped'
      BY <1>3, <2>0, <2>a, <2>b DEF GoLive, flash, StoreTyped
    <3>3. FlagsTyped'
      BY <1>3, <2>0, <2>a, <2>b DEF GoLive, flash, FlagsTyped
    <3>4. LinkTyped'
      BY <1>3, <2>0, <2>a, <2>b DEF GoLive, flash, LinkTyped
    <3>5. HistoryTyped'
      BY <1>3, <2>0, <2>a, <2>b DEF GoLive, flash, HistoryTyped
    <3> QED
      BY <3>1, <3>2, <3>3, <3>4, <3>5
  <2>2. Phases'
    BY <1>3, <2>0, <2>a, <2>b DEF GoLive, flash, Phases
  <2>3. Known'
    BY <1>3, <2>0, <2>a, <2>b DEF GoLive, flash, Known
  <2> QED
    BY <2>1, <2>2, <2>3
<1>4. CASE Store
  <2>0. taken \in Reading /\ taken \in 0 .. MaxReadings /\ 1 .. taken = (1 .. taken - 1) \cup {taken}
        /\ pc = "handoff" /\ pc' \in {"commit", "net"} /\ taken >= 1
    BY <1>4 DEF Store, HistoryTyped, Reading, Phases
  <2>b. /\ queue' \in Seq(Reading) /\ Len(queue') <= StoreCapacity
        /\ image' \in Seq(Reading) /\ Len(image') <= StoreCapacity
        /\ behind' \in 0 .. (StoreCapacity - 1) /\ fails' \in 0 .. MaxFails
        /\ counted' \subseteq Reading /\ counted' \subseteq counted \cup Elements(queue) \cup {taken}
        /\ Elements(queue') \cup Elements(image') \subseteq Elements(queue) \cup Elements(image) \cup {taken}
    <3>1. PushDeferred(taken)
      BY <1>4 DEF Store, PushDeferred
    <3> QED
      BY <2>0, <3>1, PushKeeps
  <2>1. Typed'
    <3>1. NodeTyped'
      BY <1>4, <2>0, <2>b DEF Store, client, net, NodeTyped
    <3>2. StoreTyped'
      BY <1>4, <2>0, <2>b DEF Store, client, net, StoreTyped
    <3>3. FlagsTyped'
      BY <1>4, <2>0, <2>b DEF Store, client, net, FlagsTyped
    <3>4. LinkTyped'
      BY <1>4, <2>0, <2>b DEF Store, client, net, LinkTyped
    <3>5. HistoryTyped'
      BY <1>4, <2>0, <2>b DEF Store, client, net, HistoryTyped
    <3> QED
      BY <3>1, <3>2, <3>3, <3>4, <3>5
  <2>2. Phases'
    BY <1>4, <2>0, <2>b DEF Store, client, net, Phases
  <2>3. Known'
    BY <1>4, <2>0, <2>b DEF Store, client, net, Known
  <2> QED
    BY <2>1, <2>2, <2>3
<1>5. CASE Commit
  <2>0. taken \in Reading /\ taken \in 1 .. taken /\ pc = "commit" /\ pc' = "net"
    BY <1>5 DEF Commit, HistoryTyped, Reading, Phases
  <2>b. /\ image' \in Seq(Reading) /\ Len(image') <= StoreCapacity
        /\ behind' \in 0 .. (StoreCapacity - 1) /\ fails' \in 0 .. MaxFails
        /\ Elements(image') \subseteq Elements(queue) \cup Elements(image)
        /\ counted' \subseteq counted \cup {taken}
    BY <1>5 DEF Commit, StoreWorks, StoreFails, StoreTyped
  <2>1. Typed'
    <3>1. NodeTyped'
      BY <1>5, <2>0, <2>b DEF Commit, client, net, NodeTyped
    <3>2. StoreTyped'
      BY <1>5, <2>0, <2>b DEF Commit, client, net, StoreTyped
    <3>3. FlagsTyped'
      BY <1>5, <2>0, <2>b DEF Commit, client, net, FlagsTyped
    <3>4. LinkTyped'
      BY <1>5, <2>0, <2>b DEF Commit, client, net, LinkTyped
    <3>5. HistoryTyped'
      BY <1>5, <2>0, <2>b DEF Commit, client, net, HistoryTyped
    <3> QED
      BY <3>1, <3>2, <3>3, <3>4, <3>5
  <2>2. Phases'
    BY <1>5, <2>0, <2>b DEF Commit, client, net, Phases
  <2>3. Known'
    BY <1>5, <2>0, <2>b DEF Commit, client, net, Known
  <2> QED
    BY <2>1, <2>2, <2>3
<1> QED
  BY <1>1, <1>2, <1>3, <1>4, <1>5 DEF SampleStep

\* One unit of time later every entry is one unit older, up to the largest age kept.
LEMMA Aged ==
  ASSUME Typed, Tick
  PROVE  /\ window' \in Seq(Entry) /\ Len(window') = Len(window) /\ DOMAIN window' = DOMAIN window
         /\ \A i \in DOMAIN window : /\ window'[i].r = window[i].r
                                     /\ window'[i].age = Older(window[i].age, Horizon)
         /\ Readings(window') = Readings(window)
<1>1. window \in Seq(Entry) /\ window' = [i \in DOMAIN window |-> [window[i] EXCEPT !.age = Older(@, Horizon)]]
  BY DEF Typed, NodeTyped, Tick
<1>2. ASSUME NEW i \in DOMAIN window
      PROVE  /\ window'[i] \in Entry /\ window'[i].r = window[i].r
             /\ window'[i].age = Older(window[i].age, Horizon)
  <2>1. window[i] \in Entry
    BY <1>1
  <2>2. window'[i] = [window[i] EXCEPT !.age = Older(@, Horizon)]
    BY <1>1
  <2>3. Older(window[i].age, Horizon) \in 0 .. (Horizon + 1)
    BY <2>1, Bounds DEF Older, Entry
  <2> QED
    BY <2>1, <2>2, <2>3 DEF Entry
<1>3. window' \in Seq(Entry) /\ Len(window') = Len(window) /\ DOMAIN window' = DOMAIN window
  <2> DEFINE F(i) == [window[i] EXCEPT !.age = Older(@, Horizon)]
  <2>1. window' = [i \in 1 .. Len(window) |-> F(i)] /\ Len(window) \in Nat
        /\ DOMAIN window = 1 .. Len(window)
    BY <1>1
  <2>2. \A i \in 1 .. Len(window) : F(i) \in Entry
    BY <1>2, <2>1
  <2> HIDE DEF F
  <2> QED
    BY <2>1, <2>2
<1>4. Readings(window') = Readings(window)
  BY <1>2, <1>3 DEF Readings
<1> QED
  BY <1>2, <1>3, <1>4

LEMMA OutsideTyped ==
  ASSUME TInv, Tick \/ Deliver \/ Boot \/ Environment
  PROVE  TInv'
<1> USE Bounds DEF TInv, Typed
<1>0. Elements(<<>>) = {} /\ Readings(<<>>) = {}
  BY DEF Elements, Readings
<1>1. CASE Tick
  <2>0. /\ window' \in Seq(Entry) /\ Len(window') <= WindowCapacity
        /\ Readings(window') = Readings(window)
        /\ sinceIn' \in 0 .. (KeepAlive + 1) /\ sinceOut' \in 0 .. (KeepAlive + 1)
        /\ sinceRead' \in 0 .. ReadPeriod /\ sincePass' \in 0 .. MaxPass
        /\ (window = <<>> => window' = <<>>)
    <3>1. /\ sinceIn' \in {Older(sinceIn, KeepAlive), sinceIn}
          /\ sinceOut' \in {Older(sinceOut, KeepAlive), sinceOut}
          /\ sinceRead' = IF sinceRead < ReadPeriod THEN sinceRead + 1 ELSE sinceRead
          /\ sincePass < MaxPass /\ sincePass' = sincePass + 1
      BY <1>1 DEF Tick
    <3>2. sinceIn' \in 0 .. (KeepAlive + 1) /\ sinceOut' \in 0 .. (KeepAlive + 1)
      BY <3>1 DEF Older, LinkTyped
    <3>3. sinceRead' \in 0 .. ReadPeriod /\ sincePass' \in 0 .. MaxPass
      BY <3>1 DEF LinkTyped, NodeTyped
    <3>4. /\ window' \in Seq(Entry) /\ Len(window') = Len(window)
          /\ Readings(window') = Readings(window) /\ Len(window) <= WindowCapacity
      BY <1>1, Aged DEF NodeTyped
    <3>5. window = <<>> => window' = <<>>
      BY <3>4
    <3> QED
      BY <3>2, <3>3, <3>4, <3>5
  <2>1. Typed'
    <3>1. NodeTyped'
      BY <1>1, <2>0 DEF Tick, flash, net, ghost, NodeTyped
    <3>2. StoreTyped'
      BY <1>1, <2>0 DEF Tick, flash, net, ghost, StoreTyped
    <3>3. FlagsTyped'
      BY <1>1, <2>0 DEF Tick, flash, net, ghost, FlagsTyped
    <3>4. LinkTyped'
      BY <1>1, <2>0 DEF Tick, flash, net, ghost, LinkTyped
    <3>5. HistoryTyped'
      BY <1>1, <2>0 DEF Tick, flash, net, ghost, HistoryTyped
    <3> QED
      BY <3>1, <3>2, <3>3, <3>4, <3>5
  <2>2. Phases'
    BY <1>1, <2>0 DEF Tick, flash, net, ghost, Phases
  <2>3. Known'
    BY <1>1, <2>0 DEF Tick, flash, net, ghost, Known
  <2> QED
    BY <2>1, <2>2, <2>3
<1>2. CASE Deliver
  <2>0. /\ wire' \in Seq(Reading \cup {Ping}) /\ Elements(wire') \subseteq Elements(wire)
        /\ alive /\ Head(wire) \in Elements(wire)
        /\ Head(wire) # Ping => Head(wire) \in Reading /\ delivered' = delivered \cup {Head(wire)}
        /\ Head(wire) = Ping => delivered' = delivered
    <3> DEFINE T == Reading \cup {Ping}
    <3>1. wire \in Seq(T) /\ wire # <<>> /\ wire' = Tail(wire) /\ alive
      BY <1>2 DEF Deliver, LinkTyped
    <3>2. Elements(wire) = {Head(wire)} \cup Elements(Tail(wire)) /\ Elements(wire) \subseteq T
      BY <3>1, ElementsOf
    <3>3. Tail(wire) \in Seq(T)
      BY <3>1
    <3> QED
      BY <1>2, <3>1, <3>2, <3>3 DEF Deliver
  <2>1. Typed'
    <3>1. NodeTyped'
      BY <1>2, <2>0 DEF Deliver, flash, node, client, NodeTyped
    <3>2. StoreTyped'
      BY <1>2, <2>0 DEF Deliver, flash, node, client, StoreTyped
    <3>3. FlagsTyped'
      BY <1>2, <2>0 DEF Deliver, flash, node, client, FlagsTyped
    <3>4. LinkTyped'
      BY <1>2, <2>0 DEF Deliver, flash, node, client, LinkTyped
    <3>5. HistoryTyped'
      BY <1>2, <2>0 DEF Deliver, flash, node, client, HistoryTyped
    <3> QED
      BY <3>1, <3>2, <3>3, <3>4, <3>5
  <2>2. Phases'
    BY <1>2, <2>0 DEF Deliver, flash, node, client, Phases
  <2>3. Known'
    BY <1>2, <2>0 DEF Deliver, flash, node, client, Known
  <2> QED
    BY <2>1, <2>2, <2>3
<1>3. CASE Boot
  <2>1. Typed'
    <3>1. NodeTyped'
      BY <1>3 DEF Boot, flash, client, net, ghost, NodeTyped
    <3>2. StoreTyped'
      BY <1>3 DEF Boot, flash, client, net, ghost, StoreTyped
    <3>3. FlagsTyped'
      BY <1>3 DEF Boot, flash, client, net, ghost, FlagsTyped
    <3>4. LinkTyped'
      BY <1>3 DEF Boot, flash, client, net, ghost, LinkTyped
    <3>5. HistoryTyped'
      BY <1>3 DEF Boot, flash, client, net, ghost, HistoryTyped
    <3> QED
      BY <3>1, <3>2, <3>3, <3>4, <3>5
  <2>2. Phases'
    BY <1>3 DEF Boot, flash, client, net, ghost, Phases
  <2>3. Known'
    BY <1>3 DEF Boot, flash, client, net, ghost, Known
  <2> QED
    BY <2>1, <2>2, <2>3
<1>4. CASE StreamDies
  <2>1. Typed'
    <3>1. NodeTyped'
      BY <1>4, <1>0 DEF StreamDies, flash, node, client, ghost, NodeTyped
    <3>2. StoreTyped'
      BY <1>4, <1>0 DEF StreamDies, flash, node, client, ghost, StoreTyped
    <3>3. FlagsTyped'
      BY <1>4, <1>0 DEF StreamDies, flash, node, client, ghost, FlagsTyped
    <3>4. LinkTyped'
      BY <1>4, <1>0 DEF StreamDies, flash, node, client, ghost, LinkTyped
    <3>5. HistoryTyped'
      BY <1>4, <1>0 DEF StreamDies, flash, node, client, ghost, HistoryTyped
    <3> QED
      BY <3>1, <3>2, <3>3, <3>4, <3>5
  <2>2. Phases'
    BY <1>4, <1>0 DEF StreamDies, flash, node, client, ghost, Phases
  <2>3. Known'
    BY <1>4, <1>0 DEF StreamDies, flash, node, client, ghost, Known
  <2> QED
    BY <2>1, <2>2, <2>3
<1>5. CASE StreamReset
  <2>1. Typed'
    <3>1. NodeTyped'
      BY <1>5, <1>0 DEF StreamReset, StreamClosed, flash, node, ghost, NodeTyped
    <3>2. StoreTyped'
      BY <1>5, <1>0 DEF StreamReset, StreamClosed, flash, node, ghost, StoreTyped
    <3>3. FlagsTyped'
      BY <1>5, <1>0 DEF StreamReset, StreamClosed, flash, node, ghost, FlagsTyped
    <3>4. LinkTyped'
      BY <1>5, <1>0 DEF StreamReset, StreamClosed, flash, node, ghost, LinkTyped
    <3>5. HistoryTyped'
      BY <1>5, <1>0 DEF StreamReset, StreamClosed, flash, node, ghost, HistoryTyped
    <3> QED
      BY <3>1, <3>2, <3>3, <3>4, <3>5
  <2>2. Phases'
    BY <1>5, <1>0 DEF StreamReset, StreamClosed, flash, node, ghost, Phases
  <2>3. Known'
    BY <1>5, <1>0 DEF StreamReset, StreamClosed, flash, node, ghost, Known
  <2> QED
    BY <2>1, <2>2, <2>3
<1>6. CASE WifiUp
  <2>1. Typed'
    <3>1. NodeTyped'
      BY <1>6 DEF WifiUp, flash, node, net, ghost, NodeTyped
    <3>2. StoreTyped'
      BY <1>6 DEF WifiUp, flash, node, net, ghost, StoreTyped
    <3>3. FlagsTyped'
      BY <1>6 DEF WifiUp, flash, node, net, ghost, FlagsTyped
    <3>4. LinkTyped'
      BY <1>6 DEF WifiUp, flash, node, net, ghost, LinkTyped
    <3>5. HistoryTyped'
      BY <1>6 DEF WifiUp, flash, node, net, ghost, HistoryTyped
    <3> QED
      BY <3>1, <3>2, <3>3, <3>4, <3>5
  <2>2. Phases'
    BY <1>6 DEF WifiUp, flash, node, net, ghost, Phases
  <2>3. Known'
    BY <1>6 DEF WifiUp, flash, node, net, ghost, Known
  <2> QED
    BY <2>1, <2>2, <2>3
<1>7. CASE WifiDown
  <2>1. Typed'
    <3>1. NodeTyped'
      BY <1>7 DEF WifiDown, flash, node, net, ghost, NodeTyped
    <3>2. StoreTyped'
      BY <1>7 DEF WifiDown, flash, node, net, ghost, StoreTyped
    <3>3. FlagsTyped'
      BY <1>7 DEF WifiDown, flash, node, net, ghost, FlagsTyped
    <3>4. LinkTyped'
      BY <1>7 DEF WifiDown, flash, node, net, ghost, LinkTyped
    <3>5. HistoryTyped'
      BY <1>7 DEF WifiDown, flash, node, net, ghost, HistoryTyped
    <3> QED
      BY <3>1, <3>2, <3>3, <3>4, <3>5
  <2>2. Phases'
    BY <1>7 DEF WifiDown, flash, node, net, ghost, Phases
  <2>3. Known'
    BY <1>7 DEF WifiDown, flash, node, net, ghost, Known
  <2> QED
    BY <2>1, <2>2, <2>3
<1>8. CASE PowerCut
  <2>a. /\ image' \in Seq(Reading) /\ Len(image') <= StoreCapacity
        /\ Elements(image') \subseteq Elements(image) \cup Elements(handed) \cup {taken}
        /\ Elements(image') \subseteq Reading
    <3>1. image' \in Seq(Reading) /\ Len(image') = Len(image)
          /\ Elements(image') \subseteq Elements(image) \cup Elements(handed) \cup {taken}
      BY <1>8, CutKeeps
    <3>2. Elements(image') \subseteq Reading
      BY <3>1, ElementsOf
    <3> QED
      BY <3>1, <3>2 DEF StoreTyped
  <2>b. /\ 1 .. (IF pc = "handoff" THEN taken - 1 ELSE taken) \subseteq 1 .. taken
        /\ 1 .. taken \subseteq Reading
    BY DEF HistoryTyped, Reading
  <2>c. Elements(image') \subseteq 1 .. taken
    <3>1. taken \in Elements(image') => taken \in 1 .. taken
      BY <2>a DEF Reading
    <3> QED
      BY <2>a, <2>b, <3>1 DEF Known
  <2>0. /\ cutLost' \subseteq 1 .. taken /\ cutLost' \subseteq Reading /\ cuts' \in 0 .. MaxCuts
        /\ misplaced' \subseteq 1 .. taken /\ misplaced' \subseteq Reading
    BY <1>8, <2>a, <2>b, <2>c DEF PowerCut, Known, HistoryTyped, LinkTyped
  <2>1. Typed'
    <3>1. NodeTyped'
      <4>1. /\ pc' = "off" /\ drained' \in 0 .. DrainBatch
            /\ sinceRead' \in 0 .. ReadPeriod
        BY <1>8 DEF PowerCut
      <4>2. window' = <<>> /\ handed' = <<>> /\ <<>> \in Seq(Entry) /\ <<>> \in Seq(Reading)
        BY <1>8 DEF PowerCut
      <4>3. Len(window') <= WindowCapacity
        BY <4>2
      <4> QED
        BY <4>1, <4>2, <4>3 DEF NodeTyped
    <3>2. StoreTyped'
      BY <1>8, <1>0, <2>a, <2>b, <2>c, <2>0 DEF PowerCut, StreamClosed, flash, StoreTyped
    <3>3. FlagsTyped'
      BY <1>8, <1>0, <2>a, <2>b, <2>c, <2>0 DEF PowerCut, StreamClosed, flash, FlagsTyped
    <3>4. LinkTyped'
      BY <1>8, <1>0, <2>a, <2>b, <2>c, <2>0 DEF PowerCut, StreamClosed, flash, LinkTyped
    <3>5. HistoryTyped'
      BY <1>8, <1>0, <2>a, <2>b, <2>c, <2>0 DEF PowerCut, StreamClosed, flash, HistoryTyped
    <3> QED
      BY <3>1, <3>2, <3>3, <3>4, <3>5
  <2>2. Phases'
    BY <1>8, <1>0, <2>a, <2>b, <2>c, <2>0 DEF PowerCut, StreamClosed, flash, Phases
  <2>3. Known'
    BY <1>8, <1>0, <2>a, <2>b, <2>c, <2>0 DEF PowerCut, StreamClosed, flash, Known
  <2> QED
    BY <2>1, <2>2, <2>3
<1> QED
  BY <1>1, <1>2, <1>3, <1>4, <1>5, <1>6, <1>7, <1>8 DEF Environment

LEMMA TypesKept == TInv /\ [Next]_vars => TInv'
<1> SUFFICES ASSUME TInv, [Next]_vars PROVE TInv'
  OBVIOUS
<1>1. CASE UNCHANGED vars
  <2> USE <1>1 DEF vars, node, client, net, flash, ghost
  <2>1. NodeTyped' /\ StoreTyped'
    BY DEF TInv, Typed, NodeTyped, StoreTyped
  <2>2. FlagsTyped' /\ LinkTyped' /\ HistoryTyped'
    BY DEF TInv, Typed, FlagsTyped, LinkTyped, HistoryTyped
  <2>3. Phases' /\ Known'
    BY DEF TInv, Phases, Known, Readings, Elements
  <2> QED
    BY <2>1, <2>2, <2>3 DEF TInv, Typed
<1>2. CASE Next
  BY <1>2, NetTyped, ReclaimTyped, DrainTyped, SampleTyped, OutsideTyped DEF Next, Pass
<1> QED
  BY <1>1, <1>2

\* The variables keep their types, for every size of window and store and all times.
THEOREM NodeTypeCorrect == Spec => []TypeOK
<1>1. TInv => TypeOK
  BY DEF TInv, Typed, NodeTyped, StoreTyped, FlagsTyped, LinkTyped, HistoryTyped, TypeOK, Entry
<1> QED
  BY <1>1, Begins, TypesKept, PTL DEF Spec

-----------------------------------------------------------------------------
(* How old an undelivered entry gets.                                      *)

\* The two limits that D stands for.
Limit(D) == D = KeepAlive \/ D = RoundTrip + 2 * MaxPass

LEMMA LimitBounds ==
  ASSUME NEW D, Limit(D)
  PROVE  D \in Nat /\ (D = KeepAlive \/ D >= MaxPass)
BY TimesAssumption DEF Limit

LEMMA Ages ==
  ASSUME TInv
  PROVE  /\ \A i \in DOMAIN window : window[i].r \in Reading /\ window[i].age \in Nat
         /\ Silence \in Nat /\ Silence <= KeepAlive + sincePass /\ Silence <= KeepAlive + MaxPass
         /\ sincePass \in Nat /\ sincePass <= MaxPass
         /\ Ping \notin Reading
<1>1. ASSUME NEW i \in DOMAIN window PROVE window[i].r \in Reading /\ window[i].age \in Nat
  <2>1. window[i] \in Entry
    BY DEF TInv, Typed, NodeTyped
  <2> QED
    BY <2>1, Bounds DEF Entry
<1>2. sinceIn \in Nat /\ sincePass \in 0 .. MaxPass
  BY Bounds DEF TInv, Typed, LinkTyped
<1> QED
  BY <1>1, <1>2, Bounds DEF Silence, Reading, Ping

\* A step that leaves the window, the stream and the client's clocks alone.
LEMMA AgesUntouched ==
  ASSUME NEW D, AInv(D), Over' <=> Over,
         UNCHANGED <<window, delivered, conn, sinceIn, pingOut, alive, wire, answer, sincePass>>
  PROVE  AInv(D)'
<1>1. OnePing'
  BY DEF AInv, OnePing
<1>2. Silence' = Silence /\ Undelivered' = Undelivered
  BY DEF Silence, Undelivered
<1>3. ASSUME NEW i \in Undelivered PROVE InTime(D, i)'
  <2>1. InTime(D, i)
    BY DEF AInv, Timely
  <2>2. Follows(i, Silence) => Follows(i, Silence)'
    BY <1>2 DEF Follows
  <2> QED
    BY <1>2, <2>1, <2>2 DEF InTime
<1> QED
  BY <1>1, <1>2, <1>3 DEF AInv, Timely

\* An emptied window.
LEMMA AgesGone ==
  ASSUME NEW D, OnePing', window' = <<>>
  PROVE  AInv(D)'
BY DEF AInv, Timely, Undelivered

LEMMA NetAges ==
  ASSUME NEW D, Limit(D), TInv, AInv(D), NetStep
  PROVE  AInv(D)'
<1> USE Bounds
<1>0. /\ window' = window /\ delivered' = delivered /\ unseen' \in {unseen, TRUE}
      /\ Undelivered' = Undelivered /\ pc' = "reclaim" /\ sincePass' = 0 /\ pc = "net" /\ ~ Over
      /\ Undelivered \subseteq DOMAIN window
  BY DEF NetStep, Connect, NoConnect, KeepAliveLost, SendPing, ReadAnswer, ghost,
         Undelivered, Over
<1>1. ASSUME NEW i \in Undelivered
      PROVE  /\ InTime(D, i) /\ window'[i] = window[i] /\ window[i].age \in Nat
             /\ window[i].r \in Reading
             /\ Silence \in Nat /\ Silence <= KeepAlive + sincePass
             /\ Silence <= KeepAlive + MaxPass /\ sincePass \in Nat /\ sincePass <= MaxPass
             /\ D \in Nat
  BY <1>0, Ages, LimitBounds DEF AInv, Timely
<1>2. CASE Connect \/ NoConnect \/ KeepAliveLost
  <2>1. OnePing'
    <3>1. CASE Connect \/ KeepAliveLost
      BY <3>1 DEF Connect, KeepAliveLost, StreamClosed, OnePing
    <3>2. CASE NoConnect
      BY <3>2 DEF NoConnect, net, client, OnePing, AInv
    <3> QED
      BY <1>2, <3>1, <3>2
  <2>2. Over'
    BY <1>0, <1>2 DEF Connect, NoConnect, KeepAliveLost, StreamClosed, Over, client
  <2>3. ASSUME NEW i \in Undelivered PROVE InTime(D, i)'
    <3>1. window[i].age <= D + 2 * KeepAlive + 2 * MaxPass
      BY <1>0, <1>1 DEF InTime
    <3> QED
      BY <1>1, <2>2, <3>1 DEF InTime
  <2> QED
    BY <1>0, <2>1, <2>3 DEF AInv, Timely
<1>3. CASE SendPing
  <2>0. conn /\ conn' = conn /\ ~ pingOut /\ pingOut' /\ sinceIn' = 0 /\ answer' = answer
        /\ alive' = alive /\ wire' = (IF alive THEN Append(wire, Ping) ELSE wire)
    BY <1>3 DEF SendPing
  <2>1. ~ answer /\ \A k \in DOMAIN wire : wire[k] # Ping
    BY <2>0 DEF AInv, OnePing
  <2>2. wire \in Seq(Reading \cup {Ping})
    BY DEF TInv, Typed, LinkTyped
  <2>3. OnePing'
    <3>1. CASE alive
      <4>1. /\ DOMAIN wire' = 1 .. Len(wire) + 1 /\ DOMAIN wire = 1 .. Len(wire)
            /\ \A k \in DOMAIN wire : wire'[k] = wire[k]
        BY <2>0, <2>2, <3>1
      <4>2. \A k \in DOMAIN wire' : wire'[k] = Ping => k = Len(wire) + 1
        BY <2>1, <2>2, <4>1
      <4> QED
        BY <2>0, <2>1, <4>2 DEF OnePing
    <3>2. CASE ~ alive
      BY <2>0, <2>1, <3>2 DEF OnePing
    <3> QED
      BY <3>1, <3>2
  <2>4. Silence' = 0
    BY <2>0 DEF Silence
  <2>5. ASSUME NEW i \in Undelivered PROVE InTime(D, i)'
    <3>1. window[i].age <= D + Silence /\ Follows(i, Silence)
      BY <1>0, <1>1, <2>0 DEF InTime
    <3>2. window[i].age <= D + KeepAlive + MaxPass + 0
          /\ window[i].age <= D + 2 * KeepAlive + 2 * MaxPass
      BY <1>1, <3>1
    <3>3. Follows(i, Silence)'
      <4> SUFFICES ASSUME alive'
                   PROVE  \E j \in DOMAIN wire' :
                            wire'[j] = window'[i].r /\
                            \A k \in 1 .. j - 1 : wire'[k] = Ping => window'[i].age <= Silence'
        BY DEF Follows
      <4>1. PICK j \in DOMAIN wire : wire[j] = window[i].r
        BY <2>0, <3>1 DEF Follows
      <4>2. /\ DOMAIN wire = 1 .. Len(wire) /\ Len(wire) \in Nat /\ DOMAIN wire' = 1 .. Len(wire) + 1
            /\ \A k \in DOMAIN wire : wire'[k] = wire[k]
        BY <2>0, <2>2
      <4>3. \A k \in 1 .. j - 1 : k \in DOMAIN wire
        BY <4>2
      <4>4. j \in DOMAIN wire'
        BY <4>2
      <4> QED
        BY <1>1, <2>1, <4>1, <4>2, <4>3, <4>4
    <3> QED
      BY <1>1, <2>0, <2>1, <2>4, <3>2, <3>3 DEF InTime
  <2> QED
    BY <1>0, <2>3, <2>5 DEF AInv, Timely
<1>4. CASE ReadAnswer
  <2>0. /\ conn /\ conn' = conn /\ ~ answer' /\ (pingOut' <=> pingOut /\ ~ answer)
        /\ sinceIn' = (IF answer THEN 0 ELSE sinceIn) /\ alive' = alive /\ wire' = wire
        /\ ~ (sinceIn > KeepAlive)
    BY <1>4 DEF ReadAnswer, PingDue
  <2>1. OnePing'
    BY <2>0 DEF AInv, OnePing
  <2>2. sinceIn \in Nat /\ sinceIn <= KeepAlive /\ Silence = sinceIn
    BY <2>0 DEF TInv, Typed, LinkTyped, Silence
  <2>3. Silence' = IF answer THEN 0 ELSE Silence
    BY <2>0, <2>2 DEF Silence
  <2>4. ASSUME NEW i \in Undelivered PROVE InTime(D, i)'
    <3>1. CASE answer
      <4>1. window[i].age <= Silence /\ (D = KeepAlive \/ window[i].age + MaxPass <= D + sincePass)
        BY <1>0, <1>1, <2>0, <3>1 DEF InTime
      <4>2. window[i].age <= D
        BY <1>1, <2>2, <4>1
      <4>3. Follows(i, Silence)'
        <5>1. \A k \in DOMAIN wire : wire[k] # Ping
          BY <3>1 DEF AInv, OnePing
        <5>2. wire \in Seq(Reading \cup {Ping}) /\ Follows(i, Silence)
          BY <1>0, <1>1, <2>0 DEF TInv, Typed, LinkTyped, InTime
        <5>3. \A j \in DOMAIN wire : \A k \in 1 .. j - 1 : k \in DOMAIN wire
          BY <5>2
        <5> QED
          BY <1>0, <2>0, <5>1, <5>2, <5>3 DEF Follows
      <4>4. window[i].age <= D + KeepAlive + MaxPass + 0 /\ window[i].age <= D + 0
            /\ window[i].age <= D + 2 * KeepAlive + 2 * MaxPass
        BY <1>1, <4>2
      <4> QED
        BY <1>1, <2>0, <2>3, <3>1, <4>3, <4>4 DEF InTime
    <3>2. CASE ~ answer
      <4>1. /\ window[i].age <= D + KeepAlive + MaxPass + Silence
            /\ ~ pingOut => window[i].age <= D + Silence
            /\ Follows(i, Silence)
        BY <1>0, <1>1, <2>0 DEF InTime
      <4>2. Follows(i, Silence)'
        BY <1>0, <2>0, <2>3, <3>2, <4>1 DEF Follows
      <4>3. window[i].age <= D + 2 * KeepAlive + 2 * MaxPass
        BY <1>1, <4>1
      <4> QED
        BY <1>1, <2>0, <2>3, <3>2, <4>1, <4>2, <4>3 DEF InTime
    <3> QED
      BY <3>1, <3>2
  <2> QED
    BY <1>0, <2>1, <2>4 DEF AInv, Timely
<1> QED
  BY <1>2, <1>3, <1>4 DEF NetStep

\* A reading that is published enters with age 0; the others keep their places
\* on the wire.
LEMMA PublishAges ==
  ASSUME NEW D, Limit(D), TInv, AInv(D), NEW r \in Reading, Publish(r), ~ Over, ~ Over',
         UNCHANGED <<delivered, conn, sinceIn, pingOut, alive, answer, sincePass>>
  PROVE  AInv(D)'
<1> USE Bounds
<1>0. /\ wire \in Seq(Reading \cup {Ping}) /\ Ping \notin Reading /\ D \in Nat
      /\ Silence \in Nat /\ sincePass \in Nat /\ Silence' = Silence /\ conn
      /\ D = KeepAlive \/ D >= MaxPass
      /\ window \in Seq(Entry)
  BY Ages, LimitBounds DEF TInv, Typed, LinkTyped, NodeTyped, Silence, Publish, CanPublish
<1>1. wire' = IF alive THEN Append(wire, r) ELSE wire
  BY DEF Publish
<1>2. /\ DOMAIN wire = 1 .. Len(wire) /\ Len(wire) \in Nat
      /\ alive => /\ DOMAIN wire' = 1 .. Len(wire) + 1 /\ wire'[Len(wire) + 1] = r
                  /\ \A k \in DOMAIN wire : wire'[k] = wire[k]
  BY <1>0, <1>1
<1>3. OnePing'
  <2>1. CASE alive
    <3>1. \A k \in DOMAIN wire' : wire'[k] = Ping => k \in DOMAIN wire /\ wire[k] = Ping
      BY <1>0, <1>2, <2>1
    <3> QED
      BY <3>1 DEF AInv, OnePing
  <2>2. CASE ~ alive
    BY <1>1, <2>2 DEF AInv, OnePing
  <2> QED
    BY <2>1, <2>2
<1>4. PICK m \in 0 .. Len(window) :
        /\ Len(window') = Len(window) - m + 1
        /\ \A i \in 1 .. Len(window) - m : window'[i] = window[i + m]
        /\ window'[Len(window')] = [r |-> r, age |-> 0]
  BY PublishedWindow DEF TInv
<1>5. window' \in Seq(Entry)
  BY PublishedWindow DEF TInv
<1>6. ASSUME NEW i \in Undelivered' PROVE InTime(D, i)'
  <2>0. i \in DOMAIN window' /\ window'[i].r \notin delivered
    BY DEF Undelivered
  <2>1. CASE i = Len(window')
    <3>1. window'[i].r = r /\ window'[i].age = 0
      BY <1>4, <2>1
    <3>2. Follows(i, Silence)'
      <4> SUFFICES ASSUME alive'
                   PROVE  \E j \in DOMAIN wire' :
                            wire'[j] = window'[i].r /\
                            \A k \in 1 .. j - 1 : wire'[k] = Ping => window'[i].age <= Silence'
        BY DEF Follows
      <4>1. Len(wire) + 1 \in DOMAIN wire' /\ wire'[Len(wire) + 1] = r /\ 0 <= Silence'
        BY <1>0, <1>2
      <4> QED
        BY <3>1, <4>1
    <3>3. 0 <= D + KeepAlive + MaxPass + Silence /\ 0 <= D + Silence /\ 0 <= Silence
          /\ (D = KeepAlive \/ 0 + MaxPass <= D + sincePass)
      BY <1>0
    <3> QED
      BY <1>0, <3>1, <3>2, <3>3 DEF InTime
  <2>2. CASE i # Len(window')
    <3>1. i \in 1 .. Len(window) - m /\ i + m \in DOMAIN window
      BY <1>0, <1>4, <1>5, <2>0, <2>2
    <3>2. window'[i] = window[i + m] /\ i + m \in Undelivered
      BY <1>4, <2>0, <3>1 DEF Undelivered
    <3>3. InTime(D, i + m)
      BY <3>2 DEF AInv, Timely
    <3>4. Follows(i, Silence)'
      <4> SUFFICES ASSUME alive'
                   PROVE  \E j \in DOMAIN wire' :
                            wire'[j] = window'[i].r /\
                            \A k \in 1 .. j - 1 : wire'[k] = Ping => window'[i].age <= Silence'
        BY DEF Follows
      <4>0. Follows(i + m, Silence)
        BY <1>0, <3>3 DEF InTime
      <4>1. PICK j \in DOMAIN wire :
              /\ wire[j] = window[i + m].r
              /\ \A k \in 1 .. j - 1 : wire[k] = Ping => window[i + m].age <= Silence
        BY <4>0 DEF Follows
      <4>2. \A k \in 1 .. j - 1 : k \in DOMAIN wire
        BY <1>2
      <4>3. j \in DOMAIN wire' /\ wire'[j] = wire[j]
        BY <1>2
      <4> QED
        BY <1>0, <1>2, <3>2, <4>1, <4>2, <4>3
    <3> QED
      BY <1>0, <3>2, <3>3, <3>4 DEF InTime
  <2> QED
    BY <2>1, <2>2
<1> QED
  BY <1>3, <1>6 DEF AInv, Timely

\* A window that lost some entries at its front.
LEMMA AgesFewer ==
  ASSUME NEW D, TInv, AInv(D), Over' <=> Over,
         NEW m \in 0 .. Len(window), window' = SubSeq(window, m + 1, Len(window)),
         UNCHANGED <<delivered, conn, sinceIn, pingOut, alive, wire, answer, sincePass>>
  PROVE  AInv(D)'
<1>1. OnePing'
  BY DEF AInv, OnePing
<1>2. Silence' = Silence
  BY DEF Silence
<1>3. window \in Seq(Entry)
  BY DEF TInv, Typed, NodeTyped
<1>4. \A i \in DOMAIN window' : i + m \in DOMAIN window /\ window'[i] = window[i + m]
  BY <1>3, Behind
<1>5. ASSUME NEW i \in Undelivered' PROVE InTime(D, i)'
  <2>0. window'[i] = window[i + m] /\ i + m \in Undelivered
    BY <1>4 DEF Undelivered
  <2>1. InTime(D, i + m)
    BY <2>0 DEF AInv, Timely
  <2>2. Follows(i + m, Silence) => Follows(i, Silence)'
    BY <1>2, <2>0 DEF Follows
  <2> QED
    BY <1>2, <2>0, <2>1, <2>2 DEF InTime
<1> QED
  BY <1>1, <1>5 DEF AInv, Timely

LEMMA PassAges ==
  ASSUME NEW D, Limit(D), TInv, AInv(D), ReclaimStep \/ DrainStep \/ SampleStep
  PROVE  AInv(D)'
<1>1. CASE SessionHolds
  <2>1. ~ Over /\ ~ Over'
    BY <1>1 DEF SessionHolds, Over, Up
  <2> QED
    BY <1>1, <2>1, AgesUntouched DEF SessionHolds, client, net, ghost
<1>2. CASE Reclaim
  <2>1. OnePing'
    BY <1>2 DEF Reclaim, client, net, AInv, OnePing
  <2> QED
    BY <1>2, <2>1, AgesGone DEF Reclaim
<1>3. CASE Requeue
  <2>1. ~ Over /\ ~ Over'
    BY <1>3 DEF Requeue, Over
  <2> QED
    BY <1>3, <2>1, AgesUntouched DEF Requeue, client, net
<1>4. CASE RequeueEnd
  <2>1. ~ Over /\ ~ Over'
    BY <1>4 DEF RequeueEnd, Over
  <2> QED
    BY <1>4, <2>1, AgesUntouched DEF RequeueEnd, client, net, ghost
<1>5. CASE Drain
  <2>1. ~ Over /\ ~ Over'
    BY <1>5 DEF Drain, Over
  <2>2. CASE window' = window
    BY <1>5, <2>1, <2>2, AgesUntouched DEF Drain, client, net, ghost
  <2>3. CASE window' = Expired(window)
    <3>1. PICK m \in 0 .. Len(window) : Expired(window) = SubSeq(window, m + 1, Len(window))
      BY Expiry DEF TInv, Typed, NodeTyped
    <3> QED
      BY <1>5, <2>1, <2>3, <3>1, AgesFewer DEF Drain, client, net, ghost
  <2> QED
    BY <1>5, <2>2, <2>3 DEF Drain
<1>6. CASE DrainOne
  <2>1. ~ Over /\ ~ Over'
    BY <1>6 DEF DrainOne, Over
  <2>2. Head(queue) \in Reading /\ Publish(Head(queue))
    BY <1>6 DEF DrainOne, MayDrain, TInv, Typed, StoreTyped
  <2> QED
    BY <1>6, <2>1, <2>2, PublishAges DEF DrainOne
<1>7. CASE DrainEnd
  <2>1. ~ Over /\ ~ Over'
    BY <1>7 DEF DrainEnd, Over
  <2> QED
    BY <1>7, <2>1, AgesUntouched DEF DrainEnd, client, net, ghost
<1>8. CASE NoReading
  <2>1. ~ Over /\ ~ Over'
    BY <1>8 DEF NoReading, Over
  <2> QED
    BY <1>8, <2>1, AgesUntouched DEF NoReading, client, net, ghost
<1>9. CASE GoLive
  <2>1. ~ Over /\ ~ Over'
    BY <1>9 DEF GoLive, Over
  <2>2. taken \in Reading /\ Publish(taken)
    BY <1>9, Bounds DEF GoLive, Reading, TInv, Typed, HistoryTyped, Phases
  <2> QED
    BY <1>9, <2>1, <2>2, PublishAges DEF GoLive
<1>10. CASE Take \/ Store \/ Commit
  <2>1. ~ Over /\ ~ Over'
    BY <1>10 DEF Take, Store, Commit, Over
  <2> QED
    BY <1>10, <2>1, AgesUntouched DEF Take, Store, Commit, client, net
<1> QED
  BY <1>1, <1>2, <1>3, <1>4, <1>5, <1>6, <1>7, <1>8, <1>9, <1>10
     DEF ReclaimStep, DrainStep, SampleStep

LEMMA TickAges ==
  ASSUME NEW D, Limit(D), TInv, AInv(D), Tick
  PROVE  AInv(D)'
<1> USE Bounds
<1>0. /\ pc = "net" /\ pc' = "net" /\ sincePass' = sincePass + 1 /\ wire' = wire
      /\ alive' = alive /\ answer' = answer /\ pingOut' = pingOut /\ conn' = conn
      /\ sinceIn' = (IF conn THEN Older(sinceIn, KeepAlive) ELSE sinceIn)
      /\ delivered' = delivered
  BY DEF Tick, net, ghost
<1>1. ~ Over /\ ~ Over' /\ OnePing'
  BY <1>0 DEF Over, AInv, OnePing
<1>2. sinceIn \in 0 .. (KeepAlive + 1) /\ sincePass \in Nat
  BY DEF TInv, Typed, LinkTyped
<1>3. Silence' \in Nat /\ Silence \in Nat /\ (conn => Silence' >= Silence + 1)
  BY <1>0, <1>2 DEF Silence, Older
<1>4. ASSUME NEW i \in Undelivered' PROVE InTime(D, i)'
  <2>1. /\ i \in Undelivered /\ window'[i].r = window[i].r
        /\ window'[i].age = Older(window[i].age, Horizon) /\ window[i].age \in Nat
    BY <1>0, Aged, Ages DEF Undelivered, TInv
  <2>2. window'[i].age \in Nat /\ window'[i].age <= window[i].age + 1
    BY <2>1 DEF Older
  <2>3. InTime(D, i) /\ D \in Nat
    BY <2>1, LimitBounds DEF AInv, Timely
  <2>4. ASSUME conn PROVE Follows(i, Silence)'
    <3>1. Follows(i, Silence)
      BY <1>1, <2>3, <2>4 DEF InTime
    <3>2. window[i].age <= Silence => window'[i].age <= Silence'
      BY <1>3, <2>1, <2>2, <2>4
    <3> QED
      BY <1>0, <2>1, <3>1, <3>2 DEF Follows
  <2>5. ASSUME conn
        PROVE  /\ window'[i].age <= D + KeepAlive + MaxPass + Silence'
               /\ ~ pingOut => window'[i].age <= D + Silence'
               /\ answer => window'[i].age <= Silence'
                            /\ (D = KeepAlive \/ window'[i].age + MaxPass <= D + sincePass')
    BY <1>0, <1>1, <1>2, <1>3, <2>1, <2>2, <2>3, <2>5 DEF InTime
  <2>6. ASSUME ~ conn
        PROVE  window'[i].age <= D + 2 * KeepAlive + MaxPass + sincePass'
    BY <1>0, <1>1, <1>2, <2>1, <2>2, <2>3, <2>6 DEF InTime
  <2> QED
    BY <1>0, <1>1, <2>4, <2>5, <2>6 DEF InTime
<1> QED
  BY <1>1, <1>4 DEF AInv, Timely

\* What the answer to a ping may be read with.
PromptIf(D) == D = KeepAlive \/ ReadBy(RoundTrip + MaxPass)

LEMMA DeliverAges ==
  ASSUME NEW D, Limit(D), TInv, AInv(D), PromptIf(D), Deliver
  PROVE  AInv(D)'
<1> USE Bounds
<1>0. /\ wire \in Seq(Reading \cup {Ping}) /\ wire # <<>> /\ wire' = Tail(wire) /\ alive /\ conn
      /\ UNCHANGED <<window, conn, sinceIn, pingOut, alive, sincePass, pc, unseen>>
  BY DEF Deliver, node, client, TInv, Typed, LinkTyped, Phases
<1>1. /\ Len(wire) \in Nat /\ Len(wire) > 0 /\ DOMAIN wire = 1 .. Len(wire)
      /\ DOMAIN wire' = 1 .. Len(wire) - 1 /\ Head(wire) = wire[1]
      /\ \A k \in DOMAIN wire' : k + 1 \in DOMAIN wire /\ wire'[k] = wire[k + 1]
  BY <1>0
<1>2. Silence' = Silence /\ (Over' <=> Over)
  BY <1>0 DEF Silence, Over
<1>3. \/ Head(wire) = Ping /\ answer' /\ delivered' = delivered
      \/ Head(wire) # Ping /\ answer' = answer /\ delivered' = delivered \cup {Head(wire)}
  BY DEF Deliver
<1>4. OnePing'
  <2>1. ASSUME NEW k \in DOMAIN wire', wire'[k] = Ping PROVE k + 1 \in DOMAIN wire /\ wire[k + 1] = Ping
    BY <1>1, <2>1
  <2>2. CASE Head(wire) = Ping
    <3>1. 1 \in DOMAIN wire /\ wire[1] = Ping
      BY <1>1, <2>2
    <3>2. pingOut /\ \A k \in DOMAIN wire : wire[k] = Ping => k = 1
      BY <3>1 DEF AInv, OnePing
    <3>3. \A k \in DOMAIN wire' : wire'[k] # Ping
      <4> SUFFICES ASSUME NEW k \in DOMAIN wire', wire'[k] = Ping PROVE FALSE
        OBVIOUS
      <4>1. k + 1 = 1
        BY <2>1, <3>2
      <4> QED
        BY <1>1, <4>1
    <3> QED
      BY <1>0, <3>2, <3>3 DEF OnePing
  <2>3. CASE Head(wire) # Ping
    <3>1. answer' = answer /\ (answer => pingOut)
      BY <1>3, <2>3 DEF AInv, OnePing
    <3>2. ASSUME NEW k \in DOMAIN wire', wire'[k] = Ping
          PROVE  pingOut /\ ~ answer /\ \A l \in DOMAIN wire' : wire'[l] = Ping => l = k
      <4>1. k + 1 \in DOMAIN wire /\ wire[k + 1] = Ping
        BY <2>1, <3>2
      <4>2. pingOut /\ ~ answer /\ \A l \in DOMAIN wire : wire[l] = Ping => l = k + 1
        BY <4>1 DEF AInv, OnePing
      <4>3. ASSUME NEW l \in DOMAIN wire', wire'[l] = Ping PROVE l = k
        <5>1. l + 1 = k + 1
          BY <2>1, <4>2, <4>3
        <5> QED
          BY <1>1, <5>1
      <4> QED
        BY <4>2, <4>3
    <3> QED
      BY <1>0, <3>1, <3>2 DEF OnePing
  <2> QED
    BY <2>2, <2>3
<1>5. ASSUME NEW i \in Undelivered' PROVE InTime(D, i)'
  <2>1. i \in Undelivered /\ window'[i] = window[i] /\ window[i].r \notin delivered'
    BY <1>0, <1>3 DEF Undelivered
  <2>2. InTime(D, i) /\ window[i].age \in Nat /\ window[i].r \in Reading /\ Ping \notin Reading
        /\ sincePass \in Nat /\ sincePass <= MaxPass
    BY <2>1, Ages DEF AInv, Timely, Undelivered
  <2>3. CASE Over
    BY <1>0, <1>2, <2>1, <2>2, <2>3 DEF InTime
  <2>4. CASE ~ Over
    <3>1. PICK j \in DOMAIN wire :
            /\ wire[j] = window[i].r
            /\ \A k \in 1 .. j - 1 : wire[k] = Ping => window[i].age <= Silence
      BY <1>0, <2>2, <2>4 DEF InTime, Follows
    <3>2. j # 1
      <4> SUFFICES ASSUME j = 1 PROVE FALSE
        OBVIOUS
      <4>1. Head(wire) = window[i].r /\ Head(wire) # Ping
        BY <1>1, <2>2, <3>1
      <4> QED
        BY <1>3, <2>1, <4>1
    <3>3. j - 1 \in DOMAIN wire' /\ wire'[j - 1] = window[i].r /\ 1 \in 1 .. j - 1
      <4>1. j - 1 \in 1 .. Len(wire) - 1 /\ j - 1 + 1 = j /\ 1 \in 1 .. j - 1
        BY <1>1, <3>2
      <4> QED
        BY <1>1, <3>1, <4>1
    <3>4. Follows(i, Silence)'
      <4>1. \A k \in 1 .. (j - 1) - 1 : wire'[k] = Ping => window[i].age <= Silence
        <5> SUFFICES ASSUME NEW k \in 1 .. (j - 1) - 1, wire'[k] = Ping
                     PROVE  window[i].age <= Silence
          OBVIOUS
        <5>1. k + 1 \in 1 .. j - 1 /\ k \in DOMAIN wire'
          BY <1>1
        <5> QED
          BY <1>1, <3>1, <5>1
      <4> QED
        BY <1>2, <2>1, <3>3, <4>1 DEF Follows
    <3>5. CASE Head(wire) = Ping
      <4>1. window[i].age <= Silence
        BY <1>1, <3>1, <3>3, <3>5
      <4>2. D = KeepAlive \/ window[i].age + MaxPass <= D + sincePass
        <5>1. CASE D = KeepAlive
          BY <5>1
        <5>2. CASE D # KeepAlive
          <6>1. ReadBy(RoundTrip + MaxPass) /\ D = RoundTrip + 2 * MaxPass
            BY <5>2 DEF PromptIf, Limit
          <6>2. 1 \in DOMAIN wire /\ wire[1] = Ping /\ 1 < j /\ i \in DOMAIN window
            BY <1>1, <2>1, <3>2, <3>5 DEF Undelivered
          <6>3. window[i].age <= RoundTrip + MaxPass
            BY <1>0, <3>1, <6>1, <6>2 DEF ReadBy
          <6> QED
            BY <2>2, <6>1, <6>3, TimesAssumption
        <5> QED
          BY <5>1, <5>2
      <4>3. window[i].age <= D + KeepAlive + MaxPass + Silence
            /\ (~ pingOut => window[i].age <= D + Silence)
        BY <1>0, <2>2, <2>4 DEF InTime
      <4> QED
        BY <1>0, <1>2, <2>1, <2>4, <3>4, <4>1, <4>2, <4>3 DEF InTime
    <3>6. CASE Head(wire) # Ping
      <4>1. answer' = answer
        BY <1>3, <3>6
      <4> QED
        BY <1>0, <1>2, <2>1, <2>2, <2>4, <3>4, <4>1 DEF InTime
    <3> QED
      BY <3>5, <3>6
  <2> QED
    BY <2>3, <2>4
<1> QED
  BY <1>4, <1>5 DEF AInv, Timely

LEMMA OutsideAges ==
  ASSUME NEW D, Limit(D), TInv, AInv(D), Boot \/ Environment
  PROVE  AInv(D)'
<1> USE Bounds
<1>1. CASE Boot
  <2>1. window' = <<>>
    BY <1>1 DEF Boot, TInv, Phases
  <2>2. OnePing'
    BY <1>1 DEF Boot, net, client, AInv, OnePing
  <2> QED
    BY <2>1, <2>2, AgesGone
<1>2. CASE StreamDies
  <2>1. ~ alive' /\ OnePing' /\ (Over' <=> Over) /\ Silence' = Silence /\ Undelivered' = Undelivered
    BY <1>2 DEF StreamDies, client, node, ghost, AInv, OnePing, Over, Silence, Undelivered
  <2>2. ASSUME NEW i \in Undelivered PROVE InTime(D, i)'
    <3>1. InTime(D, i) /\ Follows(i, Silence)'
      BY <2>1 DEF AInv, Timely, Follows
    <3> QED
      BY <1>2, <2>1, <3>1 DEF InTime, StreamDies, client, node
  <2> QED
    BY <2>1, <2>2 DEF AInv, Timely
<1>3. CASE StreamReset
  <2>1. /\ ~ conn' /\ conn /\ OnePing' /\ Undelivered' = Undelivered /\ window' = window
        /\ sincePass' = sincePass /\ (Over' <=> pc = "reclaim")
    BY <1>3 DEF StreamReset, StreamClosed, node, ghost, OnePing, Over, Undelivered
  <2>2. ASSUME NEW i \in Undelivered PROVE InTime(D, i)'
    <3>1. /\ InTime(D, i) /\ window[i].age \in Nat /\ D \in Nat
          /\ Silence \in Nat /\ Silence <= KeepAlive + sincePass
          /\ Silence <= KeepAlive + MaxPass /\ sincePass \in Nat /\ sincePass <= MaxPass
      BY Ages, LimitBounds DEF AInv, Timely, Undelivered
    <3>2. \/ window[i].age <= D + 2 * KeepAlive + 2 * MaxPass /\ Over
          \/ window[i].age <= D + KeepAlive + MaxPass + Silence /\ ~ Over
      BY <2>1, <3>1 DEF InTime
    <3>3. /\ window[i].age <= D + 2 * KeepAlive + 2 * MaxPass
          /\ ~ Over => window[i].age <= D + 2 * KeepAlive + MaxPass + sincePass
      BY <3>1, <3>2
    <3>4. Over => pc = "reclaim"
      BY DEF Over
    <3> QED
      BY <2>1, <3>3, <3>4 DEF InTime
  <2> QED
    BY <2>1, <2>2 DEF AInv, Timely
<1>4. CASE WifiUp \/ WifiDown
  <2>1. Over' <=> Over
    BY <1>4 DEF WifiUp, WifiDown, node, Over
  <2> QED
    BY <1>4, <2>1, AgesUntouched DEF WifiUp, WifiDown, node, net, ghost
<1>5. CASE PowerCut
  <2>1. OnePing' /\ window' = <<>>
    BY <1>5 DEF PowerCut, StreamClosed, OnePing
  <2> QED
    BY <2>1, AgesGone
<1> QED
  BY <1>1, <1>2, <1>3, <1>4, <1>5 DEF Environment

LEMMA AgesBegin ==
  ASSUME NEW D, Init
  PROVE  AInv(D)
BY DEF Init, AInv, OnePing, Timely, Undelivered

\* An undelivered entry never gets older than AInv(D) says.
LEMMA AgesKept ==
  ASSUME NEW D, Limit(D), TInv, AInv(D), PromptIf(D), [Next]_vars
  PROVE  AInv(D)'
<1>1. CASE UNCHANGED vars
  <2>1. Over' <=> Over
    BY <1>1 DEF vars, node, client, Over
  <2> QED
    BY <1>1, <2>1, AgesUntouched DEF vars, node, client, net, ghost
<1>2. CASE Next
  BY <1>2, NetAges, PassAges, TickAges, DeliverAges, OutsideAges DEF Next, Pass
<1> QED
  BY <1>1, <1>2

-----------------------------------------------------------------------------
(* No reading vanishes.                                                    *)

\* What the horizon must be longer than, for an answer that comes within D.
HorizonCovers(D) == D + 2 * KeepAlive + 2 * MaxPass <= Horizon

\* What the window forgets for its age has arrived.
LEMMA ForgottenArrived ==
  ASSUME NEW D, Limit(D), HorizonCovers(D), TInv, AInv(D),
         NEW i \in DOMAIN window, window[i].age > Horizon
  PROVE  window[i].r \in delivered
<1> SUFFICES ASSUME window[i].r \notin delivered PROVE FALSE
  OBVIOUS
<1>1. /\ InTime(D, i) /\ window[i].age \in Nat /\ D \in Nat
      /\ Silence \in Nat /\ Silence <= KeepAlive + MaxPass
      /\ sincePass \in Nat /\ sincePass <= MaxPass
  BY Ages, LimitBounds DEF AInv, Timely, Undelivered
<1>2. window[i].age <= D + 2 * KeepAlive + 2 * MaxPass
  <2>1. CASE Over
    BY <1>1, <2>1 DEF InTime
  <2>2. CASE ~ Over /\ conn
    <3>1. window[i].age <= D + KeepAlive + MaxPass + Silence
      BY <1>1, <2>2 DEF InTime
    <3> QED
      BY <1>1, <3>1, Bounds
  <2>3. CASE ~ Over /\ ~ conn
    <3>1. window[i].age <= D + 2 * KeepAlive + MaxPass + sincePass
      BY <1>1, <2>3 DEF InTime
    <3> QED
      BY <1>1, <3>1, Bounds
  <2> QED
    BY <2>1, <2>2, <2>3
<1> QED
  BY <1>1, <1>2, Bounds DEF HorizonCovers

\* Where a reading may be, apart from the store.
Elsewhere == delivered \cup Readings(window) \cup Elements(handed) \cup counted \cup exposed \cup cutLost

\* A step that forgets nothing.
LEMMA NothingForgotten ==
  ASSUME Accounted, taken' = taken, pc # "off", pc' # "off", pc = "handoff" => pc' = "handoff",
         Elsewhere \subseteq Elsewhere', Elements(queue) \subseteq Elements(queue') \cup Elsewhere'
  PROVE  Accounted'
<1>1. 1 .. taken \subseteq Elsewhere \cup Elements(queue) \cup InHand
  BY DEF Accounted, Elsewhere
<1>2. InHand \subseteq InHand'
  BY DEF InHand
<1>3. 1 .. taken' \subseteq Elsewhere' \cup Elements(queue') \cup InHand'
  BY <1>1, <1>2
<1> QED
  BY <1>3 DEF Accounted, Elsewhere

\* The window without what expire() drops, and what was delivered.
LEMMA ExpiryForgets ==
  ASSUME NEW D, Limit(D), HorizonCovers(D), TInv, AInv(D)
  PROVE  Readings(window) \subseteq Readings(Expired(window)) \cup delivered
<1>0. window \in Seq(Entry)
  BY DEF TInv, Typed, NodeTyped
<1>1. PICK m \in 0 .. Len(window) :
        /\ Expired(window) = SubSeq(window, m + 1, Len(window))
        /\ \A i \in 1 .. m : window[i].age > Horizon
  BY <1>0, Expiry
<1> DEFINE w == Expired(window)
<1> HIDE DEF w
<1>2. /\ DOMAIN w = 1 .. Len(window) - m /\ DOMAIN window = 1 .. Len(window) /\ Len(window) \in Nat
      /\ \A i \in DOMAIN w : w[i] = window[i + m]
  BY <1>0, <1>1, Behind DEF w
<1>3. ASSUME NEW i \in DOMAIN window PROVE window[i].r \in Readings(w) \cup delivered
  <2>1. CASE i <= m
    BY <1>1, <1>2, <2>1, ForgottenArrived
  <2>2. CASE ~ (i <= m)
    <3>1. i - m \in DOMAIN w /\ i - m + m = i
      BY <1>2, <2>2
    <3> QED
      BY <1>2, <3>1 DEF Readings
  <2> QED
    BY <2>1, <2>2
<1> QED
  BY <1>3 DEF Readings, w

\* So it is with what a publish drops, or it is counted as exposed.
LEMMA PublishForgets ==
  ASSUME NEW D, Limit(D), HorizonCovers(D), TInv, AInv(D), NEW r \in Reading, Publish(r)
  PROVE  Readings(window) \cup {r} \subseteq Readings(window') \cup delivered \cup exposed'
<1>0. window \in Seq(Entry) /\ window' \in Seq(Entry)
  BY PublishedWindow DEF TInv, Typed, NodeTyped
<1>1. PICK m \in 0 .. Len(window) :
        /\ Len(window') = Len(window) - m + 1
        /\ \A i \in 1 .. Len(window) - m : window'[i] = window[i + m]
        /\ window'[Len(window')] = [r |-> r, age |-> 0]
        /\ \A i \in 1 .. m : window[i].age > Horizon \/ window[i].r \in exposed'
  BY PublishedWindow DEF TInv
<1>2. /\ DOMAIN window = 1 .. Len(window) /\ Len(window) \in Nat /\ Len(window') \in DOMAIN window'
      /\ 1 .. Len(window) - m \subseteq DOMAIN window'
  BY <1>0, <1>1
<1>3. r \in Readings(window')
  BY <1>1, <1>2 DEF Readings
<1>4. ASSUME NEW i \in DOMAIN window
      PROVE  window[i].r \in Readings(window') \cup delivered \cup exposed'
  <2>1. CASE i <= m
    BY <1>1, <1>2, <2>1, ForgottenArrived
  <2>2. CASE ~ (i <= m)
    <3>1. i - m \in 1 .. Len(window) - m /\ i - m + m = i
      BY <1>2, <2>2
    <3> QED
      BY <1>1, <1>2, <3>1 DEF Readings
  <2> QED
    BY <2>1, <2>2
<1> QED
  BY <1>3, <1>4 DEF Readings

LEMMA AccountedKept ==
  ASSUME NEW D, Limit(D), HorizonCovers(D), TInv, AInv(D), Accounted, [Next]_vars
  PROVE  Accounted'
<1>1. CASE UNCHANGED vars
  BY <1>1 DEF vars, node, net, flash, ghost, Accounted, InHand, Readings, Elements
<1>2. CASE NetStep \/ Deliver \/ SessionHolds \/ RequeueEnd \/ DrainEnd \/ NoReading \/ Commit
  <2>1. /\ pc # "off" /\ UNCHANGED <<window, handed, queue, exposed, cutLost, taken>>
        /\ delivered \subseteq delivered' /\ counted \subseteq counted' /\ pc' # "off"
        /\ pc = "handoff" => pc' = "handoff"
    <3>1. CASE NetStep
      BY <3>1 DEF NetStep, Connect, NoConnect, KeepAliveLost, SendPing, ReadAnswer, ghost
    <3>2. CASE SessionHolds \/ RequeueEnd \/ DrainEnd \/ NoReading \/ Commit
      BY <3>2 DEF SessionHolds, RequeueEnd, DrainEnd, NoReading, Commit, ghost
    <3>3. CASE Deliver
      BY <3>3 DEF Deliver, node, TInv, Phases
    <3> QED
      BY <1>2, <3>1, <3>2, <3>3
  <2> QED
    BY <2>1, NothingForgotten DEF Elsewhere, Readings, Elements
<1>3. CASE Reclaim
  <2> DEFINE w == Expired(window)
  <2>1. handed' = [i \in DOMAIN w |-> w[i].r] /\ handed = <<>>
    BY <1>3 DEF Reclaim, TInv, Phases
  <2>2. Elements(handed') = Readings(w) /\ Elements(handed) = {}
    BY <2>1 DEF Elements, Readings
  <2>3. Readings(window) \subseteq Readings(w) \cup delivered
    BY ExpiryForgets
  <2>4. /\ taken' = taken /\ pc = "reclaim" /\ pc' # "off"
        /\ UNCHANGED <<queue, delivered, counted, exposed, cutLost>>
    BY <1>3 DEF Reclaim, ghost
  <2> HIDE DEF w
  <2>5. Elsewhere \subseteq Elsewhere'
    BY <2>2, <2>3, <2>4 DEF Elsewhere
  <2> QED
    BY <2>4, <2>5, NothingForgotten
<1>4. CASE Requeue
  <2> DEFINE r == Head(handed)
  <2>1. handed \in Seq(Reading) /\ handed # <<>> /\ handed' = Tail(handed)
    BY <1>4 DEF Requeue, TInv, Typed, NodeTyped
  <2>2. Elements(handed) = {r} \cup Elements(handed') /\ r \in Reading
    BY <2>1, ElementsOf
  <2> HIDE DEF r
  <2>3. PushDeferred(r)
    BY <1>4 DEF Requeue, r
  <2>4. Elements(queue) \cup {r} \subseteq Elements(queue') \cup counted' /\ counted \subseteq counted'
    BY <2>2, <2>3, PushKeeps DEF TInv
  <2>5. /\ taken' = taken /\ pc = "requeue" /\ pc' # "off"
        /\ UNCHANGED <<window, delivered, exposed, cutLost>>
    BY <1>4 DEF Requeue
  <2>6. 1 .. taken \subseteq Elsewhere \cup Elements(queue)
    BY <2>5 DEF Accounted, Elsewhere, InHand
  <2>7. Elsewhere \cup Elements(queue) \subseteq Elsewhere' \cup Elements(queue')
    BY <2>2, <2>4, <2>5 DEF Elsewhere
  <2> QED
    BY <2>5, <2>6, <2>7 DEF Accounted, Elsewhere
<1>5. CASE Drain
  <2>1. Readings(window) \subseteq Readings(window') \cup delivered
    BY <1>5, ExpiryForgets DEF Drain
  <2>2. /\ taken' = taken /\ pc = "drain" /\ pc' # "off"
        /\ UNCHANGED <<handed, queue, delivered, counted, exposed, cutLost>>
    BY <1>5 DEF Drain, ghost
  <2>3. Elsewhere \subseteq Elsewhere'
    BY <2>1, <2>2 DEF Elsewhere
  <2> QED
    BY <2>2, <2>3, NothingForgotten
<1>6. CASE DrainOne
  <2> DEFINE r == Head(queue)
  <2>1. queue \in Seq(Reading) /\ queue # <<>> /\ queue' = Tail(queue)
    BY <1>6 DEF DrainOne, MayDrain, TInv, Typed, StoreTyped
  <2>2. Elements(queue) = {r} \cup Elements(queue') /\ r \in Reading
    BY <2>1, ElementsOf
  <2> HIDE DEF r
  <2>3. Publish(r)
    BY <1>6 DEF DrainOne, r
  <2>4. Readings(window) \cup {r} \subseteq Readings(window') \cup delivered \cup exposed'
    BY <2>2, <2>3, PublishForgets
  <2>5. /\ taken' = taken /\ pc = "draining" /\ pc' # "off" /\ exposed \subseteq exposed'
        /\ UNCHANGED <<handed, delivered, counted, cutLost>>
    BY <1>6, <2>3 DEF DrainOne, Publish
  <2>6. Elsewhere \subseteq Elsewhere' /\ r \in Elsewhere'
    BY <2>4, <2>5 DEF Elsewhere
  <2> QED
    BY <2>2, <2>5, <2>6, NothingForgotten
<1>7. CASE GoLive \/ Store
  <2>1. /\ taken' = taken /\ taken \in Reading /\ pc = "handoff" /\ pc' # "off"
    BY <1>7, Bounds DEF GoLive, Store, Reading, TInv, Typed, HistoryTyped, Phases
  <2>2. Elsewhere \cup Elements(queue) \cup {taken} \subseteq Elsewhere' \cup Elements(queue')
    <3>1. CASE GoLive
      <4>1. Publish(taken)
        BY <3>1 DEF GoLive
      <4>2. Readings(window) \cup {taken} \subseteq Readings(window') \cup delivered \cup exposed'
        BY <2>1, <4>1, PublishForgets
      <4>3. exposed \subseteq exposed' /\ UNCHANGED <<handed, queue, delivered, counted, cutLost>>
        BY <3>1, <4>1 DEF GoLive, Publish
      <4> QED
        BY <4>2, <4>3 DEF Elsewhere
    <3>2. CASE Store
      <4>1. PushDeferred(taken) /\ UNCHANGED <<window, handed, delivered, exposed, cutLost>>
        BY <3>2 DEF Store, PushDeferred
      <4>2. Elements(queue) \cup {taken} \subseteq Elements(queue') \cup counted' /\ counted \subseteq counted'
        BY <2>1, <4>1, PushKeeps DEF TInv
      <4> QED
        BY <4>1, <4>2 DEF Elsewhere
    <3> QED
      BY <1>7, <3>1, <3>2
  <2>3. 1 .. taken \subseteq Elsewhere \cup Elements(queue) \cup {taken}
    BY <2>1 DEF Accounted, Elsewhere, InHand
  <2> QED
    BY <2>1, <2>2, <2>3 DEF Accounted, Elsewhere
<1>8. CASE Tick
  <2>1. /\ taken' = taken /\ pc = "net" /\ pc' # "off" /\ Readings(window') = Readings(window)
        /\ UNCHANGED <<handed, queue, delivered, counted, exposed, cutLost>>
    BY <1>8, Aged DEF Tick, ghost, TInv
  <2> QED
    BY <2>1, NothingForgotten DEF Elsewhere
<1>9. CASE Boot
  BY <1>9 DEF Boot, flash, ghost, Accounted, InHand
<1>10. CASE StreamDies \/ StreamReset \/ WifiUp \/ WifiDown
  BY <1>10 DEF StreamDies, StreamReset, WifiUp, WifiDown, node, flash, ghost, Accounted,
               InHand, Readings, Elements
<1>11. CASE PowerCut
  BY <1>11 DEF PowerCut, Accounted
<1>12. CASE Take
  <2>1. /\ taken' = taken + 1 /\ taken' \in Nat /\ 1 .. taken' = (1 .. taken) \cup {taken'}
        /\ pc = "sample" /\ pc' = "handoff"
        /\ UNCHANGED <<window, handed, queue, delivered, counted, exposed, cutLost>>
    BY <1>12, Bounds DEF Take, TInv, Typed, HistoryTyped
  <2> QED
    BY <2>1 DEF Accounted, InHand
<1> QED
  BY <1>1, <1>2, <1>3, <1>4, <1>5, <1>6, <1>7, <1>8, <1>9, <1>10, <1>11, <1>12
     DEF Next, Pass, ReclaimStep, DrainStep, SampleStep, Environment

-----------------------------------------------------------------------------
(* What a power cut costs of what was never sent.                          *)

SInv == Slots /\ Unsent /\ InRing

\* A step after which the store and its image are what they were.
LEMMA SlotsUntouched ==
  ASSUME SInv, pc # "off", UNCHANGED <<image, queue, behind, taken, cutLost>>,
         published \subseteq published', counted \subseteq counted',
         Handing \subseteq Handing' \cup published' \cup counted',
         pc' = "commit" => pc = "commit"
  PROVE  SInv'
<1>1. Slots'
  BY DEF SInv, Slots
<1>2. Unsent' /\ InRing'
  BY DEF SInv, Unsent, InRing, Elements
<1> QED
  BY <1>1, <1>2 DEF SInv

\* What the image held and the store no longer holds was sent or counted.
LEMMA OldSlots ==
  ASSUME SInv, pc # "off"
  PROVE  Elements(image) \subseteq published \cup counted \cup Handing \cup Elements(queue)
BY DEF SInv, Slots, Elements

\* The header is committed.
LEMMA SlotsCommitted ==
  ASSUME SInv, pc # "off", image' = queue, queue' = queue, behind' = 0, queue \in Seq(Reading),
         pc # "handoff", pc' # "commit", UNCHANGED <<taken, published, counted, cutLost>>
  PROVE  SInv'
<1>1. Slots'
  <2> SUFFICES ASSUME NEW i \in DOMAIN image'
               PROVE  i - behind' \in DOMAIN queue' /\ image'[i] = queue'[i - behind']
    BY DEF Slots
  <2>1. i - 0 = i
    OBVIOUS
  <2> QED
    BY <2>1
<1>2. Unsent'
  <2>1. Elements(image') = Elements(queue)
    BY DEF Elements
  <2>2. Handing \subseteq Elements(queue)
    BY DEF SInv, InRing, Handing
  <2> QED
    BY <2>1, <2>2, OldSlots DEF SInv, Unsent
<1>3. InRing'
  BY DEF InRing
<1> QED
  BY <1>1, <1>2, <1>3 DEF SInv

\* The slot a push writes is free in the store, or its oldest entry is in it.
LEMMA WrittenSlot ==
  ASSUME SInv, Typed, pc # "off", NEW i \in DOMAIN image, i - 1 = HeadSlot
  PROVE  image[i] \in published \cup counted \cup Handing \cup Evicted
<1> DEFINE C == StoreCapacity
           L == Len(queue)
<1>0. /\ queue \in Seq(Reading) /\ image \in Seq(Reading) /\ Len(image) <= C /\ L <= C
      /\ behind \in 0 .. (C - 1) /\ L \in Nat /\ DOMAIN queue = 1 .. L /\ C \in Nat /\ C > 0
      /\ DOMAIN image = 1 .. Len(image) /\ Len(image) \in Nat
  BY Bounds DEF Typed, StoreTyped
<1>1. HeadSlot = IF behind + L < C THEN behind + L ELSE behind + L - C
  <2>1. behind \in 0 .. (StoreCapacity - 1) /\ Len(queue) \in 0 .. StoreCapacity
    BY <1>0
  <2> QED
    BY <2>1, SlotAt DEF HeadSlot
<1>2. \/ image[i] \in published \cup counted \cup Handing
      \/ i - behind \in DOMAIN queue /\ image[i] = queue[i - behind]
  BY DEF SInv, Slots
<1>3. CASE L # C
  <2>1. i - behind \notin 1 .. L
    <3> HIDE DEF C, L
    <3>1. i \in 1 .. Len(image)
      BY <1>0
    <3>2. CASE behind + L < C
      BY <1>0, <1>1, <3>1, <3>2
    <3>3. CASE ~ (behind + L < C)
      <4>1. i - 1 = behind + L - C /\ L < C
        BY <1>0, <1>1, <1>3, <3>3
      <4> QED
        BY <1>0, <3>1, <4>1
    <3> QED
      BY <3>2, <3>3
  <2> QED
    BY <1>0, <1>2, <2>1
<1>4. CASE L = C
  <2>1. i - behind = 1
    BY <1>0, <1>1, <1>4
  <2>2. Evicted = {queue[1]}
    BY <1>0, <1>4 DEF Evicted
  <2> QED
    BY <1>2, <2>1, <2>2
<1> QED
  BY <1>3, <1>4

\* A reading is laid over a slot and the header is not committed.
LEMMA SlotsOverlaid ==
  ASSUME SInv, Typed, pc # "off", NEW r \in Reading, PushUncommitted(r),
         r \in published' \cup counted' \cup Handing', taken' = taken,
         Evicted \subseteq counted', Handing \subseteq Handing',
         published \subseteq published', counted \subseteq counted', cutLost' = cutLost,
         pc' = "commit" => r = taken
  PROVE  SInv'
<1> DEFINE C == StoreCapacity
           L == Len(queue)
           gone == published' \cup counted' \cup Handing'
<1>0. /\ queue \in Seq(Reading) /\ image \in Seq(Reading) /\ Len(image) <= C /\ L <= C
      /\ behind \in 0 .. (C - 1) /\ L \in Nat /\ DOMAIN queue = 1 .. L /\ C \in Nat /\ C > 0
      /\ DOMAIN image = 1 .. Len(image) /\ Len(image) \in Nat
  BY Bounds DEF Typed, StoreTyped
<1>1. /\ DOMAIN image' = DOMAIN image
      /\ \A i \in DOMAIN image : image'[i] = IF i - 1 = HeadSlot THEN r ELSE image[i]
  BY <1>0 DEF PushUncommitted, Overlaid
<1>2. \A i \in DOMAIN image :
        \/ image[i] \in published \cup counted \cup Handing
        \/ i - behind \in DOMAIN queue /\ image[i] = queue[i - behind]
  BY DEF SInv, Slots
<1>3. \A i \in DOMAIN image : i - 1 = HeadSlot => image[i] \in gone
  BY WrittenSlot
<1>4. Unsent'
  <2>1. Elements(image) \subseteq Elements(image') \cup gone
    BY <1>1, <1>3 DEF Elements
  <2> QED
    BY <2>1 DEF SInv, Unsent
<1>5. InRing'
  <2>1. queue' = Pushed(r) /\ r \in Elements(Pushed(r))
    BY PushedQueue DEF PushUncommitted
  <2> QED
    BY <2>1 DEF InRing, Elements
<1>6. Slots'
  <2> SUFFICES ASSUME NEW i \in DOMAIN image', image'[i] \notin gone
               PROVE  i - behind' \in DOMAIN queue' /\ image'[i] = queue'[i - behind']
    BY DEF Slots
  <2>1. image'[i] = image[i] /\ i - 1 # HeadSlot
    BY <1>1
  <2>2. i - behind \in DOMAIN queue /\ image[i] = queue[i - behind]
    BY <1>1, <1>2, <2>1
  <2>3. CASE L # C
    <3>1. queue' = Append(queue, r) /\ behind' = behind
      BY <2>3 DEF PushUncommitted, Pushed, Evicted
    <3>2. DOMAIN queue \subseteq DOMAIN queue' /\ \A k \in DOMAIN queue : queue'[k] = queue[k]
      BY <1>0, <3>1
    <3> QED
      BY <2>1, <2>2, <3>1, <3>2
  <2>4. CASE L = C
    <3>1. Evicted = {Head(queue)} /\ queue # <<>>
      BY <1>0, <2>4 DEF Evicted
    <3>2. queue' = Append(Tail(queue), r) /\ behind' = (behind + 1) % C
      BY <2>4, <3>1 DEF PushUncommitted, Pushed, TailMoves
    <3>3. behind' = IF behind + 1 = C THEN 0 ELSE behind + 1
      BY <1>0, <3>2, NextSlot
    <3>4. /\ DOMAIN queue' = 1 .. L /\ \A k \in 1 .. L - 1 : queue'[k] = queue[k + 1]
      BY <1>0, <3>1, <3>2
    <3>5. HeadSlot = behind
      BY <1>0, <2>4, SlotAt DEF HeadSlot
    <3>6. behind + 1 # C /\ i - (behind + 1) \in 1 .. L - 1 /\ i - (behind + 1) + 1 = i - behind
      <4>1. i \in 1 .. C /\ i - behind \in 1 .. L /\ i - 1 # behind
        BY <1>0, <1>1, <2>1, <2>2, <3>5
      <4> HIDE DEF C, L
      <4> QED
        BY <1>0, <4>1
    <3> QED
      BY <1>0, <2>1, <2>2, <3>3, <3>4, <3>6
  <2> QED
    BY <2>3, <2>4
<1> QED
  BY <1>4, <1>5, <1>6 DEF SInv

\* One entry leaves the front of the store, and is sent.
LEMMA SlotsTaken ==
  ASSUME SInv, Typed, pc # "off", queue # <<>>, queue' = Tail(queue), TailMoves,
         Head(queue) \in published', published \subseteq published',
         UNCHANGED <<image, pc, taken, counted, cutLost>>, pc # "commit"
  PROVE  SInv'
<1> DEFINE C == StoreCapacity
           L == Len(queue)
<1>0. /\ queue \in Seq(Reading) /\ image \in Seq(Reading) /\ Len(image) <= C /\ L <= C
      /\ behind \in 0 .. (C - 1) /\ L \in Nat /\ DOMAIN queue = 1 .. L /\ C \in Nat /\ C > 0
      /\ DOMAIN image = 1 .. Len(image) /\ Len(image) \in Nat
  BY Bounds DEF Typed, StoreTyped
<1>1. behind' = IF behind + 1 = C THEN 0 ELSE behind + 1
  BY <1>0, NextSlot DEF TailMoves
<1>2. /\ DOMAIN queue' = 1 .. L - 1 /\ Head(queue) = queue[1]
      /\ \A k \in 1 .. L - 1 : queue'[k] = queue[k + 1]
  BY <1>0
<1>3. Slots'
  <2> SUFFICES ASSUME NEW i \in DOMAIN image, image[i] \notin published' \cup counted \cup Handing
               PROVE  i - behind' \in DOMAIN queue' /\ image[i] = queue'[i - behind']
    BY DEF Slots, Handing
  <2>1. i - behind \in DOMAIN queue /\ image[i] = queue[i - behind]
    BY DEF SInv, Slots
  <2>2. i - behind # 1
    BY <1>2, <2>1
  <2>3. behind + 1 # C /\ i - (behind + 1) \in 1 .. L - 1 /\ i - (behind + 1) + 1 = i - behind
    BY <1>0, <2>1, <2>2
  <2> QED
    BY <1>1, <1>2, <2>1, <2>3
<1>4. Unsent' /\ InRing'
  BY DEF SInv, Unsent, InRing, Handing, Elements
<1> QED
  BY <1>3, <1>4 DEF SInv

LEMMA SlotsKept ==
  ASSUME TInv, SInv, [Next]_vars
  PROVE  SInv'
<1> USE DEF TInv
<1>1. CASE UNCHANGED vars
  BY <1>1 DEF vars, node, net, flash, ghost, SInv, Slots, Unsent, InRing, Handing, Elements
<1>2. CASE NetStep \/ Deliver \/ SessionHolds \/ Reclaim \/ Drain \/ NoReading \/ Tick
  <2>1. /\ pc # "off" /\ UNCHANGED <<image, queue, behind, taken, cutLost, published, counted>>
        /\ Handing \subseteq Handing' /\ (pc' = "commit" => pc = "commit")
    <3>1. CASE NetStep
      BY <3>1 DEF NetStep, Connect, NoConnect, KeepAliveLost, SendPing, ReadAnswer, ghost, flash,
                  Handing
    <3>2. CASE SessionHolds \/ Reclaim \/ Drain \/ NoReading \/ Tick
      BY <3>2 DEF SessionHolds, Reclaim, Drain, NoReading, Tick, ghost, flash, Handing
    <3>3. CASE Deliver
      BY <3>3 DEF Deliver, node, flash, Phases, Handing
    <3> QED
      BY <1>2, <3>1, <3>2, <3>3
  <2> QED
    BY <2>1, SlotsUntouched
<1>3. CASE Requeue
  <2> DEFINE r == Head(handed)
  <2>1. handed \in Seq(Reading) /\ handed # <<>>
    BY <1>3 DEF Requeue, Typed, NodeTyped
  <2>2. Elements(handed) = {r} \cup Elements(Tail(handed)) /\ r \in Reading
    BY <2>1, ElementsOf
  <2> HIDE DEF r
  <2>3. PushDeferred(r) /\ r \in published
    BY <1>3, <2>2 DEF Requeue, r, Known
  <2>4. /\ pc = "requeue" /\ pc' = pc /\ UNCHANGED <<taken, published, cutLost>>
        /\ Handing \subseteq Handing'
    BY <1>3 DEF Requeue, Handing
  <2>5. CASE PushUncommitted(r) /\ counted' = counted \cup Evicted
    BY <2>2, <2>3, <2>4, <2>5, SlotsOverlaid
  <2>6. CASE PushRefused(r)
    <3>1. UNCHANGED <<image, queue, behind>> /\ counted \subseteq counted'
      BY <2>6 DEF PushRefused
    <3> QED
      BY <2>4, <3>1, SlotsUntouched
  <2> QED
    BY <2>3, <2>5, <2>6 DEF PushDeferred
<1>4. CASE RequeueEnd \/ DrainEnd \/ Commit
  <2>1. /\ pc \in {"requeue", "draining", "commit"} /\ pc' \notin {"handoff", "commit"}
        /\ UNCHANGED <<queue, taken, published, cutLost>> /\ queue \in Seq(Reading)
    BY <1>4 DEF RequeueEnd, DrainEnd, Commit, ghost, Typed, StoreTyped
  <2>2. \/ image' = queue /\ behind' = 0 /\ counted' = counted
        \/ UNCHANGED <<image, behind>> /\ counted \subseteq counted' /\ Handing \subseteq counted'
    BY <1>4 DEF RequeueEnd, DrainEnd, Commit, FlushStore, ghost, Handing
  <2>3. CASE image' = queue /\ behind' = 0 /\ counted' = counted
    BY <2>1, <2>3, SlotsCommitted
  <2>4. CASE UNCHANGED <<image, behind>> /\ counted \subseteq counted' /\ Handing \subseteq counted'
    BY <2>1, <2>4, SlotsUntouched
  <2> QED
    BY <2>2, <2>3, <2>4
<1>5. CASE DrainOne
  <2>1. /\ queue # <<>> /\ queue' = Tail(queue) /\ TailMoves /\ pc = "draining" /\ pc' = pc
        /\ published' = published \cup {Head(queue)}
        /\ UNCHANGED <<image, taken, counted, cutLost>>
    BY <1>5 DEF DrainOne, MayDrain, Publish, flash
  <2> QED
    BY <2>1, SlotsTaken
<1>6. CASE Take
  <2>1. /\ pc = "sample" /\ pc' = "handoff" /\ taken' = taken + 1 /\ taken \in Nat
        /\ 1 .. taken' = (1 .. taken) \cup {taken'}
        /\ UNCHANGED <<image, queue, behind, published, counted, cutLost>>
    BY <1>6 DEF Take, flash, Typed, HistoryTyped
  <2>2. Handing = {} /\ Handing' = {taken'}
    BY <2>1 DEF Handing
  <2>3. Slots'
    BY <2>1, <2>2 DEF SInv, Slots
  <2>4. Unsent' /\ InRing'
    BY <2>1, <2>2 DEF SInv, Unsent, InRing, Elements
  <2> QED
    BY <2>3, <2>4 DEF SInv
<1>7. CASE GoLive \/ Store
  <2>1. /\ taken' = taken /\ taken \in Reading /\ pc = "handoff" /\ cutLost' = cutLost
        /\ Handing = {taken}
    BY <1>7, Bounds DEF GoLive, Store, Reading, Typed, HistoryTyped, Phases, Handing
  <2>2. CASE GoLive
    <3>1. /\ published' = published \cup {taken} /\ UNCHANGED <<image, queue, behind, counted>>
          /\ pc' = "net"
      BY <2>1, <2>2 DEF GoLive, Publish, flash
    <3> QED
      BY <2>1, <3>1, SlotsUntouched
  <2>3. CASE Store
    <3>1. CASE PushUncommitted(taken) /\ counted' = counted \cup Evicted /\ pc' = "commit"
      <4>1. Handing' = Handing /\ published' = published
        BY <2>1, <2>3, <3>1 DEF Store, Handing
      <4> QED
        BY <2>1, <3>1, <4>1, SlotsOverlaid
    <3>2. CASE PushRefused(taken) /\ pc' = "net"
      <4>1. UNCHANGED <<image, queue, behind, published>> /\ counted' = counted \cup {taken}
        BY <2>3, <3>2 DEF Store, PushRefused
      <4> QED
        BY <2>1, <3>2, <4>1, SlotsUntouched
    <3> QED
      BY <2>3, <3>1, <3>2 DEF Store
  <2> QED
    BY <1>7, <2>2, <2>3
<1>8. CASE Boot
  <2>1. queue' = image /\ behind' = 0 /\ image \in Seq(Reading) /\ pc = "off" /\ pc' = "net"
        /\ UNCHANGED <<image, taken, published, counted, cutLost>>
    BY <1>8 DEF Boot, Phases, Typed, StoreTyped, flash, ghost
  <2>2. Slots'
    <3> SUFFICES ASSUME NEW i \in DOMAIN image'
                 PROVE  i - behind' \in DOMAIN queue' /\ image'[i] = queue'[i - behind']
      BY DEF Slots
    <3>1. i - 0 = i
      BY <2>1
    <3> QED
      BY <2>1, <3>1
  <2>3. Unsent' /\ InRing'
    BY <2>1 DEF SInv, Unsent, InRing, Handing, Elements
  <2> QED
    BY <2>2, <2>3 DEF SInv
<1>9. CASE StreamDies \/ StreamReset \/ WifiUp \/ WifiDown
  BY <1>9 DEF StreamDies, StreamReset, WifiUp, WifiDown, node, flash, ghost,
              SInv, Slots, Unsent, InRing, Handing, Elements
<1>10. CASE PowerCut
  <2>1. pc' = "off" /\ UNCHANGED <<taken, published, counted>>
    BY <1>10 DEF PowerCut
  <2>2. (1 .. taken) \ (delivered \cup counted \cup exposed \cup Elements(image')) \subseteq cutLost'
        /\ delivered \cup exposed \subseteq published
    BY <1>10 DEF PowerCut, Known
  <2>3. Slots' /\ InRing'
    BY <2>1 DEF Slots, InRing
  <2>4. Unsent'
    BY <2>1, <2>2 DEF Unsent
  <2> QED
    BY <2>3, <2>4 DEF SInv
<1> QED
  BY <1>1, <1>2, <1>3, <1>4, <1>5, <1>6, <1>7, <1>8, <1>9, <1>10
     DEF Next, Pass, ReclaimStep, DrainStep, SampleStep, Environment

LEMMA SlotsBegin ==
  ASSUME Init
  PROVE  SInv /\ Accounted
BY DEF Init, SInv, Slots, Unsent, InRing, Accounted

\* The readings never sent that a power cut takes.
Cost == cutLost' \ (cutLost \cup published)

\* What a push that is under way puts at stake: its own reading, if it is a fresh one,
\* and the oldest one of a full ring.
AtStake == Handing \cup (IF Pushing = {} THEN {} ELSE Evicted)

\* A cut takes one of them at most.
LEMMA CutCost ==
  ASSUME TInv, SInv, PowerCut
  PROVE  Cost \subseteq AtStake /\ \E x : Cost \subseteq {x}
<1>0. /\ pc # "off" /\ cutLost' = cutLost \cup
             ((1 .. taken) \ (delivered \cup counted \cup exposed \cup Elements(image')))
  BY DEF PowerCut
<1>1. Cost \subseteq (Handing \cup Elements(image)) \ (published \cup counted \cup Elements(image'))
  BY <1>0 DEF Cost, SInv, Unsent
<1>2. Handing \subseteq {taken}
  BY DEF Handing
<1>3. CASE image' = image
  <2>1. Cost \subseteq Handing
    BY <1>1, <1>3 DEF Elements
  <2> QED
    BY <1>2, <2>1 DEF AtStake
<1>4. CASE image' # image
  <2>1. PICK r \in Pushing : image' = Overlaid(r)
    BY <1>4 DEF PowerCut
  <2>2. /\ DOMAIN image' = DOMAIN image
        /\ \A i \in DOMAIN image : image'[i] = IF i - 1 = HeadSlot THEN r ELSE image[i]
    BY <2>1 DEF Overlaid
  <2>3. image \in Seq(Reading)
    BY DEF TInv, Typed, StoreTyped
  <2>4. PICK k \in DOMAIN image : k - 1 = HeadSlot
    <3>1. (\A i \in DOMAIN image : i - 1 # HeadSlot) => image' = image
      BY <2>1, <2>3 DEF Overlaid
    <3> QED
      BY <1>4, <3>1
  <2>5. image[k] \in published \cup counted \cup Handing \cup Evicted
    BY <1>0, <2>4, WrittenSlot DEF TInv
  <2>6. \A i \in DOMAIN image : i # k => image'[i] = image[i]
    BY <2>2, <2>3, <2>4
  <2>7. Elements(image) \subseteq Elements(image') \cup {image[k]} /\ r \in Elements(image')
    BY <2>2, <2>4, <2>6 DEF Elements
  <2>8. Handing \subseteq {r}
    BY <2>1 DEF Handing, Pushing
  <2>9. Cost \subseteq {image[k]}
    BY <1>1, <2>7, <2>8
  <2>10. Cost \subseteq AtStake
    BY <1>1, <2>1, <2>5, <2>9 DEF AtStake
  <2> QED
    BY <2>9, <2>10
<1> QED
  BY <1>3, <1>4

\* Only a cut costs anything.
LEMMA NoCost ==
  ASSUME [Next]_vars, ~ PowerCut
  PROVE  UNCHANGED <<cuts, cutLost>> /\ published \subseteq published'
<1>1. CASE UNCHANGED vars
  BY <1>1 DEF vars, ghost
<1>2. CASE NetStep \/ ReclaimStep
  BY <1>2 DEF NetStep, Connect, NoConnect, KeepAliveLost, SendPing, ReadAnswer, ReclaimStep,
              SessionHolds, Reclaim, Requeue, RequeueEnd, ghost
<1>3. CASE DrainStep \/ SampleStep
  BY <1>3 DEF DrainStep, Drain, DrainOne, DrainEnd, SampleStep, NoReading, Take, GoLive, Store,
              Commit, Publish, ghost
<1>4. CASE Tick \/ Deliver \/ Boot \/ StreamDies \/ StreamReset \/ WifiUp \/ WifiDown
  BY <1>4 DEF Tick, Deliver, Boot, StreamDies, StreamReset, WifiUp, WifiDown, ghost
<1> QED
  BY <1>1, <1>2, <1>3, <1>4 DEF Next, Pass, Environment

LEMMA CostKept ==
  ASSUME TInv, SInv, CutCostsOne, [Next]_vars
  PROVE  CutCostsOne'
<1> DEFINE lost == cutLost \ published
<1>1. IsFiniteSet(lost) /\ Cardinality(lost) \in Nat /\ Cardinality(lost) <= cuts /\ cuts \in Nat
  <2>1. lost \subseteq 1 .. MaxReadings
    BY DEF TInv, Typed, HistoryTyped, Reading
  <2>2. IsFiniteSet(1 .. MaxReadings)
    BY Bounds, FS_Interval
  <2>3. IsFiniteSet(lost)
    BY <2>1, <2>2, FS_Subset
  <2> QED
    BY <2>3, FS_CardinalityType DEF CutCostsOne, TInv, Typed, LinkTyped
<1>2. CASE ~ PowerCut
  <2>1. cutLost' \ published' \subseteq lost /\ cuts' = cuts
    BY <1>2, NoCost
  <2> HIDE DEF lost
  <2>2. Cardinality(cutLost' \ published') <= Cardinality(lost)
    BY <1>1, <2>1, FS_Subset
  <2>3. Cardinality(cutLost' \ published') \in Nat
    BY <1>1, <2>1, FS_Subset, FS_CardinalityType
  <2> QED
    BY <1>1, <2>1, <2>2, <2>3 DEF CutCostsOne
<1>3. CASE PowerCut
  <2>1. PICK x : Cost \subseteq {x}
    BY <1>3, CutCost
  <2>2. cuts' = cuts + 1 /\ published' = published
    BY <1>3 DEF PowerCut
  <2>3. cutLost' \ published' \subseteq lost \cup {x}
    BY <2>1, <2>2 DEF Cost
  <2> HIDE DEF lost
  <2>4. IsFiniteSet(lost \cup {x}) /\ Cardinality(lost \cup {x}) <= Cardinality(lost) + 1
        /\ Cardinality(lost \cup {x}) \in Nat
    <3>1. IsFiniteSet(lost \cup {x})
          /\ Cardinality(lost \cup {x}) = IF x \in lost THEN Cardinality(lost) ELSE Cardinality(lost) + 1
      BY <1>1, FS_AddElement
    <3> QED
      BY <1>1, <3>1
  <2>5. Cardinality(cutLost' \ published') <= Cardinality(lost \cup {x})
        /\ Cardinality(cutLost' \ published') \in Nat
    BY <2>3, <2>4, FS_Subset, FS_CardinalityType
  <2> QED
    BY <1>1, <2>2, <2>4, <2>5 DEF CutCostsOne
<1> QED
  BY <1>2, <1>3

LEMMA CostBegins ==
  ASSUME Init
  PROVE  CutCostsOne
<1>1. cutLost \ published = {} /\ cuts = 0
  BY DEF Init
<1> QED
  BY <1>1, FS_EmptySet DEF CutCostsOne

\* Of the readings that were never sent a power cut costs at most one, wherever in the
\* loop it strikes and however many flash accesses fail without being counted
\* (psychron_node.ino:5-6): the rest is in the store that the restart finds.
THEOREM UnsentSurvivesCuts == Spec => []CutCostsOne
<1> DEFINE J == TInv /\ SInv /\ CutCostsOne
<1>1. Init => J
  BY Begins, SlotsBegin, CostBegins
<1>2. J /\ [Next]_vars => J'
  BY TypesKept, SlotsKept, CostKept
<1>3. J => CutCostsOne
  OBVIOUS
<1> QED
  BY <1>1, <1>2, <1>3, PTL DEF Spec

\* And that one is the reading in hand, whose slot or header is not in flash yet, or the
\* oldest one of a full ring, under a push that has written its slot (store.cpp:193-206).
\* A cut outside of a push costs none.
THEOREM OnlyThePushIsAtStake == Spec => [][Cost \subseteq AtStake]_vars
<1>1. TInv /\ SInv /\ [Next]_vars => [Cost \subseteq AtStake]_vars
  <2> SUFFICES ASSUME TInv, SInv, [Next]_vars PROVE Cost \subseteq AtStake
    OBVIOUS
  <2>1. CASE PowerCut
    BY <2>1, CutCost
  <2>2. CASE ~ PowerCut
    BY <2>2, NoCost DEF Cost
  <2> QED
    BY <2>1, <2>2
<1> QED
  BY <1>1, Begins, TypesKept, SlotsBegin, SlotsKept, PTL DEF Spec

\* No reading vanishes, whatever dies and fails and whenever the answers to pings
\* come, when three keepalives and two passes fit in the horizon.
THEOREM NothingLost ==
  ASSUME 3 * KeepAlive + 2 * MaxPass <= Horizon
  PROVE  Spec => []Accounted
<1> DEFINE D == KeepAlive
<1>1. Limit(D) /\ HorizonCovers(D) /\ PromptIf(D)
  BY Bounds DEF Limit, HorizonCovers, PromptIf
<1> HIDE DEF D
<1> DEFINE J == TInv /\ AInv(D) /\ Accounted
<1>2. Init => J
  BY Begins, AgesBegin, SlotsBegin
<1>3. J /\ [Next]_vars => J'
  BY <1>1, TypesKept, AgesKept, AccountedKept
<1>4. J => Accounted
  OBVIOUS
<1> QED
  BY <1>2, <1>3, <1>4, PTL DEF Spec

\* The same for the horizon that the firmware has, two keepalives and what a ping and
\* four passes take (psychron_node.ino:109-113), as long as the broker reads what it
\* is sent behind a ping within a round trip and a pass.
THEOREM NothingLostToPromptBrokers ==
  ASSUME RoundTrip + 2 * KeepAlive + 4 * MaxPass <= Horizon
  PROVE  Spec /\ []ReadBy(RoundTrip + MaxPass) => []Accounted
<1> DEFINE D == RoundTrip + 2 * MaxPass
           P == ReadBy(RoundTrip + MaxPass)
<1>1. Limit(D) /\ HorizonCovers(D)
  BY TimesAssumption DEF Limit, HorizonCovers
<1>2. P => PromptIf(D)
  BY DEF PromptIf
<1> HIDE DEF D, P
<1> DEFINE J == TInv /\ AInv(D) /\ Accounted
<1>3. Init => J
  BY Begins, AgesBegin, SlotsBegin
<1>4. J /\ P /\ [Next]_vars => J'
  BY <1>1, <1>2, TypesKept, AgesKept, AccountedKept
<1>5. J => Accounted
  OBVIOUS
<1>6. Spec /\ []P => []Accounted
  <2> HIDE DEF J
  <2> QED
    BY <1>3, <1>4, <1>5, PTL DEF Spec
<1> QED
  BY <1>6 DEF P

-----------------------------------------------------------------------------
(* What is held once, and in which order it is first sent.                 *)

LEMMA OnceOf ==
  ASSUME NEW T, NEW s \in Seq(T), Once(s)
  PROVE  /\ \A e : e \notin Elements(s) => Once(Append(s, e))
         /\ s # <<>> => Once(Tail(s)) /\ Head(s) \notin Elements(Tail(s))
<1>1. ASSUME NEW e, e \notin Elements(s) PROVE Once(Append(s, e))
  <2>1. /\ DOMAIN Append(s, e) = 1 .. Len(s) + 1 /\ Append(s, e)[Len(s) + 1] = e
        /\ DOMAIN s = 1 .. Len(s) /\ Len(s) \in Nat
        /\ \A i \in DOMAIN s : Append(s, e)[i] = s[i]
    OBVIOUS
  <2>2. \A i \in DOMAIN s : s[i] # e
    BY <1>1 DEF Elements
  <2>3. \A i \in DOMAIN Append(s, e) : i \in DOMAIN s \/ i = Len(s) + 1
    BY <2>1
  <2> QED
    BY <2>1, <2>2, <2>3 DEF Once
<1>2. ASSUME s # <<>> PROVE Once(Tail(s)) /\ Head(s) \notin Elements(Tail(s))
  <2>1. /\ Len(s) \in Nat /\ Len(s) > 0 /\ DOMAIN s = 1 .. Len(s) /\ Head(s) = s[1]
        /\ DOMAIN Tail(s) = 1 .. Len(s) - 1
        /\ \A i \in 1 .. Len(s) - 1 : Tail(s)[i] = s[i + 1]
    BY <1>2
  <2>2. \A i \in DOMAIN Tail(s) : i + 1 \in DOMAIN s /\ i + 1 # 1 /\ Tail(s)[i] = s[i + 1]
    BY <2>1
  <2>3. ASSUME NEW i \in DOMAIN Tail(s), NEW j \in DOMAIN Tail(s), Tail(s)[i] = Tail(s)[j] PROVE i = j
    <3>1. i + 1 = j + 1
      BY <2>2, <2>3 DEF Once
    <3> QED
      BY <2>1, <3>1
  <2>4. Head(s) \notin Elements(Tail(s))
    <3> SUFFICES ASSUME NEW i \in DOMAIN Tail(s), Head(s) = Tail(s)[i] PROVE FALSE
      BY DEF Elements
    <3>1. 1 \in DOMAIN s /\ i + 1 = 1
      BY <2>1, <2>2 DEF Once
    <3> QED
      BY <2>2, <3>1
  <2> QED
    BY <2>3, <2>4 DEF Once
<1> QED
  BY <1>1, <1>2

LEMMA OrderOf ==
  ASSUME NEW s \in Seq(Reading), NEW sent, NEW out, InOrder(s, sent, out)
  PROVE  /\ \A e : e \in sent \/ (\A x \in Elements(s) : x < e) => InOrder(Append(s, e), sent, out)
         /\ s # <<>> => InOrder(Tail(s), sent, out)
<1>1. ASSUME NEW e, e \in sent \/ \A x \in Elements(s) : x < e
      PROVE  InOrder(Append(s, e), sent, out)
  <2>1. /\ DOMAIN Append(s, e) = 1 .. Len(s) + 1 /\ Append(s, e)[Len(s) + 1] = e
        /\ DOMAIN s = 1 .. Len(s) /\ Len(s) \in Nat
        /\ \A i \in DOMAIN s : Append(s, e)[i] = s[i]
    OBVIOUS
  <2>2. e \in sent \/ \A i \in DOMAIN s : s[i] < e
    BY <1>1 DEF Elements
  <2> DEFINE a == Append(s, e)
  <2>3. ASSUME NEW i \in DOMAIN a, NEW j \in DOMAIN a, i < j
        PROVE  a[i] \in out \/ a[j] \in sent \/ a[i] < a[j]
    <3>1. i \in DOMAIN s
      BY <2>1, <2>3
    <3>2. CASE j \in DOMAIN s
      BY <2>1, <2>3, <3>1, <3>2 DEF InOrder
    <3>3. CASE j \notin DOMAIN s
      <4>1. j = Len(s) + 1
        BY <2>1, <2>3, <3>3
      <4> QED
        BY <2>1, <2>2, <2>3, <3>1, <4>1
    <3> QED
      BY <3>2, <3>3
  <2> QED
    BY <2>3 DEF InOrder
<1>2. ASSUME s # <<>> PROVE InOrder(Tail(s), sent, out)
  <2>1. /\ Len(s) \in Nat /\ Len(s) > 0 /\ DOMAIN s = 1 .. Len(s)
        /\ DOMAIN Tail(s) = 1 .. Len(s) - 1
        /\ \A i \in 1 .. Len(s) - 1 : Tail(s)[i] = s[i + 1]
    BY <1>2
  <2>2. \A i \in DOMAIN Tail(s) : i + 1 \in DOMAIN s /\ Tail(s)[i] = s[i + 1]
    BY <2>1
  <2>3. \A i, j \in DOMAIN Tail(s) : i < j => i + 1 < j + 1
    BY <2>1
  <2> QED
    BY <2>2, <2>3 DEF InOrder
<1> QED
  BY <1>1, <1>2

\* A store whose oldest entry goes when it is full stays without repeats and in order.
LEMMA PushedOrder ==
  ASSUME Typed, NEW out, Once(queue), InOrder(queue, published, out), NEW r \in Reading,
         r \notin Elements(queue), r \in published \/ \A x \in Elements(queue) : x < r
  PROVE  Once(Pushed(r)) /\ InOrder(Pushed(r), published, out)
<1>0. queue \in Seq(Reading) /\ Len(queue) \in Nat
  BY DEF Typed, StoreTyped
<1>1. CASE Len(queue) = StoreCapacity
  <2> DEFINE q == Tail(queue)
  <2>1. queue # <<>> /\ q \in Seq(Reading)
    BY <1>0, <1>1, Bounds
  <2>2. Once(q) /\ InOrder(q, published, out) /\ Elements(q) \subseteq Elements(queue)
    BY <1>0, <2>1, OnceOf, OrderOf, ElementsOf
  <2>3. Pushed(r) = Append(q, r)
    BY <1>1 DEF Pushed
  <2> HIDE DEF q
  <2>4. Once(Append(q, r))
    BY <2>1, <2>2, OnceOf
  <2>5. InOrder(Append(q, r), published, out)
    BY <2>1, <2>2, OrderOf
  <2> QED
    BY <2>3, <2>4, <2>5
<1>2. CASE Len(queue) # StoreCapacity
  <2>1. Pushed(r) = Append(queue, r)
    BY <1>2 DEF Pushed
  <2>2. Once(Append(queue, r))
    BY <1>0, OnceOf
  <2>3. InOrder(Append(queue, r), published, out)
    BY <1>0, OrderOf
  <2> QED
    BY <2>1, <2>2, <2>3
<1> QED
  BY <1>1, <1>2

LEMMA OverlaidOrder ==
  ASSUME Typed, NEW out, Once(image), InOrder(image, published, out), NEW r \in Reading,
         r \notin Elements(image), r \in out,
         r \in published \/ \A x \in Elements(image) : x < r
  PROVE  Once(Overlaid(r)) /\ InOrder(Overlaid(r), published, out)
<1>0. image \in Seq(Reading) /\ DOMAIN image = 1 .. Len(image) /\ Len(image) \in Nat
  BY DEF Typed, StoreTyped
<1>1. /\ DOMAIN Overlaid(r) = DOMAIN image
      /\ \A i \in DOMAIN image : Overlaid(r)[i] = IF i - 1 = HeadSlot THEN r ELSE image[i]
  BY DEF Overlaid
<1>2. \A i \in DOMAIN image : image[i] # r
  BY DEF Elements
<1>3. \A i, j \in DOMAIN image : i - 1 = HeadSlot /\ j - 1 = HeadSlot => i = j
  BY <1>0
<1>4. Once(Overlaid(r))
  BY <1>1, <1>2, <1>3 DEF Once
<1>5. InOrder(Overlaid(r), published, out)
  <2>1. r \in published \/ \A i \in DOMAIN image : image[i] < r
    BY DEF Elements
  <2> QED
    BY <1>1, <2>1 DEF InOrder
<1> QED
  BY <1>4, <1>5

LEMMA WindowOncePublished ==
  ASSUME TInv, WindowOnce, NEW r \in Reading, r \notin Readings(window), Publish(r)
  PROVE  WindowOnce'
<1>0. window \in Seq(Entry) /\ window' \in Seq(Entry)
  BY PublishedWindow DEF TInv, Typed, NodeTyped
<1>1. PICK m \in 0 .. Len(window) :
        /\ Len(window') = Len(window) - m + 1
        /\ \A i \in 1 .. Len(window) - m : window'[i] = window[i + m]
        /\ window'[Len(window')] = [r |-> r, age |-> 0]
  BY PublishedWindow DEF TInv
<1>2. ASSUME NEW i \in DOMAIN window'
      PROVE  \/ i = Len(window') /\ window'[i].r = r
             \/ i + m \in DOMAIN window /\ window'[i] = window[i + m]
  <2>1. CASE i = Len(window')
    BY <1>1, <2>1
  <2>2. CASE i # Len(window')
    <3>1. i \in 1 .. Len(window) - m /\ i + m \in DOMAIN window
      BY <1>0, <1>1, <2>2
    <3> QED
      BY <1>1, <3>1
  <2> QED
    BY <2>1, <2>2
<1>3. ASSUME NEW i \in DOMAIN window', NEW j \in DOMAIN window', window'[i].r = window'[j].r
      PROVE  i = j
  <2>1. \A k \in DOMAIN window : window[k].r # r
    BY DEF Readings
  <2>2. CASE i = Len(window') /\ window'[i].r = r
    BY <1>2, <1>3, <2>1, <2>2
  <2>3. CASE i + m \in DOMAIN window /\ window'[i] = window[i + m]
    <3>1. j + m \in DOMAIN window /\ window'[j] = window[j + m]
      BY <1>2, <1>3, <2>1, <2>3
    <3>2. i + m = j + m
      BY <1>3, <2>3, <3>1 DEF WindowOnce
    <3> QED
      BY <1>0, <3>2
  <2> QED
    BY <1>2, <2>2, <2>3
<1> QED
  BY <1>3 DEF WindowOnce

LEMMA ExpiredOnce ==
  ASSUME Typed, WindowOnce
  PROVE  \A i, j \in DOMAIN Expired(window) : Expired(window)[i].r = Expired(window)[j].r => i = j
<1>0. window \in Seq(Entry)
  BY DEF Typed, NodeTyped
<1>1. PICK m \in 0 .. Len(window) : Expired(window) = SubSeq(window, m + 1, Len(window))
  BY <1>0, Expiry
<1> DEFINE w == Expired(window)
<1> HIDE DEF w
<1>2. /\ DOMAIN w = 1 .. Len(window) - m
      /\ \A i \in DOMAIN w : i + m \in DOMAIN window /\ w[i] = window[i + m]
  BY <1>0, <1>1, Behind DEF w
<1>3. ASSUME NEW i \in DOMAIN w, NEW j \in DOMAIN w, w[i].r = w[j].r PROVE i = j
  <2>1. i + m = j + m
    BY <1>2, <1>3 DEF WindowOnce
  <2> QED
    BY <1>0, <1>2, <2>1
<1> QED
  BY <1>3 DEF w

\* A step that leaves what is held in place.
LEMMA HeldUntouched ==
  ASSUME HInv, WindowOnce', Readings(window') \subseteq Readings(window),
         UNCHANGED <<handed, queue, image, behind, misplaced>>, published \subseteq published',
         Handing \subseteq Handing', pc' \in Clean => pc \in Clean
  PROVE  HInv'
<1>1. Apart'
  BY DEF HInv, Apart, Once, Elements
<1>2. Committed'
  BY DEF HInv, Committed
<1>3. Ordered'
  BY DEF HInv, Ordered, InOrder
<1> QED
  BY <1>1, <1>2, <1>3 DEF HInv

LEMMA HeldBegin ==
  ASSUME Init
  PROVE  HInv
<1> USE DEF Init
<1>1. Apart
  BY DEF Apart, WindowOnce, Once, Readings, Elements
<1>2. Committed /\ Ordered
  BY DEF Committed, Ordered, InOrder, Clean
<1> QED
  BY <1>1, <1>2 DEF HInv

LEMMA HeldKept ==
  ASSUME MaxFails = 0, TInv, HInv, [Next]_vars
  PROVE  HInv'
<1> USE DEF TInv
<1>0. ~ StoreFails
  BY DEF StoreFails, Typed, StoreTyped
<1> DEFINE out == published \cup misplaced
<1>a. /\ Apart /\ Committed /\ WindowOnce /\ Once(handed) /\ Once(queue) /\ Once(image)
      /\ InOrder(queue, published, out) /\ InOrder(image, published, out \cup Handing)
      /\ Readings(window) \cap (Elements(handed) \cup Elements(queue)) = {}
      /\ Elements(handed) \cap (Elements(queue) \cup Elements(image)) = {}
  BY DEF HInv, Apart, Ordered
<1>b. /\ queue \in Seq(Reading) /\ image \in Seq(Reading) /\ handed \in Seq(Reading)
      /\ Elements(<<>>) = {} /\ Once(<<>>) /\ \A o : InOrder(<<>>, published, o)
      /\ pc # "requeue" => handed = <<>>
      /\ pc = "off" => window = <<>> /\ behind = 0
  BY DEF Typed, StoreTyped, NodeTyped, Elements, Once, InOrder, Phases
<1>1. CASE UNCHANGED vars
  <2>1. WindowOnce' /\ Readings(window') = Readings(window)
    BY <1>1, <1>a DEF vars, node, WindowOnce, Readings
  <2> QED
    BY <1>1, <2>1, HeldUntouched DEF vars, node, flash, ghost, Handing
<1>2. CASE NetStep \/ SessionHolds \/ NoReading \/ Take \/ Deliver
            \/ StreamDies \/ StreamReset \/ WifiUp \/ WifiDown
  <2>1. /\ UNCHANGED <<window, handed, queue, image, behind>> /\ published' = published
        /\ misplaced' = misplaced /\ Handing \subseteq Handing'
        /\ pc' \in Clean => pc \in Clean
    <3>1. CASE NetStep
      BY <3>1 DEF NetStep, Connect, NoConnect, KeepAliveLost, SendPing, ReadAnswer, ghost, flash,
                  Clean, Handing
    <3>2. CASE SessionHolds \/ NoReading \/ Take \/ Deliver
      BY <3>2 DEF SessionHolds, NoReading, Take, Deliver, ghost, flash, node, Clean, Handing
    <3>3. CASE StreamDies \/ StreamReset \/ WifiUp \/ WifiDown
      BY <3>3 DEF StreamDies, StreamReset, WifiUp, WifiDown, ghost, flash, node, Handing
    <3> QED
      BY <1>2, <3>1, <3>2, <3>3
  <2>2. WindowOnce' /\ Readings(window') = Readings(window)
    BY <1>a, <2>1 DEF WindowOnce, Readings
  <2> QED
    BY <2>1, <2>2, HeldUntouched
<1>3. CASE Tick
  <2>1. WindowOnce' /\ Readings(window') = Readings(window)
    BY <1>3, <1>a, Aged DEF WindowOnce
  <2> QED
    BY <1>3, <2>1, HeldUntouched DEF Tick, flash, ghost, Clean, Handing
<1>4. CASE Drain
  <2>1. CASE window' = window
    <3>1. WindowOnce' /\ Readings(window') = Readings(window)
      BY <1>a, <2>1 DEF WindowOnce, Readings
    <3> QED
      BY <1>4, <3>1, HeldUntouched DEF Drain, flash, ghost, Clean, Handing
  <2>2. CASE window' = Expired(window)
    <3>1. WindowOnce' /\ Readings(window') \subseteq Readings(window)
      BY <1>a, <2>2, ExpiredOnce, ExpiredReadings DEF WindowOnce
    <3> QED
      BY <1>4, <3>1, HeldUntouched DEF Drain, flash, ghost, Clean, Handing
  <2> QED
    BY <1>4, <2>1, <2>2 DEF Drain
<1>5. CASE Reclaim
  <2> DEFINE w == Expired(window)
  <2>1. /\ handed' = [i \in DOMAIN w |-> w[i].r] /\ window' = <<>>
        /\ UNCHANGED <<queue, image, behind, published, misplaced>>
        /\ pc = "reclaim" /\ Handing = {} /\ Handing' = {}
    BY <1>5 DEF Reclaim, flash, ghost, Handing
  <2>2. /\ Readings(w) \subseteq Readings(window)
        /\ \A i, j \in DOMAIN w : w[i].r = w[j].r => i = j
    BY <1>a, ExpiredReadings, ExpiredOnce
  <2> HIDE DEF w
  <2>3. Elements(handed') = Readings(w) /\ Once(handed')
    BY <2>1, <2>2 DEF Elements, Readings, Once
  <2>4. image = queue /\ behind = 0
    BY <1>a, <2>1 DEF Committed, Clean
  <2>5. WindowOnce' /\ Readings(window') = {}
    BY <2>1 DEF WindowOnce, Readings
  <2>6. Once(queue') /\ Once(image')
    BY <1>a, <2>1
  <2>7. Apart'
    BY <1>a, <2>1, <2>2, <2>3, <2>4, <2>5, <2>6 DEF Apart
  <2>8. Committed' /\ Ordered'
    BY <1>a, <2>1, <2>4 DEF Committed, Ordered
  <2> QED
    BY <2>7, <2>8 DEF HInv
<1>6. CASE Requeue
  <2> DEFINE r == Head(handed)
  <2>1. handed # <<>> /\ handed' = Tail(handed) /\ PushDeferred(r) /\ pc' = "requeue"
        /\ UNCHANGED <<window, published, misplaced>> /\ Handing = {} /\ Handing' = {}
    BY <1>6 DEF Requeue, Handing
  <2>2. /\ Elements(handed) = {r} \cup Elements(handed') /\ r \in Reading
        /\ Once(handed') /\ r \notin Elements(handed')
    BY <1>a, <1>b, <2>1, ElementsOf, OnceOf
  <2> HIDE DEF r
  <2>3. queue' = Pushed(r) /\ image' = Overlaid(r)
    BY <1>0, <2>1 DEF PushDeferred, PushRefused, PushUncommitted
  <2>4. r \in published /\ r \notin Elements(queue) /\ r \notin Elements(image)
        /\ r \notin Readings(window)
    BY <1>a, <2>2 DEF Known
  <2>5. Once(queue') /\ InOrder(queue', published, out)
    BY <1>a, <2>2, <2>3, <2>4, PushedOrder
  <2>6. Once(image') /\ InOrder(image', published, out)
    <3>1. InOrder(image, published, out) /\ r \in out
      BY <1>a, <2>1, <2>4
    <3> HIDE DEF out
    <3> QED
      BY <1>a, <2>2, <2>3, <2>4, <3>1, OverlaidOrder
  <2>7. Elements(queue') \subseteq Elements(queue) \cup {r}
        /\ Elements(image') \subseteq Elements(image) \cup {r}
    BY <2>2, <2>3, PushedQueue, OverlaidImage
  <2>8. WindowOnce' /\ Readings(window') = Readings(window)
    BY <1>a, <2>1 DEF WindowOnce, Readings
  <2>9. Apart'
    BY <1>a, <2>2, <2>4, <2>5, <2>6, <2>7, <2>8 DEF Apart
  <2>10. Committed' /\ Ordered'
    BY <2>1, <2>5, <2>6 DEF Committed, Ordered, Clean
  <2> QED
    BY <2>9, <2>10 DEF HInv
<1>7. CASE RequeueEnd \/ DrainEnd \/ Commit
  <2>1. /\ image' = queue /\ behind' = 0 /\ Handing' = {}
        /\ UNCHANGED <<window, handed, queue, published, misplaced>>
    BY <1>0, <1>7 DEF RequeueEnd, DrainEnd, Commit, FlushStore, ghost, Handing
  <2>2. WindowOnce' /\ Readings(window') = Readings(window)
    BY <1>a, <2>1 DEF WindowOnce, Readings
  <2>3. Elements(handed) \cap Elements(queue) = {} /\ Once(queue') /\ Once(image')
    BY <1>a, <2>1
  <2>4. Apart'
    BY <1>a, <2>1, <2>2, <2>3 DEF Apart
  <2>5. Committed' /\ Ordered'
    BY <1>a, <2>1 DEF Committed, Ordered
  <2> QED
    BY <2>4, <2>5 DEF HInv
<1>8. CASE DrainOne
  <2> DEFINE r == Head(queue)
  <2>1. /\ queue # <<>> /\ queue' = Tail(queue) /\ Publish(r) /\ pc' = "draining"
        /\ handed = <<>> /\ UNCHANGED <<image, handed, misplaced>> /\ Handing = {} /\ Handing' = {}
    BY <1>8, <1>b DEF DrainOne, MayDrain, flash, Handing
  <2>2. /\ Elements(queue) = {r} \cup Elements(queue') /\ r \in Reading
        /\ Once(queue') /\ r \notin Elements(queue') /\ InOrder(queue', published, out)
    BY <1>a, <1>b, <2>1, ElementsOf, OnceOf, OrderOf
  <2> HIDE DEF r
  <2>3. r \notin Readings(window) /\ published \subseteq published'
    BY <1>a, <2>1, <2>2 DEF Publish
  <2>4. WindowOnce' /\ Readings(window') \subseteq Readings(window) \cup {r}
    BY <1>a, <2>1, <2>2, <2>3, WindowOncePublished, PublishedReadings
  <2>5. Once(handed') /\ Once(image')
    BY <1>a, <2>1
  <2>6. Apart'
    BY <1>a, <1>b, <2>1, <2>2, <2>4, <2>5 DEF Apart
  <2>7. Ordered'
    BY <1>a, <2>1, <2>2, <2>3 DEF InOrder, Ordered
  <2> QED
    BY <2>1, <2>6, <2>7 DEF HInv, Committed, Clean
<1>9. CASE GoLive \/ Store
  <2> DEFINE r == taken
  <2>1. r \in Reading /\ pc = "handoff" /\ taken' = taken /\ Handing = {r}
    BY <1>9, Bounds DEF GoLive, Store, Reading, Typed, HistoryTyped, Phases, Handing
  <2>2. \A x \in 1 .. (taken - 1) : x < r /\ x # r
    BY <2>1 DEF Typed, HistoryTyped
  <2>3. /\ \A x \in Elements(queue) \cup Readings(window) \cup Elements(image) : x < r /\ x # r
        /\ image = queue /\ behind = 0 /\ handed = <<>>
    BY <1>a, <1>b, <2>1, <2>2 DEF Known, Committed, Clean
  <2> HIDE DEF r
  <2>4. CASE GoLive
    <3>1. /\ Publish(r) /\ queue = <<>> /\ UNCHANGED <<handed, queue, image, behind>>
          /\ pc' = "net"
      BY <2>1, <2>4 DEF GoLive, CanGoLive, Publish, flash, r
    <3>2. WindowOnce'
      BY <1>a, <2>1, <2>3, <3>1, WindowOncePublished
    <3>3. Elements(handed') = {} /\ Elements(queue') = {} /\ Elements(image') = {}
          /\ Once(handed') /\ Once(queue') /\ Once(image')
      BY <1>b, <2>3, <3>1
    <3>4. Apart'
      BY <3>2, <3>3 DEF Apart
    <3>5. Committed'
      BY <2>3, <3>1 DEF Committed
    <3>6. Ordered'
      BY <1>b, <2>3, <3>1 DEF Ordered, InOrder
    <3> QED
      BY <3>4, <3>5, <3>6 DEF HInv
  <2>5. CASE Store
    <3>1. /\ queue' = Pushed(r) /\ image' = Overlaid(r) /\ pc' = "commit" /\ Handing' = {r}
          /\ UNCHANGED <<window, handed, published, misplaced>>
      BY <1>0, <2>1, <2>5 DEF Store, PushUncommitted, PushRefused, Handing, r
    <3>2. Once(queue') /\ InOrder(queue', published, out)
      <4>1. r \notin Elements(queue) /\ \A x \in Elements(queue) : x < r
        BY <2>3
      <4> HIDE DEF out
      <4> QED
        BY <1>a, <2>1, <3>1, <4>1, PushedOrder
    <3>3. Once(image') /\ InOrder(image', published, out \cup {r})
      <4>1. r \notin Elements(image) /\ \A x \in Elements(image) : x < r
        BY <2>3
      <4>2. InOrder(image, published, out \cup {r})
        BY <1>a, <2>1
      <4> DEFINE o == out \cup {r}
      <4>3. r \in o
        OBVIOUS
      <4> HIDE DEF o
      <4>4. InOrder(image, published, o)
        BY <4>2 DEF o
      <4>5. InOrder(Overlaid(r), published, o) /\ Once(Overlaid(r))
        BY <1>a, <2>1, <4>1, <4>3, <4>4, OverlaidOrder
      <4> QED
        BY <3>1, <4>5 DEF o
    <3>4. Elements(queue') \subseteq Elements(queue) \cup {r}
      BY <2>1, <3>1, PushedQueue
    <3>5. WindowOnce' /\ Readings(window') = Readings(window)
      BY <1>a, <3>1 DEF WindowOnce, Readings
    <3>6. Once(handed') /\ Elements(handed') = {} /\ r \notin Readings(window)
      BY <1>b, <2>3, <3>1
    <3>7. Apart'
      BY <1>a, <3>2, <3>3, <3>4, <3>5, <3>6 DEF Apart
    <3>8. Committed' /\ Ordered'
      BY <3>1, <3>2, <3>3 DEF Committed, Ordered, Clean
    <3> QED
      BY <3>7, <3>8 DEF HInv
  <2> QED
    BY <1>9, <2>4, <2>5
<1>10. CASE Boot
  <2>1. /\ queue' = image /\ behind' = 0 /\ handed = <<>> /\ window = <<>>
        /\ UNCHANGED <<window, handed, image, published, misplaced>>
        /\ Handing = {} /\ Handing' = {}
    BY <1>10, <1>b DEF Boot, flash, ghost, Handing
  <2>2. WindowOnce' /\ Readings(window') = {}
    BY <2>1 DEF WindowOnce, Readings
  <2>3. Once(handed') /\ Elements(handed') = {} /\ Once(queue') /\ Once(image')
    BY <1>a, <1>b, <2>1
  <2>4. Apart'
    BY <2>2, <2>3 DEF Apart
  <2>5. Committed' /\ Ordered'
    BY <1>a, <2>1 DEF Committed, Ordered
  <2> QED
    BY <2>4, <2>5 DEF HInv
<1>11. CASE PowerCut
  <2>1. /\ queue' = <<>> /\ handed' = <<>> /\ window' = <<>> /\ pc' = "off"
        /\ published' = published /\ Handing' = {}
        /\ misplaced' = misplaced \cup (Handing \cap Elements(image'))
        /\ image' \in {image} \cup { Overlaid(r) : r \in Pushing }
    BY <1>11 DEF PowerCut, Handing
  <2> DEFINE o == out \cup Handing
  <2>2. Once(image') /\ InOrder(image', published, o)
    <3>1. CASE image' = image
      BY <1>a, <3>1
    <3>2. CASE image' # image
      <4>1. PICK r \in Pushing : image' = Overlaid(r)
        BY <2>1, <3>2
      <4>2. /\ r \in Reading /\ r \notin Elements(image) /\ r \in o
            /\ r \in published \/ \A x \in Elements(image) : x < r
        <5>1. CASE pc = "requeue"
          <6>1. r = Head(handed) /\ handed # <<>>
            BY <5>1 DEF Pushing
          <6>2. Elements(handed) = {r} \cup Elements(Tail(handed)) /\ r \in Reading
            BY <1>b, <6>1, ElementsOf
          <6> QED
            BY <1>a, <6>2 DEF Known
        <5>2. CASE pc # "requeue"
          <6>1. pc = "handoff" /\ r = taken /\ Handing = {taken}
            BY <5>2 DEF Pushing, Handing
          <6>2. r \in Reading /\ \A x \in 1 .. (taken - 1) : x < r /\ x # r
            BY <6>1, Bounds DEF Reading, Typed, HistoryTyped, Phases
          <6> QED
            BY <6>1, <6>2 DEF Known
        <5> QED
          BY <5>1, <5>2
      <4> HIDE DEF o
      <4>3. InOrder(image, published, o)
        BY <1>a DEF o
      <4>4. Once(Overlaid(r)) /\ InOrder(Overlaid(r), published, o)
        BY <1>a, <4>2, <4>3, OverlaidOrder
      <4> QED
        BY <4>1, <4>4
    <3> QED
      BY <3>1, <3>2
  <2>3. InOrder(image', published, published \cup misplaced')
    <3>1. \A i \in DOMAIN image' : image'[i] \in o => image'[i] \in published \cup misplaced'
      BY <2>1 DEF Elements
    <3> QED
      BY <2>2, <3>1 DEF InOrder
  <2>4. WindowOnce' /\ Readings(window') = {}
    BY <2>1 DEF WindowOnce, Readings
  <2>5. Once(handed') /\ Elements(handed') = {} /\ Once(queue') /\ Elements(queue') = {}
    BY <1>b, <2>1
  <2>6. Apart'
    BY <2>2, <2>4, <2>5 DEF Apart
  <2>7. Committed'
    BY <2>1 DEF Committed, Clean
  <2>8. Ordered'
    <3>1. InOrder(queue', published', (published \cup misplaced)')
      BY <2>1 DEF InOrder
    <3>2. InOrder(image', published', (published \cup misplaced \cup Handing)')
      BY <2>1, <2>3 DEF InOrder
    <3> QED
      BY <3>1, <3>2 DEF Ordered
  <2> QED
    BY <2>6, <2>7, <2>8 DEF HInv
<1> QED
  BY <1>1, <1>2, <1>3, <1>4, <1>5, <1>6, <1>7, <1>8, <1>9, <1>10, <1>11
     DEF Next, Pass, ReclaimStep, DrainStep, SampleStep, Environment

LEMMA Joined ==
  ASSUME NEW T, NEW s \in Seq(T), NEW t \in Seq(T)
  PROVE  /\ s \o t \in Seq(T) /\ DOMAIN (s \o t) = 1 .. Len(s) + Len(t)
         /\ Len(s \o t) = Len(s) + Len(t)
         /\ \A i \in 1 .. Len(s) + Len(t) : (s \o t)[i] = IF i <= Len(s) THEN s[i] ELSE t[i - Len(s)]
OBVIOUS

LEMMA ApartIsOnce ==
  ASSUME Typed, Apart
  PROVE  HeldOnce
<1> DEFINE a == [i \in DOMAIN window |-> window[i].r]
           A == Len(window)
           H == Len(handed)
           Q == Len(queue)
           held == a \o handed \o queue
<1>1. /\ A \in Nat /\ H \in Nat /\ Q \in Nat
      /\ DOMAIN window = 1 .. A /\ DOMAIN handed = 1 .. H /\ DOMAIN queue = 1 .. Q
      /\ handed \in Seq(Reading) /\ queue \in Seq(Reading) /\ window \in Seq(Entry)
      /\ Len(handed) = H /\ Len(queue) = Q
  BY DEF Typed, NodeTyped, StoreTyped
<1>2. a \in Seq(Reading) /\ Len(a) = A /\ \A i \in 1 .. A : a[i] = window[i].r
  <2>1. \A i \in DOMAIN window : window[i].r \in Reading
    <3> SUFFICES ASSUME NEW i \in DOMAIN window PROVE window[i].r \in Reading
      OBVIOUS
    <3>1. window[i] \in Entry
      BY <1>1
    <3> QED
      BY <3>1 DEF Entry
  <2> QED
    BY <1>1, <2>1
<1> HIDE DEF a, A, H, Q
<1>3. /\ DOMAIN held = 1 .. A + H + Q
      /\ \A i \in 1 .. A : held[i] = a[i]
      /\ \A i \in A + 1 .. A + H : held[i] = handed[i - A]
      /\ \A i \in A + H + 1 .. A + H + Q : held[i] = queue[i - A - H]
  <2> DEFINE ah == a \o handed
  <2>1. /\ ah \in Seq(Reading) /\ Len(ah) = A + H
        /\ \A i \in 1 .. A + H : ah[i] = IF i <= A THEN a[i] ELSE handed[i - A]
    BY <1>1, <1>2, Joined
  <2> HIDE DEF ah
  <2>2. /\ DOMAIN (ah \o queue) = 1 .. A + H + Q
        /\ \A i \in 1 .. A + H + Q :
             (ah \o queue)[i] = IF i <= A + H THEN ah[i] ELSE queue[i - (A + H)]
    BY <1>1, <2>1, Joined
  <2>3. held = ah \o queue
    BY DEF ah
  <2> HIDE DEF held
  <2>4. /\ DOMAIN held = 1 .. A + H + Q
        /\ \A i \in 1 .. A + H + Q :
             held[i] = IF i <= A + H THEN ah[i] ELSE queue[i - (A + H)]
    BY <2>2, <2>3
  <2>5. ASSUME NEW i \in 1 .. A PROVE held[i] = a[i]
    <3>1. i \in 1 .. A + H + Q /\ i \in 1 .. A + H /\ i <= A + H /\ i <= A
      BY <1>1
    <3> QED
      BY <2>1, <2>4, <3>1
  <2>6. ASSUME NEW i \in A + 1 .. A + H PROVE held[i] = handed[i - A]
    <3>1. i \in 1 .. A + H + Q /\ i \in 1 .. A + H /\ i <= A + H /\ ~ (i <= A)
      BY <1>1
    <3> QED
      BY <2>1, <2>4, <3>1
  <2>7. ASSUME NEW i \in A + H + 1 .. A + H + Q PROVE held[i] = queue[i - A - H]
    <3>1. i \in 1 .. A + H + Q /\ ~ (i <= A + H) /\ i - (A + H) = i - A - H
      BY <1>1
    <3> QED
      BY <2>4, <3>1
  <2> QED
    BY <2>4, <2>5, <2>6, <2>7
<1>4. HeldOnce <=> \A i, j \in DOMAIN held : held[i] = held[j] => i = j
  BY DEF HeldOnce, a
<1> HIDE DEF held
<1>5. ASSUME NEW i \in DOMAIN held
      PROVE  \/ i \in 1 .. A /\ held[i] = window[i].r /\ held[i] \in Readings(window)
             \/ i \in A + 1 .. A + H /\ i - A \in 1 .. H /\ held[i] = handed[i - A]
                /\ held[i] \in Elements(handed)
             \/ i \in A + H + 1 .. A + H + Q /\ i - A - H \in 1 .. Q
                /\ held[i] = queue[i - A - H] /\ held[i] \in Elements(queue)
  <2>1. CASE i \in 1 .. A
    BY <1>1, <1>2, <1>3, <2>1 DEF Readings
  <2>2. CASE i \in A + 1 .. A + H
    <3>1. i - A \in 1 .. H
      BY <1>1, <2>2
    <3> QED
      BY <1>1, <1>3, <2>2, <3>1 DEF Elements
  <2>3. CASE i \in A + H + 1 .. A + H + Q
    <3>1. i - A - H \in 1 .. Q
      BY <1>1, <2>3
    <3> QED
      BY <1>1, <1>3, <2>3, <3>1 DEF Elements
  <2> QED
    BY <1>1, <1>3, <2>1, <2>2, <2>3
<1>6. /\ Readings(window) \cap Elements(handed) = {} /\ Readings(window) \cap Elements(queue) = {}
      /\ Elements(handed) \cap Elements(queue) = {}
  BY DEF Apart
<1>7. /\ \A k, l \in 1 .. A : window[k].r = window[l].r => k = l
      /\ \A k, l \in 1 .. H : handed[k] = handed[l] => k = l
      /\ \A k, l \in 1 .. Q : queue[k] = queue[l] => k = l
  BY <1>1 DEF Apart, WindowOnce, Once
<1>8. ASSUME NEW i \in DOMAIN held, NEW j \in DOMAIN held, held[i] = held[j] PROVE i = j
  <2>1. CASE held[i] \in Readings(window)
    BY <1>5, <1>6, <1>7, <1>8, <2>1
  <2>2. CASE held[i] \in Elements(handed)
    <3>1. i - A \in 1 .. H /\ j - A \in 1 .. H /\ handed[i - A] = handed[j - A]
      BY <1>5, <1>6, <1>8, <2>2
    <3>2. i - A = j - A
      BY <1>7, <3>1
    <3> QED
      BY <1>1, <1>3, <3>2
  <2>3. CASE held[i] \in Elements(queue)
    <3>1. i - A - H \in 1 .. Q /\ j - A - H \in 1 .. Q /\ queue[i - A - H] = queue[j - A - H]
      BY <1>5, <1>6, <1>8, <2>3
    <3>2. i - A - H = j - A - H
      BY <1>7, <3>1
    <3> QED
      BY <1>1, <1>3, <3>2
  <2> QED
    BY <1>5, <2>1, <2>2, <2>3
<1> QED
  BY <1>4, <1>8

\* Every reading is accounted for and held once, and a power cut costs at most one of
\* those that were never sent (psychron_node.ino:5-6, 109-110), for all sizes, and for
\* all times at which three keepalives and two passes fit in the horizon, as long as the
\* flash does not fail.
THEOREM NodeLosesNothing ==
  ASSUME MaxFails = 0, 3 * KeepAlive + 2 * MaxPass <= Horizon
  PROVE  Spec => []NothingVanishes
<1> DEFINE J == TInv /\ HInv
<1>1. Init => J
  BY Begins, HeldBegin
<1>2. J /\ [Next]_vars => J'
  BY TypesKept, HeldKept
<1>3. J => HeldOnce
  BY ApartIsOnce DEF TInv, HInv
<1>4. Spec => []HeldOnce
  BY <1>1, <1>2, <1>3, PTL DEF Spec
<1>5. Spec => []Accounted
  BY NothingLost
<1> QED
  BY <1>4, <1>5, UnsentSurvivesCuts, PTL DEF NothingVanishes

\* A reading goes out for the first time only after every older one in the store did
\* (psychron_node.ino:81-82), unless a power cut left it in a slot that the header gives
\* to an older one, as long as the flash does not fail.
THEOREM OldestSentFirst ==
  ASSUME MaxFails = 0
  PROVE  Spec => FirstSentInOrder
<1> DEFINE J == TInv /\ HInv
           Ahead == \A r \in published' \ published :
                      \A x \in Elements(queue) : x < r => x \in published \/ r \in misplaced
<1>1. Init => J
  BY Begins, HeldBegin
<1>2. J /\ [Next]_vars => J'
  BY TypesKept, HeldKept
<1>3. J /\ [Next]_vars => [Ahead]_vars
  <2> SUFFICES ASSUME J, Next PROVE Ahead
    OBVIOUS
  <2>1. CASE DrainOne
    <3> SUFFICES ASSUME NEW r \in published' \ published, NEW x \in Elements(queue), x < r,
                        x \notin published, r \notin misplaced
                 PROVE  FALSE
      OBVIOUS
    <3>1. r = Head(queue) /\ queue # <<>> /\ queue \in Seq(Reading)
      BY <2>1 DEF DrainOne, MayDrain, Publish, TInv, Typed, StoreTyped
    <3>2. PICK j \in DOMAIN queue : x = queue[j]
      BY DEF Elements
    <3>3. /\ 1 \in DOMAIN queue /\ r = queue[1] /\ j \in Nat /\ j >= 1
          /\ x \in Nat /\ r \in Nat
      <4>1. DOMAIN queue = 1 .. Len(queue) /\ Len(queue) \in Nat /\ Len(queue) > 0
            /\ Head(queue) = queue[1] /\ \A k \in DOMAIN queue : queue[k] \in Reading
        BY <3>1
      <4>2. Reading \subseteq Nat
        BY Bounds DEF Reading
      <4>3. 1 \in DOMAIN queue /\ j \in Nat /\ j >= 1
        BY <4>1
      <4>4. queue[1] \in Nat /\ queue[j] \in Nat
        BY <4>1, <4>2, <4>3
      <4> QED
        BY <3>1, <3>2, <4>1, <4>3, <4>4
    <3>4. j # 1
      BY <3>2, <3>3
    <3>5. r < x
      BY <3>2, <3>3, <3>4 DEF HInv, Ordered, InOrder
    <3> QED
      BY <3>3, <3>5
  <2>2. CASE GoLive
    <3>1. Elements(queue) = {}
      BY <2>2 DEF GoLive, CanGoLive, Elements
    <3> QED
      BY <3>1
  <2>3. CASE ~ DrainOne /\ ~ GoLive
    <3>1. published' = published
      BY <2>3 DEF Next, Pass, NetStep, Connect, NoConnect, KeepAliveLost, SendPing, ReadAnswer,
             ReclaimStep, SessionHolds, Reclaim, Requeue, RequeueEnd, DrainStep, Drain, DrainEnd,
             SampleStep, NoReading, Take, Store, Commit, Tick, Deliver, Boot, Environment, StreamDies,
             StreamReset, WifiUp, WifiDown, PowerCut, ghost
    <3> QED
      BY <3>1
  <2> QED
    BY <2>1, <2>2, <2>3
<1> QED
  BY <1>1, <1>2, <1>3, PTL DEF Spec, FirstSentInOrder

-----------------------------------------------------------------------------
(* The headroom.                                                           *)

LEMMA Periods ==
  ASSUME NEW k \in Nat, NEW l \in Nat, k <= l
  PROVE  /\ k * ReadPeriod \in Nat /\ l * ReadPeriod \in Nat
         /\ k * ReadPeriod <= l * ReadPeriod
         /\ (k + 1) * ReadPeriod = k * ReadPeriod + ReadPeriod
<1>1. PICK e \in Nat : l = k + e
  <2>1. l - k \in Nat /\ l = k + (l - k)
    OBVIOUS
  <2> QED
    BY <2>1
<1>2. l * ReadPeriod = k * ReadPeriod + e * ReadPeriod
  BY <1>1, Bounds
<1>3. k * ReadPeriod \in Nat /\ e * ReadPeriod \in Nat /\ l * ReadPeriod \in Nat
  BY Bounds
<1>4. (k + 1) * ReadPeriod = k * ReadPeriod + ReadPeriod
  BY Bounds
<1> QED
  BY <1>2, <1>3, <1>4

LEMMA Headrooms ==
  /\ WindowCapacity \in Nat /\ Headroom \in Nat /\ Headroom < WindowCapacity
  /\ WindowCapacity - Headroom \in Nat
  /\ Horizon \in Nat /\ ReadPeriod \in Nat
BY SizesAssumption, TimesAssumption

\* The ages of window entries, and the time since the last reading.
LEMMA SpacedTypes ==
  ASSUME TInv
  PROVE  /\ DOMAIN window = 1 .. Len(window) /\ Len(window) \in Nat /\ Len(window) <= WindowCapacity
         /\ \A i \in DOMAIN window : window[i].age \in 0 .. (Horizon + 1)
         /\ SinceHanded \in Nat
<1>1. window \in Seq(Entry) /\ Len(window) <= WindowCapacity /\ SinceHanded \in Nat
  BY Bounds, Headrooms DEF TInv, Typed, NodeTyped, LinkTyped, SinceHanded
<1>2. ASSUME NEW i \in DOMAIN window PROVE window[i].age \in 0 .. (Horizon + 1)
  <2>1. window[i] \in Entry
    BY <1>1
  <2> QED
    BY <2>1 DEF Entry
<1> QED
  BY <1>1, <1>2

LEMMA LeastIs ==
  ASSUME NEW x \in Nat
  PROVE  /\ Least(Horizon + 1, x) \in Nat /\ Least(Horizon + 1, x) <= Horizon + 1
         /\ Least(Horizon + 1, x) <= x
         /\ x <= Horizon => Least(Horizon + 1, x) = x
         /\ x > Horizon => Least(Horizon + 1, x) = Horizon + 1
BY Headrooms DEF Least

LEMMA SpacedUntouched ==
  ASSUME TInv, Spaced, window' = window, SinceHanded' \in Nat, SinceHanded' <= SinceHanded
  PROVE  Spaced'
<1>1. Falling'
  BY DEF Spaced, Falling
<1>2. PICK d \in 0 .. Len(window) : d <= WindowCapacity - Headroom /\ SpreadFrom(d)
  BY DEF Spaced
<1>3. ASSUME NEW i \in d + 1 .. Len(window)
      PROVE  window[i].age >= Least(Horizon + 1, SinceHanded' + (Len(window) - i) * ReadPeriod)
  <2>1. /\ window[i].age >= Least(Horizon + 1, SinceHanded + (Len(window) - i) * ReadPeriod)
        /\ window[i].age \in Nat /\ SinceHanded \in Nat /\ Len(window) - i \in Nat
    <3>1. Len(window) \in Nat /\ DOMAIN window = 1 .. Len(window) /\ SinceHanded \in Nat
      BY SpacedTypes
    <3>2. i \in DOMAIN window /\ Len(window) - i \in Nat
      BY <3>1
    <3>3. window[i].age \in Nat
      BY <3>2, SpacedTypes, Headrooms
    <3> QED
      BY <1>2, <3>1, <3>2, <3>3 DEF SpreadFrom
  <2>2. (Len(window) - i) * ReadPeriod \in Nat
    BY <2>1, Periods
  <2> DEFINE p == (Len(window) - i) * ReadPeriod
  <2> HIDE DEF p
  <2>3. Least(Horizon + 1, SinceHanded' + p) <= Least(Horizon + 1, SinceHanded + p)
        /\ Least(Horizon + 1, SinceHanded' + p) \in Nat /\ Least(Horizon + 1, SinceHanded + p) \in Nat
    BY <2>1, <2>2, Headrooms DEF Least, p
  <2>4. window[i].age >= Least(Horizon + 1, SinceHanded + p)
    BY <2>1 DEF p
  <2>5. window[i].age >= Least(Horizon + 1, SinceHanded' + p)
    BY <2>1, <2>3, <2>4
  <2> QED
    BY <2>5 DEF p
<1>4. SpreadFrom(d)'
  BY <1>3 DEF SpreadFrom
<1> QED
  BY <1>1, <1>2, <1>4 DEF Spaced

LEMMA SpacedEmpty ==
  ASSUME window' = <<>>
  PROVE  Spaced'
<1>1. Falling' /\ Len(window') = 0
  BY DEF Falling
<1>2. SpreadFrom(0)'
  BY <1>1 DEF SpreadFrom
<1> QED
  BY <1>1, <1>2, Headrooms DEF Spaced

\* A window that lost its first m entries, and may have won a new one.
LEMMA SpacedShorter ==
  ASSUME TInv, Spaced, NEW m \in 0 .. Len(window), window' \in Seq(Entry),
         Len(window') = Len(window) - m, SinceHanded' = SinceHanded,
         \A i \in 1 .. Len(window) - m : window'[i] = window[i + m]
  PROVE  Spaced'
<1>0. /\ DOMAIN window = 1 .. Len(window) /\ Len(window) \in Nat /\ m \in Nat
      /\ DOMAIN window' = 1 .. Len(window) - m
      /\ \A i \in DOMAIN window' : i + m \in DOMAIN window
  BY SpacedTypes
<1>1. Falling'
  <2> SUFFICES ASSUME NEW i \in DOMAIN window', NEW j \in DOMAIN window', i < j
               PROVE  window'[i].age >= window'[j].age
    BY DEF Falling
  <2>1. i + m < j + m
    BY <1>0
  <2> QED
    BY <1>0, <2>1 DEF Spaced, Falling
<1>2. PICK d \in 0 .. Len(window) : d <= WindowCapacity - Headroom /\ SpreadFrom(d)
  BY DEF Spaced
<1> DEFINE e == IF d >= m THEN d - m ELSE 0
<1>3. e \in 0 .. Len(window') /\ e <= WindowCapacity - Headroom /\ e + m >= d /\ e \in Nat
  BY <1>0, <1>2, Headrooms
<1> HIDE DEF e
<1>4. SpreadFrom(e)'
  <2> SUFFICES ASSUME NEW i \in e + 1 .. Len(window')
               PROVE  window'[i].age >= Least(Horizon + 1, SinceHanded' + (Len(window') - i) * ReadPeriod)
    BY DEF SpreadFrom
  <2>1. i + m \in d + 1 .. Len(window) /\ i \in 1 .. Len(window) - m
        /\ Len(window') - i = Len(window) - (i + m)
    BY <1>0, <1>2, <1>3
  <2> QED
    BY <1>2, <2>1 DEF SpreadFrom
<1> QED
  BY <1>1, <1>3, <1>4 DEF Spaced

\* The ages of a window that a reading was added to.
LEMMA PublishedFalling ==
  ASSUME TInv, Spaced, NEW r \in Reading, Publish(r)
  PROVE  Falling'
<1>1. window' \in Seq(Entry)
  BY PublishedWindow DEF TInv
<1>2. PICK m \in 0 .. Len(window) :
        /\ Len(window') = Len(window) - m + 1
        /\ \A i \in 1 .. Len(window) - m : window'[i] = window[i + m]
        /\ window'[Len(window')] = [r |-> r, age |-> 0]
  BY PublishedWindow DEF TInv
<1>3. DOMAIN window' = 1 .. Len(window') /\ Len(window) \in Nat /\ DOMAIN window = 1 .. Len(window)
  BY <1>1, SpacedTypes
<1> SUFFICES ASSUME NEW i \in DOMAIN window', NEW j \in DOMAIN window', i < j
             PROVE  window'[i].age >= window'[j].age
  BY DEF Falling
<1>4. i \in 1 .. Len(window) - m /\ i + m \in DOMAIN window /\ window'[i] = window[i + m]
  BY <1>2, <1>3
<1>5. CASE j = Len(window')
  BY <1>2, <1>4, <1>5, SpacedTypes
<1>6. CASE j # Len(window')
  <2>1. j \in 1 .. Len(window) - m /\ j + m \in DOMAIN window /\ i + m < j + m
    BY <1>2, <1>3, <1>6
  <2> QED
    BY <1>2, <1>4, <2>1 DEF Spaced, Falling
<1> QED
  BY <1>5, <1>6

\* A live reading finds room, one period or more after the last one.
LEMMA LiveSpaced ==
  ASSUME Headroom * ReadPeriod > Horizon, TInv, Spaced, NEW r \in Reading, Publish(r),
         SinceHanded >= ReadPeriod, SinceHanded' = 0
  PROVE  Spaced' /\ exposed' = exposed
<1>0. PICK m \in 0 .. Len(window) :
        /\ Len(window') = Len(window) - m + 1
        /\ \A i \in 1 .. Len(window) - m : window'[i] = window[i + m]
        /\ window'[Len(window')] = [r |-> r, age |-> 0]
        /\ exposed' # exposed => /\ m >= 1 /\ Len(window) - m = WindowCapacity - 1
                                 /\ window[m].age <= Horizon
  BY PublishedWindow DEF TInv
<1>1. /\ DOMAIN window = 1 .. Len(window) /\ Len(window) \in Nat /\ Len(window) <= WindowCapacity
      /\ \A i \in DOMAIN window : window[i].age \in 0 .. (Horizon + 1)
      /\ SinceHanded \in Nat /\ m \in Nat
  BY SpacedTypes
<1>2. PICK d \in 0 .. Len(window) : d <= WindowCapacity - Headroom /\ SpreadFrom(d)
  BY DEF Spaced
<1> DEFINE e == IF d >= m THEN d - m ELSE 0
<1>3. e \in 0 .. Len(window') /\ e <= WindowCapacity - Headroom /\ e + m >= d /\ e \in Nat
  BY <1>0, <1>1, <1>2, Headrooms
<1> HIDE DEF e
<1>4. SpreadFrom(e)'
  <2> SUFFICES ASSUME NEW i \in e + 1 .. Len(window')
               PROVE  window'[i].age >= Least(Horizon + 1, 0 + (Len(window') - i) * ReadPeriod)
    BY DEF SpreadFrom
  <2>1. CASE i = Len(window')
    <3>1. window'[i].age = 0 /\ (Len(window') - i) * ReadPeriod = 0
      BY <1>0, <1>1, <2>1, Headrooms
    <3> QED
      BY <3>1, Headrooms DEF Least
  <2>2. CASE i # Len(window')
    <3> DEFINE k == Len(window) - (i + m)
    <3>1. /\ i + m \in d + 1 .. Len(window) /\ i \in 1 .. Len(window) - m
          /\ Len(window') - i = k + 1 /\ k \in Nat
      <4> DEFINE n == Len(window)
                 l == Len(window')
      <4>1. n \in Nat /\ m \in 0 .. n /\ l = n - m + 1 /\ d \in Nat /\ e \in Nat /\ e + m >= d
            /\ i \in e + 1 .. l /\ i # l
        BY <1>0, <1>1, <1>2, <1>3, <2>2
      <4> HIDE DEF n, l
      <4>2. i + m \in d + 1 .. n /\ i \in 1 .. n - m /\ l - i = (n - (i + m)) + 1
            /\ n - (i + m) \in Nat
        BY <4>1
      <4> QED
        BY <4>2 DEF n, l
    <3>2. window'[i].age >= Least(Horizon + 1, SinceHanded + k * ReadPeriod)
          /\ window'[i].age \in Nat
      <4>1. window'[i] = window[i + m]
        BY <1>0, <3>1
      <4>2. window[i + m].age >= Least(Horizon + 1, SinceHanded + k * ReadPeriod)
        BY <1>2, <3>1 DEF SpreadFrom
      <4>3. i + m \in DOMAIN window
        BY <1>1, <1>2, <3>1
      <4>4. window[i + m].age \in Nat
        BY <1>1, <4>3, Headrooms
      <4> QED
        BY <4>1, <4>2, <4>4
    <3> HIDE DEF k
    <3>3. (k + 1) * ReadPeriod = k * ReadPeriod + ReadPeriod /\ k * ReadPeriod \in Nat
      <4>1. k \in Nat /\ k <= k
        BY <3>1
      <4> QED
        BY <4>1, Periods
    <3> DEFINE p == k * ReadPeriod
    <3> HIDE DEF p
    <3>4. Least(Horizon + 1, 0 + (p + ReadPeriod)) <= Least(Horizon + 1, SinceHanded + p)
          /\ Least(Horizon + 1, 0 + (p + ReadPeriod)) \in Nat
          /\ Least(Horizon + 1, SinceHanded + p) \in Nat
      BY <1>1, <3>3, Headrooms DEF Least, p
    <3>5. window'[i].age >= Least(Horizon + 1, 0 + (p + ReadPeriod))
      BY <3>2, <3>4 DEF p
    <3> QED
      BY <3>1, <3>3, <3>5 DEF p
  <2> QED
    BY <2>1, <2>2
<1>5. exposed' = exposed
  <2> SUFFICES ASSUME exposed' # exposed PROVE FALSE
    OBVIOUS
  <2>1. m = 1 /\ Len(window) = WindowCapacity /\ window[1].age <= Horizon
    <3>1. m >= 1 /\ Len(window) - m = WindowCapacity - 1 /\ window[m].age <= Horizon
      BY <1>0
    <3>2. m = 1 /\ Len(window) = WindowCapacity
      <4> DEFINE n == Len(window)
      <4>1. n \in Nat /\ m \in Nat /\ n <= WindowCapacity /\ m >= 1 /\ n - m = WindowCapacity - 1
        BY <1>1, <3>1
      <4> HIDE DEF n
      <4>2. m = 1 /\ n = WindowCapacity
        BY <4>1, Headrooms
      <4> QED
        BY <4>2 DEF n
    <3> QED
      BY <3>1, <3>2
  <2>2. Headroom >= 1
    BY Headrooms
  <2> DEFINE f == IF d = 0 THEN 1 ELSE d + 1
             k == WindowCapacity - f
  <2>3. f \in d + 1 .. Len(window) /\ f \in DOMAIN window /\ k \in Nat /\ Headroom <= k + 1
    BY <1>1, <1>2, <2>1, <2>2, Headrooms
  <2>4. window[f].age >= Least(Horizon + 1, SinceHanded + (Len(window) - f) * ReadPeriod)
    BY <1>2, <2>3 DEF SpreadFrom
  <2>5. window[f].age >= Least(Horizon + 1, SinceHanded + k * ReadPeriod)
    BY <2>1, <2>4
  <2>6. window[1].age >= window[f].age
    <3>1. 1 \in DOMAIN window /\ (f = 1 \/ 1 < f)
      BY <1>1, <2>1, <2>3, Headrooms
    <3>2. CASE f = 1
      BY <1>1, <3>1, <3>2
    <3>3. CASE 1 < f
      BY <2>3, <3>1, <3>3 DEF Spaced, Falling
    <3> QED
      BY <3>1, <3>2, <3>3
  <2> HIDE DEF f, k
  <2>7. Headroom * ReadPeriod <= (k + 1) * ReadPeriod /\ (k + 1) * ReadPeriod \in Nat
        /\ Headroom * ReadPeriod \in Nat
    BY <2>3, Headrooms, Periods
  <2>8. (k + 1) * ReadPeriod = k * ReadPeriod + ReadPeriod /\ k * ReadPeriod \in Nat
    <3>1. k \in Nat /\ k <= k
      BY <2>3
    <3> QED
      BY <3>1, Periods
  <2> DEFINE p == k * ReadPeriod
             h == Headroom * ReadPeriod
  <2>9. h \in Nat /\ p \in Nat /\ h > Horizon /\ h <= p + ReadPeriod
    BY <2>7, <2>8
  <2>10. window[f].age >= Least(Horizon + 1, SinceHanded + p)
    BY <2>5
  <2> HIDE DEF p, h
  <2>11. SinceHanded + p > Horizon
    BY <1>1, <2>9, Headrooms
  <2>12. Least(Horizon + 1, SinceHanded + p) = Horizon + 1
    BY <1>1, <2>9, <2>11, Headrooms DEF Least
  <2>13. window[f].age \in Nat /\ window[1].age \in Nat
    BY <1>1, <2>1, <2>3, Headrooms
  <2> QED
    BY <2>1, <2>6, <2>10, <2>12, <2>13, Headrooms
<1> QED
  BY <1>3, <1>4, <1>5, PublishedFalling DEF Spaced

\* A replayed reading goes where the headroom begins at most.
LEMMA DrainSpaced ==
  ASSUME TInv, Spaced, NEW r \in Reading, Publish(r), WindowCapacity - Len(window) > Headroom
  PROVE  Spaced' /\ exposed' = exposed
<1>0. PICK m \in 0 .. Len(window) :
        /\ Len(window') = Len(window) - m + 1
        /\ exposed' # exposed => /\ m >= 1 /\ Len(window) - m = WindowCapacity - 1
  BY PublishedWindow DEF TInv
<1>1. Len(window) \in Nat
  BY SpacedTypes
<1>2. PICK n \in Nat : n = Len(window')
  BY <1>0, <1>1
<1>3. n \in 0 .. Len(window') /\ n <= WindowCapacity - Headroom
  BY <1>0, <1>1, <1>2, Headrooms
<1>4. SpreadFrom(n)'
  BY <1>2 DEF SpreadFrom
<1>5. exposed' = exposed
  <2> SUFFICES ASSUME exposed' # exposed PROVE FALSE
    OBVIOUS
  <2>1. m >= 1 /\ Len(window) - m = WindowCapacity - 1
    BY <1>0
  <2> QED
    BY <1>1, <2>1, Headrooms
<1> QED
  BY <1>3, <1>4, <1>5, PublishedFalling DEF Spaced

LEMMA TickSpaced ==
  ASSUME TInv, Spaced, Tick
  PROVE  Spaced'
<1>0. /\ DOMAIN window = 1 .. Len(window) /\ Len(window) \in Nat
      /\ \A i \in DOMAIN window : window[i].age \in 0 .. (Horizon + 1)
      /\ SinceHanded \in Nat
  BY SpacedTypes
<1>1. /\ DOMAIN window' = DOMAIN window /\ Len(window') = Len(window)
      /\ \A i \in DOMAIN window : window'[i].age = Older(window[i].age, Horizon)
  BY Aged DEF TInv
<1>2. SinceHanded' \in Nat /\ SinceHanded' <= SinceHanded + 1
  BY <1>0 DEF Tick, SinceHanded
<1>3. Falling'
  <2> SUFFICES ASSUME NEW i \in DOMAIN window, NEW j \in DOMAIN window, i < j
               PROVE  window'[i].age >= window'[j].age
    BY <1>1 DEF Falling
  <2>1. window[i].age >= window[j].age
    BY DEF Spaced, Falling
  <2> QED
    BY <1>0, <1>1, <2>1, Headrooms DEF Older
<1>4. PICK d \in 0 .. Len(window) : d <= WindowCapacity - Headroom /\ SpreadFrom(d)
  BY DEF Spaced
<1>5. ASSUME NEW i \in d + 1 .. Len(window)
      PROVE  window'[i].age >= Least(Horizon + 1, SinceHanded' + (Len(window) - i) * ReadPeriod)
  <2>1. i \in DOMAIN window /\ Len(window) - i \in Nat
    BY <1>0
  <2>2. (Len(window) - i) * ReadPeriod \in Nat
    BY <2>1, Periods
  <2>3. PICK p \in Nat : p = (Len(window) - i) * ReadPeriod
    BY <2>2
  <2>4. PICK s \in Nat : s = SinceHanded
    BY <1>0
  <2>5. PICK t \in Nat : t = SinceHanded'
    BY <1>2
  <2>6. PICK a \in 0 .. (Horizon + 1) : a = window[i].age
    BY <1>0, <2>1
  <2>7. /\ a >= Least(Horizon + 1, s + p) /\ t <= s + 1
        /\ window'[i].age = Older(a, Horizon)
    BY <1>1, <1>2, <1>4, <2>1, <2>3, <2>4, <2>5, <2>6 DEF SpreadFrom
  <2>8. PICK x \in Nat : x = s + p
    OBVIOUS
  <2>9. PICK y \in Nat : y = t + p
    OBVIOUS
  <2>10. y <= x + 1
    BY <2>7, <2>8, <2>9
  <2>11. Older(a, Horizon) >= Least(Horizon + 1, y)
    <3>1. PICK h \in Nat : h = Horizon + 1
      BY Headrooms
    <3>2. Older(a, Horizon) = (IF a >= h THEN a ELSE a + 1) /\ a \in Nat
      BY <3>1, Headrooms DEF Older
    <3>3. a >= (IF h <= x THEN h ELSE x)
      BY <2>7, <2>8, <3>1 DEF Least
    <3>4. Least(Horizon + 1, y) = IF h <= y THEN h ELSE y
      BY <3>1 DEF Least
    <3> QED
      BY <2>10, <3>2, <3>3, <3>4
  <2> QED
    BY <2>3, <2>5, <2>7, <2>9, <2>11
<1>6. SpreadFrom(d)'
  BY <1>1, <1>5 DEF SpreadFrom
<1> QED
  BY <1>1, <1>3, <1>4, <1>6 DEF Spaced

LEMMA SpacedBegin ==
  ASSUME Init
  PROVE  Fresh /\ Spaced /\ exposed = {}
<1>1. window = <<>> /\ exposed = {} /\ Fresh
  BY DEF Init, Fresh
<1>2. Falling /\ Len(window) = 0
  BY <1>1 DEF Falling
<1>3. SpreadFrom(0)
  BY <1>2 DEF SpreadFrom
<1> QED
  BY <1>1, <1>2, <1>3, Headrooms DEF Spaced

\* No step fills the window so far that a reading falls out of it.
LEMMA SpacedKept ==
  ASSUME Headroom * ReadPeriod > Horizon, TInv, Fresh, Spaced, [Next]_vars
  PROVE  Fresh' /\ Spaced' /\ exposed' = exposed
<1>0. /\ SinceHanded \in Nat /\ window \in Seq(Entry)
      /\ sinceRead \in Nat /\ sinceRead <= ReadPeriod /\ ReadPeriod \in Nat
  BY SpacedTypes, Headrooms DEF TInv, Typed, NodeTyped, LinkTyped
<1>1. CASE Reclaim \/ PowerCut
  <2>1. window' = <<>> /\ exposed' = exposed /\ Fresh'
    BY <1>1 DEF Reclaim, PowerCut, ghost, Fresh
  <2> QED
    BY <2>1, SpacedEmpty
<1>2. CASE Drain /\ window' = Expired(window)
  <2>1. SinceHanded' = SinceHanded /\ exposed' = exposed /\ Fresh'
    BY <1>2 DEF Drain, ghost, SinceHanded, Fresh
  <2>2. PICK m \in 0 .. Len(window) : Expired(window) = SubSeq(window, m + 1, Len(window))
    BY <1>0, Expiry
  <2>3. window' = SubSeq(window, m + 1, Len(window))
    BY <1>2, <2>2
  <2>4. /\ window' \in Seq(Entry) /\ Len(window') = Len(window) - m
        /\ \A i \in 1 .. Len(window) - m : window'[i] = window[i + m]
    BY <1>0, <2>3, Behind
  <2> QED
    BY <2>1, <2>4, SpacedShorter
<1>3. CASE DrainOne
  <2>1. Publish(Head(queue)) /\ WindowCapacity - Len(window) > Headroom /\ queue # <<>>
    BY <1>3 DEF DrainOne, MayDrain
  <2>2. Head(queue) \in Reading
    BY <2>1 DEF TInv, Typed, StoreTyped
  <2>3. Fresh'
    BY <1>3 DEF DrainOne, Fresh
  <2> QED
    BY <2>1, <2>2, <2>3, DrainSpaced
<1>4. CASE GoLive
  <2>1. /\ Publish(taken) /\ SinceHanded >= ReadPeriod /\ SinceHanded' = 0
        /\ taken \in Reading /\ Fresh'
    BY <1>0, <1>4 DEF GoLive, SinceHanded, Fresh, TInv, Phases, Typed, HistoryTyped, Reading
  <2> QED
    BY <2>1, LiveSpaced
<1>5. CASE Store \/ Take
  <2>1. /\ window' = window /\ exposed' = exposed /\ Fresh'
        /\ SinceHanded' \in Nat /\ SinceHanded' <= SinceHanded
    BY <1>0, <1>5 DEF Store, Take, SinceHanded, Fresh
  <2> QED
    BY <2>1, SpacedUntouched
<1>6. CASE Tick
  <2>1. exposed' = exposed /\ Fresh'
    BY <1>6 DEF Tick, ghost, Fresh
  <2> QED
    BY <1>6, <2>1, TickSpaced
<1>7. CASE ~ (Reclaim \/ PowerCut \/ DrainOne \/ GoLive \/ Store \/ Take \/ Tick)
           /\ ~ (Drain /\ window' = Expired(window))
  <2>1. /\ window' = window /\ sinceRead' = sinceRead /\ exposed' = exposed
        /\ pc' = "handoff" <=> pc = "handoff"
    <3>1. CASE NetStep \/ ReclaimStep
      BY <1>7, <3>1 DEF NetStep, Connect, NoConnect, KeepAliveLost, SendPing, ReadAnswer,
         ReclaimStep, SessionHolds, Requeue, RequeueEnd, ghost
    <3>2. CASE DrainStep \/ SampleStep \/ Boot
      BY <1>7, <3>2 DEF DrainStep, Drain, DrainEnd, SampleStep, NoReading, Commit, Boot, ghost
    <3>3. CASE Deliver \/ StreamDies \/ StreamReset \/ WifiUp \/ WifiDown \/ UNCHANGED vars
      BY <3>3 DEF Deliver, StreamDies, StreamReset, WifiUp, WifiDown, vars, node, ghost
    <3> QED
      BY <1>7, <3>1, <3>2, <3>3 DEF Next, Pass, Environment
  <2>2. SinceHanded' \in Nat /\ SinceHanded' <= SinceHanded /\ Fresh'
    BY <1>0, <2>1 DEF SinceHanded, Fresh
  <2> QED
    BY <2>1, <2>2, SpacedUntouched
<1> QED
  BY <1>1, <1>2, <1>3, <1>4, <1>5, <1>6, <1>7

\* Replay never pushes a reading out of the window, for any sizes and any failures of the
\* flash, as long as the headroom holds more readings than one horizon brings: 32 readings
\* of 3 s against 45 s on the node (config.h:73-75).
THEOREM HeadroomIsEnough ==
  ASSUME Headroom * ReadPeriod > Horizon
  PROVE  Spec => []HeadroomSuffices
<1> DEFINE J == TInv /\ Fresh /\ Spaced /\ exposed = {}
<1>1. Init => J
  BY Begins, SpacedBegin
<1>2. J /\ [Next]_vars => J'
  BY TypesKept, SpacedKept
<1>3. J => HeadroomSuffices
  BY DEF HeadroomSuffices
<1> QED
  BY <1>1, <1>2, <1>3, PTL DEF Spec

-----------------------------------------------------------------------------
(* The store is used as its contract allows.                               *)

\* An entry of the store, whole.
Kept(r) == [id |-> r, ok |-> TRUE]

LEMMA WholeOf ==
  ASSUME NEW s \in Seq(Reading)
  PROVE  /\ Whole(s) \in Seq([id : Reading, ok : {TRUE}]) /\ Len(Whole(s)) = Len(s)
         /\ DOMAIN Whole(s) = DOMAIN s /\ \A i \in DOMAIN s : Whole(s)[i] = Kept(s[i])
         /\ s # <<>> => Whole(s) # <<>> /\ Head(Whole(s)) = Kept(Head(s))
<1>1. DOMAIN Whole(s) = DOMAIN s /\ \A i \in DOMAIN s : Whole(s)[i] = Kept(s[i])
  BY DEF Whole, Kept
<1>2. Whole(s) \in Seq([id : Reading, ok : {TRUE}]) /\ Len(Whole(s)) = Len(s)
  <2>1. Len(s) \in Nat /\ DOMAIN s = 1 .. Len(s) /\ \A i \in DOMAIN s : s[i] \in Reading
    OBVIOUS
  <2>2. ASSUME NEW i \in DOMAIN s PROVE Kept(s[i]) \in [id : Reading, ok : {TRUE}]
    BY <2>1 DEF Kept
  <2>3. Whole(s) = [i \in 1 .. Len(s) |-> Kept(s[i])]
    BY <2>1 DEF Whole, Kept
  <2> DEFINE F(i) == Kept(s[i])
             R == [id : Reading, ok : {TRUE}]
  <2>4. \A i \in 1 .. Len(s) : F(i) \in R
    BY <2>1, <2>2
  <2>5. Whole(s) = [i \in 1 .. Len(s) |-> F(i)]
    BY <2>3
  <2> HIDE DEF F, R
  <2>6. Whole(s) \in Seq(R) /\ Len(Whole(s)) = Len(s)
    BY <2>1, <2>4, <2>5
  <2> QED
    BY <2>6 DEF R
<1> QED
  BY <1>1, <1>2

LEMMA WholeRest ==
  ASSUME NEW s \in Seq(Reading), s # <<>>
  PROVE  Whole(Tail(s)) = Tail(Whole(s)) /\ Tail(s) \in Seq(Reading)
<1> DEFINE w == Whole(s)
           t == Tail(s)
           R == [id : Reading, ok : {TRUE}]
<1>1. w \in Seq(R) /\ Len(w) = Len(s) /\ w # <<>> /\ \A i \in DOMAIN s : w[i] = Kept(s[i])
  BY WholeOf
<1>2. t \in Seq(Reading) /\ Len(t) = Len(s) - 1 /\ Len(s) \in Nat /\ Len(s) > 0
      /\ DOMAIN s = 1 .. Len(s) /\ \A i \in 1 .. Len(s) - 1 : t[i] = s[i + 1]
  OBVIOUS
<1> HIDE DEF w, t
<1>3. Whole(t) \in Seq(R) /\ Len(Whole(t)) = Len(t) /\ \A i \in DOMAIN t : Whole(t)[i] = Kept(t[i])
  BY <1>2, WholeOf
<1> DEFINE v == Whole(t)
<1>4. v \in Seq(R) /\ Len(v) = Len(s) - 1 /\ DOMAIN t = 1 .. Len(s) - 1
  BY <1>2, <1>3
<1> HIDE DEF v, R
<1>5. Tail(w) \in Seq(R) /\ Len(Tail(w)) = Len(s) - 1 /\ \A i \in 1 .. Len(s) - 1 : Tail(w)[i] = w[i + 1]
  BY <1>1, <1>2
<1> DEFINE u == Tail(w)
<1>6. u \in Seq(R) /\ Len(u) = Len(s) - 1
  BY <1>5
<1>7. ASSUME NEW i \in 1 .. Len(s) - 1 PROVE v[i] = u[i]
  <2>1. t[i] = s[i + 1] /\ i + 1 \in DOMAIN s
    BY <1>2
  <2>2. v[i] = Kept(t[i])
    BY <1>3, <1>4 DEF v
  <2>3. u[i] = w[i + 1] /\ w[i + 1] = Kept(s[i + 1])
    BY <1>1, <1>5, <2>1
  <2> QED
    BY <2>1, <2>2, <2>3
<1> HIDE DEF u
<1>8. DOMAIN v = DOMAIN u
  BY <1>2, <1>4, <1>6
<1>9. v = u
  BY <1>2, <1>4, <1>6, <1>7, <1>8
<1> QED
  BY <1>2, <1>9 DEF v, w, t, u

LEMMA WholeMore ==
  ASSUME NEW s \in Seq(Reading), NEW r \in Reading
  PROVE  Whole(Append(s, r)) = Append(Whole(s), Kept(r))
<1> DEFINE w == Whole(s)
           t == Append(s, r)
           R == [id : Reading, ok : {TRUE}]
           e == Kept(r)
<1>1. w \in Seq(R) /\ Len(w) = Len(s) /\ (\A i \in DOMAIN s : w[i] = Kept(s[i])) /\ e \in R
  BY WholeOf DEF Kept
<1>2. t \in Seq(Reading) /\ Len(t) = Len(s) + 1 /\ Len(s) \in Nat
      /\ DOMAIN s = 1 .. Len(s) /\ (\A i \in 1 .. Len(s) : t[i] = s[i]) /\ t[Len(s) + 1] = r
  OBVIOUS
<1> HIDE DEF w, t, e
<1>3. Whole(t) \in Seq(R) /\ Len(Whole(t)) = Len(t) /\ \A i \in DOMAIN t : Whole(t)[i] = Kept(t[i])
  BY <1>2, WholeOf
<1> DEFINE v == Whole(t)
<1>4. v \in Seq(R) /\ Len(v) = Len(s) + 1 /\ DOMAIN t = 1 .. Len(s) + 1
  BY <1>2, <1>3
<1> HIDE DEF v, R
<1>5. /\ Append(w, e) \in Seq(R) /\ Len(Append(w, e)) = Len(s) + 1
      /\ \A i \in 1 .. Len(s) : Append(w, e)[i] = w[i]
      /\ Append(w, e)[Len(s) + 1] = e
  BY <1>1, <1>2
<1>6. \A i \in 1 .. Len(s) + 1 : v[i] = Append(w, e)[i]
  <2> TAKE i \in 1 .. Len(s) + 1
  <2>1. v[i] = Kept(t[i])
    BY <1>3, <1>4 DEF v
  <2> QED
    BY <1>1, <1>2, <1>5, <2>1 DEF e
<1>7. v = Append(w, e)
  BY <1>2, <1>4, <1>5, <1>6
<1> QED
  BY <1>7 DEF v, w, t, e

\* A reading that is in the store and in its image is in the same slot in both.
Placed ==
  pc # "off" =>
    \A i \in DOMAIN image, k \in DOMAIN queue :
      image[i] = queue[k] => i - 1 = (behind + (k - 1)) % StoreCapacity

LEMMA PlacedCommitted ==
  ASSUME Once(queue'), queue' \in Seq(Reading), Len(queue') <= StoreCapacity,
         image' = queue', behind' = 0
  PROVE  Placed'
<1> SUFFICES ASSUME NEW i \in DOMAIN queue', NEW k \in DOMAIN queue', queue'[i] = queue'[k]
             PROVE  i - 1 = (0 + (k - 1)) % StoreCapacity
  BY DEF Placed
<1>1. i = k
  BY DEF Once
<1>2. PICK l \in 0 .. StoreCapacity : l = k - 1 /\ l < StoreCapacity
  BY Bounds
<1>3. (0 + l) % StoreCapacity = l
  BY <1>2, SlotAt, Bounds
<1> QED
  BY <1>1, <1>2, <1>3

\* The slot of an entry does not move with the tail.
LEMMA SameSlot ==
  ASSUME NEW b \in 0 .. (StoreCapacity - 1), NEW c \in 0 .. (StoreCapacity - 1),
         NEW l \in 0 .. StoreCapacity, NEW n \in 0 .. StoreCapacity,
         c = (IF b + 1 = StoreCapacity THEN 0 ELSE b + 1), n = l + 1
  PROVE  (c + l) % StoreCapacity = (b + n) % StoreCapacity
<1>1. (c + l) % StoreCapacity = IF c + l < StoreCapacity THEN c + l ELSE c + l - StoreCapacity
  BY SlotAt
<1>2. (b + n) % StoreCapacity = IF b + n < StoreCapacity THEN b + n ELSE b + n - StoreCapacity
  BY SlotAt
<1> DEFINE x == (c + l) % StoreCapacity
           y == (b + n) % StoreCapacity
<1> HIDE DEF x, y
<1>3. x = IF c + l < StoreCapacity THEN c + l ELSE c + l - StoreCapacity
  BY <1>1 DEF x
<1>4. y = IF b + n < StoreCapacity THEN b + n ELSE b + n - StoreCapacity
  BY <1>2 DEF y
<1>5. x = y
  BY <1>3, <1>4, Bounds
<1> QED
  BY <1>5 DEF x, y

LEMMA PlacedTaken ==
  ASSUME Placed, Typed, pc # "off", queue # <<>>, queue' = Tail(queue), TailMoves, image' = image
  PROVE  Placed'
<1>0. /\ behind \in 0 .. (StoreCapacity - 1) /\ Len(queue) \in Nat /\ Len(queue) <= StoreCapacity
      /\ DOMAIN queue = 1 .. Len(queue) /\ DOMAIN queue' = 1 .. Len(queue) - 1
      /\ \A k \in 1 .. Len(queue) - 1 : queue'[k] = queue[k + 1]
  BY DEF Typed, StoreTyped
<1>1. behind' = IF behind + 1 = StoreCapacity THEN 0 ELSE behind + 1
  BY <1>0, NextSlot DEF TailMoves
<1> SUFFICES ASSUME NEW i \in DOMAIN image, NEW k \in DOMAIN queue', image[i] = queue'[k]
             PROVE  i - 1 = (behind' + (k - 1)) % StoreCapacity
  BY DEF Placed
<1>2. k + 1 \in DOMAIN queue /\ image[i] = queue[k + 1] /\ k \in 1 .. StoreCapacity - 1
  BY <1>0, Bounds
<1>3. i - 1 = (behind + ((k + 1) - 1)) % StoreCapacity
  BY <1>2 DEF Placed
<1>4. PICK l \in 0 .. StoreCapacity : l = k - 1
  BY <1>2, Bounds
<1>5. PICK n \in 0 .. StoreCapacity : n = (k + 1) - 1 /\ n = l + 1
  BY <1>2, <1>4, Bounds
<1>6. PICK b \in 0 .. (StoreCapacity - 1) : b = behind'
  BY <1>0, <1>1, Bounds
<1>7. (b + l) % StoreCapacity = (behind + n) % StoreCapacity
  BY <1>0, <1>1, <1>5, <1>6, SameSlot
<1> QED
  BY <1>3, <1>4, <1>5, <1>6, <1>7

\* The queue with room for one more, as the contract has it.
Room == IF Len(queue) = StoreCapacity THEN Tail(queue) ELSE queue

\* The slot at head holds nothing that stays queued.
LEMMA HeadIsFree ==
  ASSUME Placed, Typed, pc # "off", Once(queue), NEW i \in DOMAIN image, i - 1 = HeadSlot
  PROVE  image[i] \notin Elements(Room)
<1>0. /\ behind \in 0 .. (StoreCapacity - 1) /\ Len(queue) \in Nat /\ Len(queue) <= StoreCapacity
      /\ DOMAIN queue = 1 .. Len(queue) /\ queue \in Seq(Reading)
  BY DEF Typed, StoreTyped
<1> SUFFICES ASSUME image[i] \in Elements(Room) PROVE FALSE
  OBVIOUS
<1>1. PICK k \in DOMAIN queue : image[i] = queue[k] /\ (Len(queue) = StoreCapacity => k > 1)
  <2>1. CASE Len(queue) = StoreCapacity
    <3>1. PICK j \in DOMAIN Tail(queue) : image[i] = Tail(queue)[j]
      BY <2>1 DEF Room, Elements
    <3>2. queue # <<>>
      BY <1>0, <2>1, Bounds
    <3>3. j + 1 \in DOMAIN queue /\ Tail(queue)[j] = queue[j + 1] /\ j + 1 > 1
      BY <1>0, <3>1, <3>2
    <3> QED
      BY <3>1, <3>3
  <2>2. CASE Len(queue) # StoreCapacity
    BY <2>2 DEF Room, Elements
  <2> QED
    BY <2>1, <2>2
<1>2. i - 1 = (behind + (k - 1)) % StoreCapacity
  BY <1>1 DEF Placed
<1>3. PICK l \in 0 .. StoreCapacity : l = k - 1
  BY <1>0, Bounds
<1>4. PICK n \in 0 .. StoreCapacity : n = Len(queue)
  <2>1. Len(queue) \in 0 .. StoreCapacity
    BY <1>0, Bounds
  <2> QED
    BY <2>1
<1>5. l < n /\ (n = StoreCapacity => l > 0)
  BY <1>0, <1>1, <1>3, <1>4
<1>6. (behind + l) % StoreCapacity = (behind + n) % StoreCapacity
  BY <1>2, <1>3, <1>4 DEF HeadSlot
<1>7. /\ (behind + l) % StoreCapacity =
           IF behind + l < StoreCapacity THEN behind + l ELSE behind + l - StoreCapacity
      /\ (behind + n) % StoreCapacity =
           IF behind + n < StoreCapacity THEN behind + n ELSE behind + n - StoreCapacity
  BY <1>0, SlotAt
<1> QED
  BY <1>0, <1>5, <1>6, <1>7, Bounds

LEMMA PlacedOverlaid ==
  ASSUME Placed, Typed, pc # "off", NEW r \in Reading, PushUncommitted(r),
         r \notin Elements(queue), r \notin Elements(image)
  PROVE  Placed'
<1>0. /\ behind \in 0 .. (StoreCapacity - 1) /\ Len(queue) \in Nat /\ Len(queue) <= StoreCapacity
      /\ DOMAIN queue = 1 .. Len(queue) /\ queue \in Seq(Reading)
      /\ DOMAIN image' = DOMAIN image
      /\ \A i \in DOMAIN image : image'[i] = IF i - 1 = HeadSlot THEN r ELSE image[i]
  BY DEF Typed, StoreTyped, PushUncommitted, Overlaid
<1> SUFFICES ASSUME NEW i \in DOMAIN image, NEW k \in DOMAIN queue', image'[i] = queue'[k]
             PROVE  i - 1 = (behind' + (k - 1)) % StoreCapacity
  BY <1>0 DEF Placed
<1>1. HeadSlot = IF behind + Len(queue) < StoreCapacity THEN behind + Len(queue)
                 ELSE behind + Len(queue) - StoreCapacity
  BY <1>0, SlotAt DEF HeadSlot
<1>2. CASE Len(queue) # StoreCapacity
  <2>1. queue' = Append(queue, r) /\ behind' = behind
    BY <1>2 DEF PushUncommitted, Pushed, Evicted
  <2>2. CASE k = Len(queue) + 1
    <3>1. image'[i] = r
      BY <1>0, <2>1, <2>2
    <3>2. i - 1 = HeadSlot
      BY <1>0, <3>1 DEF Elements
    <3>3. k - 1 = Len(queue)
      BY <1>0, <2>2
    <3> QED
      BY <2>1, <3>2, <3>3 DEF HeadSlot
  <2>3. CASE k # Len(queue) + 1
    <3>1. k \in DOMAIN queue /\ queue'[k] = queue[k]
      BY <1>0, <2>1, <2>3
    <3>2. image'[i] # r
      BY <3>1 DEF Elements
    <3> QED
      BY <1>0, <2>1, <3>1, <3>2 DEF Placed
  <2> QED
    BY <2>2, <2>3
<1>3. CASE Len(queue) = StoreCapacity
  <2>1. queue' = Append(Tail(queue), r) /\ queue # <<>> /\ TailMoves
    <3>1. Evicted # {}
      BY <1>3 DEF Evicted
    <3> QED
      BY <1>0, <1>3, <3>1, Bounds DEF PushUncommitted, Pushed
  <2>2. behind' = IF behind + 1 = StoreCapacity THEN 0 ELSE behind + 1
    BY <1>0, <2>1, NextSlot DEF TailMoves
  <2>3. /\ DOMAIN queue' = 1 .. Len(queue) /\ queue'[Len(queue)] = r
        /\ \A j \in 1 .. Len(queue) - 1 : queue'[j] = queue[j + 1]
    BY <1>0, <2>1
  <2>4. PICK b \in 0 .. (StoreCapacity - 1) : b = behind'
    BY <1>0, <2>2, Bounds
  <2>5. PICK l \in 0 .. StoreCapacity : l = k - 1
    BY <1>0, <1>3, <2>3, Bounds
  <2>6. PICK n \in 0 .. StoreCapacity : n = k /\ n = l + 1
    BY <1>0, <1>3, <2>3, <2>5, Bounds
  <2>7. (b + l) % StoreCapacity = (behind + n) % StoreCapacity
    BY <1>0, <2>2, <2>4, <2>6, SameSlot
  <2>8. (b + l) % StoreCapacity = (behind + k) % StoreCapacity
    BY <2>6, <2>7
  <2>9. CASE k = Len(queue)
    <3>1. i - 1 = HeadSlot
      <4>1. image'[i] = r
        BY <2>3, <2>9
      <4> QED
        BY <1>0, <4>1 DEF Elements
    <3> QED
      BY <2>4, <2>5, <2>8, <2>9, <3>1 DEF HeadSlot
  <2>10. CASE k # Len(queue)
    <3>1. k + 1 \in DOMAIN queue /\ queue'[k] = queue[k + 1] /\ (k + 1) - 1 = k
      BY <1>0, <2>3, <2>10
    <3>2. image'[i] # r
      BY <3>1 DEF Elements
    <3>3. i - 1 = (behind + k) % StoreCapacity
      BY <1>0, <3>1, <3>2 DEF Placed
    <3> QED
      BY <2>4, <2>5, <2>8, <3>3
  <2> QED
    BY <2>9, <2>10
<1> QED
  BY <1>2, <1>3

LEMMA RoomMaps ==
  ASSUME Typed
  PROVE  /\ StoreContract!Roomy(Whole(queue)) = Whole(Room) /\ Room \in Seq(Reading)
         /\ \A r \in Reading : Whole(Pushed(r)) = Append(StoreContract!Roomy(Whole(queue)), Kept(r))
         /\ \A x \in Reading : x \notin Elements(Room) =>
              Kept(x) \notin StoreContract!Elements(StoreContract!Roomy(Whole(queue)))
<1>0. queue \in Seq(Reading) /\ Len(Whole(queue)) = Len(queue) /\ Len(queue) \in Nat
  BY WholeOf DEF Typed, StoreTyped
<1>1. Len(queue) = StoreCapacity => queue # <<>>
  BY <1>0, Bounds
<1>2. StoreContract!Roomy(Whole(queue)) = Whole(Room) /\ Room \in Seq(Reading)
  BY <1>0, <1>1, WholeRest DEF StoreContract!Roomy, Room
<1>3. ASSUME NEW r \in Reading PROVE Whole(Pushed(r)) = Append(Whole(Room), Kept(r))
  <2>1. Pushed(r) = Append(Room, r)
    BY DEF Pushed, Room
  <2> HIDE DEF Room
  <2> QED
    BY <1>2, <2>1, WholeMore
<1>4. ASSUME NEW x \in Reading, x \notin Elements(Room)
      PROVE  Kept(x) \notin StoreContract!Elements(Whole(Room))
  <2> HIDE DEF Room
  <2> SUFFICES ASSUME NEW i \in DOMAIN Whole(Room), Kept(x) = Whole(Room)[i] PROVE FALSE
    BY DEF StoreContract!Elements
  <2>1. i \in DOMAIN Room /\ Whole(Room)[i] = Kept(Room[i])
    BY <1>2, WholeOf
  <2>2. x = Room[i]
    BY <2>1 DEF Kept
  <2> QED
    BY <1>4, <2>1, <2>2 DEF Elements
<1> QED
  BY <1>2, <1>3, <1>4

\* A slot written ahead of its header holds nothing that stays queued.
LEMMA OverlaidMaps ==
  ASSUME Typed, Once(queue), Placed, pc # "off", NEW r \in Reading, image' = Overlaid(r)
  PROVE  StoreContract!ReplacedBy(LAMBDA old : Kept(r))
<1>0. Typed /\ Once(queue) /\ image \in Seq(Reading)
  BY DEF Typed, StoreTyped
<1>a. /\ \A i \in DOMAIN image : image'[i] = IF i - 1 = HeadSlot THEN r ELSE image[i]
      /\ image' = [i \in DOMAIN image |-> IF i - 1 = HeadSlot THEN r ELSE image[i]]
  BY DEF Overlaid
<1>1. CASE \E j \in DOMAIN image : j - 1 = HeadSlot
  <2>1. PICK j \in DOMAIN image : j - 1 = HeadSlot
    BY <1>1
  <2>2. image[j] \notin Elements(Room) /\ image[j] \in Reading
    BY <1>0, <2>1, HeadIsFree
  <2>3. Whole(image)[j] \notin StoreContract!Elements(StoreContract!Roomy(Whole(queue)))
    BY <1>0, <2>2, RoomMaps, WholeOf
  <2>4. Whole(image') = [Whole(image) EXCEPT ![j] = Kept(r)]
    <3>1. \A i \in DOMAIN image : i - 1 = HeadSlot <=> i = j
      BY <1>0, <2>1
    <3>2. image' = [i \in DOMAIN image |-> IF i = j THEN r ELSE image[i]]
      BY <1>a, <3>1
    <3> QED
      BY <2>1, <3>2 DEF Whole, Kept
  <2>5. j \in DOMAIN Whole(image)
    BY <2>1 DEF Whole
  <2> QED
    BY <2>3, <2>4, <2>5 DEF StoreContract!ReplacedBy
<1>2. CASE ~ \E j \in DOMAIN image : j - 1 = HeadSlot
  <2>1. image' = image
    BY <1>0, <1>a, <1>2
  <2>2. Whole(image') = Whole(image)
    BY <2>1
  <2> QED
    BY <2>2 DEF StoreContract!ReplacedBy
<1> QED
  BY <1>1, <1>2

\* A push whose header is committed later.
LEMMA DeferredMaps ==
  ASSUME TInv, HInv, Placed, pc # "off", pc' # "off", NEW r \in Reading, PushUncommitted(r)
  PROVE  StoreContract!Put(Kept(r))
<1>1. Typed /\ Once(queue)
  BY DEF TInv, HInv, Apart
<1>2. Whole(queue') = Append(StoreContract!Roomy(Whole(queue)), Kept(r))
  BY <1>1, RoomMaps DEF PushUncommitted
<1>3. StoreContract!ReplacedBy(LAMBDA old : Kept(r))
  BY <1>1, OverlaidMaps DEF PushUncommitted
<1> QED
  BY <1>2, <1>3 DEF StoreContract!Put

LEMMA ContractKept ==
  ASSUME MaxFails = 0, TInv, HInv, Placed, [Next]_vars, TInv', HInv'
  PROVE  Placed' /\ [StoreContract!Next]_(StoreContract!vars)
<1>0. /\ Typed /\ ~ StoreFails /\ Once(queue) /\ queue \in Seq(Reading)
      /\ Len(queue) <= StoreCapacity /\ Once(queue') /\ queue' \in Seq(Reading)
      /\ Len(queue') <= StoreCapacity /\ image \in Seq(Reading) /\ Len(image) <= StoreCapacity
      /\ Once(image)
  BY DEF TInv, HInv, Apart, Typed, StoreTyped, StoreFails
<1>1. CASE Requeue
  <2>1. /\ pc = "requeue" /\ pc' = pc /\ handed # <<>> /\ PushUncommitted(Head(handed))
    BY <1>0, <1>1 DEF Requeue, PushDeferred, PushRefused
  <2>2. /\ Head(handed) \in Reading /\ Head(handed) \notin Elements(queue)
        /\ Head(handed) \notin Elements(image)
    <3>1. handed \in Seq(Reading)
      BY DEF TInv, Typed, NodeTyped
    <3>2. Head(handed) \in Reading /\ Head(handed) \in Elements(handed)
      BY <2>1, <3>1, ElementsOf
    <3> QED
      BY <3>2 DEF HInv, Apart
  <2>3. Kept(Head(handed)) \in [id : Reading, ok : {TRUE}]
    BY <2>2 DEF Kept
  <2>4. StoreContract!Put(Kept(Head(handed)))
    BY <2>1, <2>2, DeferredMaps
  <2>5. StoreContract!Next
    BY <2>3, <2>4 DEF StoreContract!Next
  <2> QED
    BY <1>0, <2>1, <2>2, <2>5, PlacedOverlaid
<1>2. CASE Store
  <2>1. pc = "handoff" /\ pc' = "commit" /\ PushUncommitted(taken)
    BY <1>0, <1>2 DEF Store, PushRefused
  <2>2. taken \in Reading /\ taken \notin Elements(queue) /\ taken \notin Elements(image)
    <3>1. taken \in Reading /\ taken \notin 1 .. (taken - 1)
      BY <2>1, Bounds DEF Reading, TInv, Typed, HistoryTyped, Phases
    <3> QED
      BY <2>1, <3>1 DEF TInv, Known
  <2>3. Kept(taken) \in [id : Reading, ok : {TRUE}]
    BY <2>2 DEF Kept
  <2>4. StoreContract!Put(Kept(taken))
    BY <2>1, <2>2, DeferredMaps
  <2>5. StoreContract!Next
    BY <2>3, <2>4 DEF StoreContract!Next
  <2> QED
    BY <1>0, <2>1, <2>2, <2>5, PlacedOverlaid
<1>3. CASE RequeueEnd \/ DrainEnd \/ Commit
  <2>1. /\ pc # "off" /\ pc' # "off" /\ queue' = queue /\ image' = queue' /\ behind' = 0
    BY <1>0, <1>3 DEF RequeueEnd, DrainEnd, Commit, FlushStore
  <2>2. StoreContract!Commit
    BY <2>1 DEF StoreContract!Commit
  <2> QED
    BY <1>0, <2>1, <2>2, PlacedCommitted DEF StoreContract!Next
<1>4. CASE DrainOne
  <2>1. /\ pc = "draining" /\ pc' = pc /\ queue # <<>> /\ queue' = Tail(queue) /\ TailMoves
        /\ image' = image
    BY <1>4 DEF DrainOne, MayDrain, flash
  <2>2. /\ Whole(queue) # <<>> /\ Head(Whole(queue)) = Kept(Head(queue))
        /\ Whole(queue') = Tail(Whole(queue)) /\ Whole(image') = Whole(image)
    BY <1>0, <2>1, WholeOf, WholeRest
  <2>3. StoreContract!Take
    BY <2>1, <2>2 DEF StoreContract!Take, Kept
  <2> QED
    BY <1>0, <2>1, <2>3, PlacedTaken DEF StoreContract!Next
<1>5. CASE Boot
  <2>1. pc = "off" /\ pc' = "net" /\ queue' = image /\ image' = image /\ behind' = 0
    BY <1>5 DEF Boot, flash, TInv, Phases
  <2>2. StoreContract!Restart
    BY <2>1 DEF StoreContract!Restart
  <2> QED
    BY <1>0, <2>1, <2>2, PlacedCommitted DEF StoreContract!Next
<1>6. CASE PowerCut
  <2>1. /\ pc # "off" /\ pc' = "off" /\ queue' = <<>>
        /\ image' \in {image} \cup { Overlaid(r) : r \in Pushing }
    BY <1>6 DEF PowerCut
  <2>2. Whole(queue') = <<>>
    BY <2>1 DEF Whole
  <2>3. StoreContract!PowerCut
    <3>1. CASE image' = image
      <4>1. StoreContract!ReplacedBy(StoreContract!Damaged)
        BY <3>1 DEF StoreContract!ReplacedBy
      <4> QED
        BY <2>1, <2>2, <4>1 DEF StoreContract!PowerCut
    <3>2. CASE image' # image
      <4>1. PICK r \in Pushing : image' = Overlaid(r)
        BY <2>1, <3>2
      <4>2. r \in Reading
        <5>1. handed \in Seq(Reading) /\ (pc = "handoff" => taken \in Reading)
          BY Bounds DEF TInv, Typed, NodeTyped, HistoryTyped, Phases, Reading
        <5>2. handed # <<>> => Head(handed) \in Reading
          BY <5>1
        <5> QED
          BY <5>1, <5>2 DEF Pushing
      <4>3. StoreContract!ReplacedBy(LAMBDA old : Kept(r))
        BY <1>0, <2>1, <4>1, <4>2, OverlaidMaps
      <4>4. Kept(r) \in [id : Reading, ok : {TRUE}]
        BY <4>2 DEF Kept
      <4> QED
        BY <2>1, <2>2, <4>3, <4>4 DEF StoreContract!PowerCut
    <3> QED
      BY <3>1, <3>2
  <2> QED
    BY <2>1, <2>3 DEF Placed, StoreContract!Next
<1>7. CASE ~ (Requeue \/ Store \/ RequeueEnd \/ DrainEnd \/ Commit \/ DrainOne \/ Boot \/ PowerCut)
  <2>1. UNCHANGED <<queue, image, behind>> /\ (pc # "off") = (pc' # "off")
    <3>1. CASE Next
      <4>1. CASE NetStep
        BY <4>1 DEF NetStep, Connect, NoConnect, KeepAliveLost, SendPing, ReadAnswer, flash
      <4>2. CASE SessionHolds \/ Reclaim
        BY <4>2 DEF SessionHolds, Reclaim, flash
      <4>3. CASE Drain
        BY <4>3 DEF Drain, flash
      <4>4. CASE NoReading \/ Take
        BY <4>4 DEF NoReading, Take, flash
      <4>5. CASE GoLive
        BY <4>5 DEF GoLive, flash
      <4>6. CASE Tick
        BY <4>6 DEF Tick, flash
      <4>7. CASE Deliver \/ StreamDies \/ StreamReset \/ WifiUp \/ WifiDown
        BY <4>7 DEF Deliver, StreamDies, StreamReset, WifiUp, WifiDown, flash, node
      <4> QED
        BY <1>7, <3>1, <4>1, <4>2, <4>3, <4>4, <4>5, <4>6, <4>7
        DEF Next, Pass, ReclaimStep, DrainStep, SampleStep, Environment
    <3>2. CASE UNCHANGED vars
      BY <3>2 DEF vars, node, flash
    <3> QED
      BY <3>1, <3>2
  <2>2. UNCHANGED StoreContract!vars
    BY <2>1 DEF StoreContract!vars
  <2> QED
    BY <2>1, <2>2 DEF Placed
<1> QED
  BY <1>1, <1>2, <1>3, <1>4, <1>5, <1>6, <1>7

\* The main loop is a use of the store that the contract of store.h allows, power cuts in
\* the middle of a push, of a reclaim or of a drain included: no slot is overwritten while
\* its reading is still queued, for any sizes and times, as long as the flash does not fail.
THEOREM StoreUsedAsPromised ==
  ASSUME MaxFails = 0
  PROVE  Spec => KeepsStoreContract
<1> DEFINE J == TInv /\ HInv /\ Placed
<1>1. Init => J /\ StoreContract!Init
  <2> SUFFICES ASSUME Init PROVE J /\ StoreContract!Init
    OBVIOUS
  <2>1. Placed
    BY DEF Init, Placed
  <2>2. StoreContract!Init
    BY DEF Init, StoreContract!Init, Whole
  <2> QED
    BY <2>1, <2>2, Begins, HeldBegin
<1>2. J /\ [Next]_vars => J' /\ [StoreContract!Next]_(StoreContract!vars)
  BY TypesKept, HeldKept, ContractKept
<1> QED
  BY <1>1, <1>2, PTL DEF Spec, KeepsStoreContract, StoreContract!Spec

=============================================================================
