----------------------------- MODULE OutboxProofs -----------------------------
(***************************************************************************)
(* Proofs about Outbox, for every capacity, batch limit and number of      *)
(* messages, and whatever the bounds on faults are.                        *)
(*                                                                         *)
(* AtLeastOnce is not inductive: the row that remove() deletes must be one *)
(* that the broker has.  What carries that across the two steps of send()  *)
(* is the worker's own place in the loop: while it is between the          *)
(* acknowledgement and the end of remove(), the head of its batch has been *)
(* received.                                                               *)
(*                                                                         *)
(* LossIsCounted and StaysBounded rest on what the counter may be off by:  *)
(* how far add() may trust it while the worker decrements it, and how far  *)
(* the table may be ahead of it when add() has set it from a count.        *)
(*                                                                         *)
(* OldestFirst rests on where a message may be that is older than one of   *)
(* the batch: received, evicted, or in the batch before it.                *)
(***************************************************************************)
EXTENDS Outbox, FiniteSetTheorems, TLAPS

RemovesReceived == lpc = "acked" => Head(batch) \in received

IInv == AtLeastOnce /\ RemovesReceived

USE DEF db, writer, worker, ghost

\* Each step of the sampling thread keeps the invariant: it removes rows only
\* as evicted ones.
LEMMA AddKeeps == ASSUME IInv, Offer \/ Add PROVE IInv'
<1>1. CASE Offer
  BY <1>1 DEF Offer, IInv, AtLeastOnce, RemovesReceived
<1>2. CASE Insert
  BY <1>2 DEF Insert, IInv, AtLeastOnce, RemovesReceived
<1>3. CASE Increment
  BY <1>3 DEF Increment, IInv, AtLeastOnce, RemovesReceived
<1>4. CASE ReadExcess
  BY <1>4 DEF ReadExcess, IInv, AtLeastOnce, RemovesReceived
<1>5. CASE Evict
  BY <1>5 DEF Evict, IInv, AtLeastOnce, RemovesReceived
<1>6. CASE CountRows
  BY <1>6 DEF CountRows, IInv, AtLeastOnce, RemovesReceived
<1>7. CASE SetSize
  BY <1>7 DEF SetSize, IInv, AtLeastOnce, RemovesReceived
<1> QED
  BY <1>1, <1>2, <1>3, <1>4, <1>5, <1>6, <1>7 DEF Add

\* Each step of the worker keeps it: it removes what it knows received.
LEMMA SendKeeps == ASSUME IInv, Send PROVE IInv'
<1>1. CASE Fetch
  BY <1>1 DEF Fetch, IInv, AtLeastOnce, RemovesReceived
<1>2. CASE PublishAcked
  BY <1>2 DEF PublishAcked, Published, IInv, AtLeastOnce, RemovesReceived
<1>3. CASE PublishFails
  BY <1>3 DEF PublishFails, Published, IInv, AtLeastOnce, RemovesReceived
<1>4. CASE BatchEnds
  BY <1>4 DEF BatchEnds, IInv, AtLeastOnce, RemovesReceived
<1>5. CASE RemoveRow
  BY <1>5 DEF RemoveRow, IInv, AtLeastOnce, RemovesReceived
<1>6. CASE RemoveThrows
  BY <1>6 DEF RemoveThrows, IInv, AtLeastOnce, RemovesReceived
<1>7. CASE Decrement
  BY <1>7 DEF Decrement, IInv, AtLeastOnce, RemovesReceived
<1> QED
  BY <1>1, <1>2, <1>3, <1>4, <1>5, <1>6, <1>7 DEF Send

\* A start, a stop, a crash or a kill touches neither the table nor the broker.
LEMMA ServiceKeeps ==
  ASSUME IInv, Start \/ Kill \/ StopLink \/ CloseOutbox \/ Crash \/ Stopped
  PROVE  IInv'
BY DEF Start, Kill, StopLink, CloseOutbox, Crash, Stopped, Gone, IInv,
       AtLeastOnce, RemovesReceived

\* A message that was written is on disk, with the broker, or was evicted
\* (MqttLink.kt:19-21), for every number of messages, capacity and batch size,
\* and however often the process dies.
THEOREM NothingRemovedUnacknowledged == Spec => []AtLeastOnce
<1>1. Init => IInv
  BY DEF Init, IInv, AtLeastOnce, RemovesReceived
<1>2. IInv /\ [Next]_vars => IInv'
  <2>1. CASE UNCHANGED vars
    BY <2>1 DEF vars, IInv, AtLeastOnce, RemovesReceived
  <2> QED
    BY <2>1, AddKeeps, SendKeeps, ServiceKeeps DEF Next
<1>3. IInv => AtLeastOnce
  BY DEF IInv
<1> QED
  BY <1>1, <1>2, <1>3, PTL DEF Spec

-----------------------------------------------------------------------------
(* The oldest rows.                                                        *)

Older(S, id) == { k \in S : k < id }

\* Counting the older ones numbers the messages of a set from 0, in their order.
LEMMA RanksOf ==
  ASSUME NEW S \in SUBSET Message
  PROVE  /\ IsFiniteSet(S) /\ Cardinality(S) \in 0 .. MaxMessages
         /\ \A id \in S : Cardinality(Older(S, id)) \in 0 .. Cardinality(S) - 1
         /\ \A id, jd \in S : id < jd => Cardinality(Older(S, id)) < Cardinality(Older(S, jd))
         /\ \A id, jd \in S : Cardinality(Older(S, id)) = Cardinality(Older(S, jd)) => id = jd
         /\ \A n \in 0 .. Cardinality(S) - 1 : \E id \in S : Cardinality(Older(S, id)) = n
<1>1. MaxMessages \in Nat /\ \A id \in S : id \in Nat
  BY OutboxBoundsAssumption DEF Message
<1>2. IsFiniteSet(Message) /\ Cardinality(Message) = MaxMessages
  BY <1>1, FS_Interval DEF Message
<1>3. /\ IsFiniteSet(S) /\ Cardinality(S) \in Nat /\ Cardinality(S) <= MaxMessages
  BY <1>2, FS_Subset, FS_CardinalityType
<1>4. ASSUME NEW T \in SUBSET S, NEW R \in SUBSET T, NEW id \in T, id \notin R
      PROVE  /\ Cardinality(R) < Cardinality(T)
             /\ Cardinality(R) \in Nat /\ Cardinality(T) \in Nat
  <2>1. IsFiniteSet(T)
    BY <1>3, FS_Subset
  <2>2. Cardinality(R) <= Cardinality(T) /\ Cardinality(R) # Cardinality(T) /\ IsFiniteSet(R)
    BY <1>4, <2>1, FS_Subset
  <2>3. Cardinality(R) \in Nat /\ Cardinality(T) \in Nat
    BY <2>1, <2>2, FS_CardinalityType
  <2> QED
    BY <2>2, <2>3
<1>5. ASSUME NEW id \in S PROVE Cardinality(Older(S, id)) \in 0 .. Cardinality(S) - 1
  <2>1. Older(S, id) \in SUBSET S /\ id \notin Older(S, id)
    BY <1>1 DEF Older
  <2> QED
    BY <1>3, <1>4, <2>1
<1>6. ASSUME NEW id \in S, NEW jd \in S, id < jd
      PROVE  Cardinality(Older(S, id)) < Cardinality(Older(S, jd))
  <2>1. /\ Older(S, id) \in SUBSET Older(S, jd) /\ Older(S, jd) \in SUBSET S
        /\ id \in Older(S, jd) /\ id \notin Older(S, id)
    BY <1>1, <1>6 DEF Older
  <2> QED
    BY <1>4, <2>1
<1>7. ASSUME NEW id \in S, NEW jd \in S, Cardinality(Older(S, id)) = Cardinality(Older(S, jd))
      PROVE  id = jd
  <2>1. Cardinality(Older(S, id)) \in Nat /\ Cardinality(Older(S, jd)) \in Nat
    BY <1>3, <1>5
  <2>2. id < jd \/ jd < id \/ id = jd
    BY <1>1
  <2> QED
    BY <1>6, <1>7, <2>1, <2>2
<1>8. ASSUME NEW n \in 0 .. Cardinality(S) - 1 PROVE \E id \in S : Cardinality(Older(S, id)) = n
  <2> DEFINE f   == [id \in S |-> Cardinality(Older(S, id))]
             Img == { Cardinality(Older(S, id)) : id \in S }
             Nos == 0 .. Cardinality(S) - 1
  <2>1. Img \subseteq Nos
    BY <1>5
  <2>2. f \in Bijection(S, Img)
    <3>1. f \in [S -> Img] /\ \A c \in Img : \E id \in S : f[id] = c
      OBVIOUS
    <3>2. \A id, jd \in S : f[id] = f[jd] => id = jd
      BY <1>7
    <3> HIDE DEF f, Img
    <3> QED
      BY <3>1, <3>2 DEF Bijection, Injection, Surjection, IsInjective
  <2> HIDE DEF f, Img
  <2>3. Cardinality(Img) = Cardinality(S)
    BY <1>3, <2>2, FS_Bijection DEF ExistsBijection
  <2>4. IsFiniteSet(Nos) /\ Cardinality(Nos) = Cardinality(S)
    <3>1. PICK c \in Nat : c = Cardinality(S)
      BY <1>3
    <3>2. IsFiniteSet(0 .. c - 1) /\ Cardinality(0 .. c - 1) = IF 0 > c - 1 THEN 0 ELSE c - 1 - 0 + 1
      BY FS_Interval
    <3> QED
      BY <3>1, <3>2
  <2>5. Img = Nos
    <3> HIDE DEF Nos
    <3> QED
      BY <2>1, <2>3, <2>4, FS_Subset
  <2> QED
    BY <1>8, <2>5 DEF Img
<1> QED
  BY <1>3, <1>5, <1>6, <1>7, <1>8

\* How many rows are older.
Rank(id) == Cardinality(Older(rows, id))

LEMMA Ranks ==
  ASSUME rows \subseteq Message
  PROVE  /\ IsFiniteSet(rows) /\ Cardinality(rows) \in Nat
         /\ \A id \in rows : Rank(id) \in 0 .. Cardinality(rows) - 1
         /\ \A id, jd \in rows : Rank(id) = Rank(jd) => id = jd
BY RanksOf DEF Rank

\* Rows whose ranks lie in an interval are as many as the interval, at most.
LEMMA RanksCount ==
  ASSUME rows \subseteq Message, NEW S \in SUBSET rows, NEW a \in Int, NEW b \in Int,
         \A id \in S : Rank(id) \in a .. b
  PROVE  Cardinality(S) <= IF a > b THEN 0 ELSE b - a + 1
<1> DEFINE f == [id \in S |-> Rank(id)]
<1>1. f \in Injection(S, a .. b)
  <2>1. f \in [S -> a .. b]
    OBVIOUS
  <2>2. \A id, jd \in S : f[id] = f[jd] => id = jd
    BY Ranks
  <2> QED
    BY <2>1, <2>2 DEF Injection, IsInjective
<1>2. IsFiniteSet(a .. b) /\ Cardinality(a .. b) = IF a > b THEN 0 ELSE b - a + 1
  BY FS_Interval
<1> QED
  BY <1>1, <1>2, FS_Injection

\* LIMIT n is n rows at most, and leaves that many fewer, or none.
LEMMA OldestAre ==
  ASSUME rows \subseteq Message, NEW n \in Int
  PROVE  /\ n >= 0 => Cardinality(Oldest(n)) <= n
         /\ \/ Cardinality(rows \ Oldest(n)) <= Cardinality(rows) - n
            \/ Cardinality(rows \ Oldest(n)) = 0
<1> DEFINE rest == rows \ Oldest(n)
<1>1. Cardinality(rows) \in Nat
  BY Ranks
<1>2. CASE n < 0
  <2>1. rest = {}
    BY <1>2 DEF Oldest
  <2> QED
    BY <1>2, <2>1, FS_EmptySet
<1>3. CASE n >= 0
  <2>1. Oldest(n) = { id \in rows : Rank(id) < n }
    BY <1>3 DEF Oldest, Rank, Older
  <2>2. Oldest(n) \in SUBSET rows /\ rest \in SUBSET rows
    BY <2>1
  <2>3. \A id \in Oldest(n) : Rank(id) \in 0 .. n - 1
    BY <1>1, <2>1, Ranks
  <2>4. \A id \in rest : Rank(id) \in n .. Cardinality(rows) - 1
    BY <1>1, <2>1, Ranks
  <2> HIDE DEF rest
  <2>5. n - 1 \in Int /\ Cardinality(rows) - 1 \in Int
    BY <1>1
  <2>6. Cardinality(Oldest(n)) <= IF 0 > n - 1 THEN 0 ELSE n - 1 - 0 + 1
    BY <2>2, <2>3, <2>5, RanksCount
  <2>7. Cardinality(rest) <= IF n > Cardinality(rows) - 1 THEN 0 ELSE Cardinality(rows) - 1 - n + 1
    BY <2>2, <2>4, <2>5, RanksCount
  <2>8. Cardinality(rest) \in Nat
    BY <2>2, Ranks, FS_Subset, FS_CardinalityType
  <2> QED
    BY <1>1, <1>3, <2>6, <2>7, <2>8 DEF rest
<1> QED
  BY <1>2, <1>3

-----------------------------------------------------------------------------
(* The counter.                                                            *)

Sized ==
  /\ rows \subseteq Message /\ evicted \subseteq Message
  /\ offered \in 0 .. MaxMessages /\ kills \in Nat
  /\ size \in Int /\ excess \in Int /\ dropped \in Int /\ found \in Int /\ acks \in 0 .. MaxAcks
  /\ process \in {"dead", "up", "stopping", "closed"}
  /\ wpc \in {"idle", "insert", "increment", "excess", "evict", "count", "set"}
  /\ lpc \in {"idle", "send", "acked", "decrement"}
  /\ wpc = "insert" => offered \in Message
  /\ process = "dead" => wpc = "idle" /\ lpc = "idle"

\* A row that is removed and not yet counted off.
Removed == IF lpc = "decrement" THEN 1 ELSE 0

\* The table is ahead of the counter by one row at most, which is the one that was
\* being removed when add() counted.
Drift ==
  LET ahead == Cardinality(rows) + Removed
  IN  /\ process # "dead" /\ wpc \in {"idle", "insert", "excess"} => ahead <= size + 1
      /\ wpc = "increment" => ahead <= size + 2
      /\ wpc = "evict" => Cardinality(rows) <= Capacity + excess + 1
      /\ wpc = "set" => ahead <= found + 1

\* Deaths that may have left a row: a stop has not until its end.
Deaths == IF process \in {"stopping", "closed"} THEN kills - 1 ELSE kills

Adding == wpc \in {"increment", "excess", "evict"}

Bounded ==
  /\ Deaths >= 0
  /\ Cardinality(rows) <= Capacity + 1 + Deaths + (IF Adding THEN 1 ELSE 0)

BInv == Sized /\ Drift /\ Bounded

LEMMA Bounds ==
  /\ Capacity \in Nat \ {0} /\ MaxAcks \in Nat /\ MaxMessages \in Nat /\ MaxKills \in Nat
  /\ Cardinality({}) = 0
BY OutboxBoundsAssumption, OutboxSizesAssumption, FS_EmptySet

\* A step that keeps or shrinks the table keeps its size known.
LEMMA Shrinks ==
  ASSUME Sized, NEW T \in SUBSET rows
  PROVE  Cardinality(T) \in Nat /\ Cardinality(T) <= Cardinality(rows) /\ Cardinality(rows) \in Nat
BY Ranks, FS_Subset, FS_CardinalityType DEF Sized

LEMMA AddBounds ==
  ASSUME BInv, Offer \/ Add
  PROVE  BInv'
<1> USE Bounds DEF BInv, Sized, Drift, Bounded, Removed, Deaths, Adding, Open
<1>0. Cardinality(rows) \in Nat
  BY Shrinks
<1>1. CASE Offer
  BY <1>0, <1>1 DEF Offer, Message
<1>2. CASE Insert
  <2>1. CASE rows' = rows \cup {offered}
    <3>1. IsFiniteSet(rows) /\ rows' \subseteq Message
      BY <1>2, <2>1, Ranks DEF Insert
    <3>2. Cardinality(rows') \in Nat /\ Cardinality(rows') <= Cardinality(rows) + 1
      <4>1. Cardinality(rows \cup {offered}) =
              IF offered \in rows THEN Cardinality(rows) ELSE Cardinality(rows) + 1
        BY <3>1, FS_AddElement
      <4> QED
        BY <1>0, <2>1, <4>1
    <3> QED
      BY <1>0, <1>2, <3>1, <3>2 DEF Insert
  <2>2. CASE rows' = rows
    BY <1>0, <1>2, <2>2 DEF Insert
  <2> QED
    BY <1>2, <2>1, <2>2 DEF Insert
<1>3. CASE Increment
  BY <1>0, <1>3 DEF Increment
<1>4. CASE ReadExcess
  BY <1>0, <1>4 DEF ReadExcess
<1>5. CASE Evict
  <2>1. /\ rows' = rows \ Oldest(excess) /\ evicted' = evicted \cup Oldest(excess) /\ wpc' = "count"
        /\ Oldest(excess) \subseteq rows
    BY <1>5 DEF Evict, Oldest
  <2>2. Cardinality(rows') <= Cardinality(rows) - excess \/ Cardinality(rows') = 0
    BY <2>1, OldestAre
  <2>3. Cardinality(rows') <= Capacity + 1
    <3>1. Cardinality(rows) <= Capacity + excess + 1 /\ excess \in Int
      BY <1>5 DEF Evict
    <3>2. CASE Cardinality(rows') = 0
      BY <3>2
    <3>3. CASE Cardinality(rows') <= Cardinality(rows) - excess
      <4> DEFINE a == Cardinality(rows)
                 b == Cardinality(rows')
      <4>1. a \in Nat /\ b \in Nat
        BY <1>0, <2>1, Shrinks
      <4> HIDE DEF a, b, BInv
      <4>2. b <= a - excess /\ a <= Capacity + excess + 1
        BY <3>1, <3>3 DEF a, b
      <4>3. b <= Capacity + 1
        BY <3>1, <4>1, <4>2
      <4> QED
        BY <4>3 DEF b
    <3> QED
      BY <2>2, <3>2, <3>3
  <2>4. Cardinality(rows') \in Nat
    BY <2>1, Shrinks
  <2> HIDE DEF Oldest
  <2> QED
    BY <1>5, <2>1, <2>3, <2>4 DEF Evict
<1>6. CASE CountRows
  BY <1>0, <1>6 DEF CountRows
<1>7. CASE SetSize
  BY <1>0, <1>7 DEF SetSize
<1> QED
  BY <1>1, <1>2, <1>3, <1>4, <1>5, <1>6, <1>7 DEF Add

LEMMA SendBounds ==
  ASSUME BInv, Send
  PROVE  BInv'
<1> USE Bounds DEF BInv, Sized, Drift, Bounded, Removed, Deaths, Adding, Open
<1>0. Cardinality(rows) \in Nat
  BY Shrinks
<1>1. CASE Fetch \/ PublishAcked \/ PublishFails \/ BatchEnds \/ RemoveThrows
  BY <1>0, <1>1 DEF Fetch, PublishAcked, PublishFails, BatchEnds, RemoveThrows
<1>2. CASE RemoveRow
  <2>1. CASE Head(batch) \in rows
    <3>1. rows' = rows \ {Head(batch)} /\ lpc' = "decrement"
      BY <1>2, <2>1 DEF RemoveRow
    <3>2. Cardinality(rows') = Cardinality(rows) - 1
      BY <2>1, <3>1, Ranks, FS_RemoveElement
    <3>3. Cardinality(rows') \in Nat /\ rows' \subseteq Message
      BY <3>1, Shrinks
    <3> QED
      BY <1>0, <1>2, <3>1, <3>2, <3>3 DEF RemoveRow
  <2>2. CASE Head(batch) \notin rows
    <3>1. rows' = rows /\ lpc' = "send"
      BY <1>2, <2>2 DEF RemoveRow
    <3> QED
      BY <1>0, <1>2, <3>1 DEF RemoveRow
  <2> QED
    BY <2>1, <2>2
<1>3. CASE Decrement
  BY <1>0, <1>3 DEF Decrement
<1> QED
  BY <1>1, <1>2, <1>3 DEF Send

LEMMA ServiceBounds ==
  ASSUME BInv, Start \/ Kill \/ StopLink \/ CloseOutbox \/ Crash \/ Stopped
  PROVE  BInv'
<1> USE Bounds DEF BInv, Sized, Drift, Bounded, Removed, Deaths, Adding
<1>0. Cardinality(rows) \in Nat
  BY Shrinks
<1>1. CASE Start
  BY <1>0, <1>1 DEF Start
<1>2. CASE Kill
  BY <1>0, <1>2 DEF Kill, Gone
<1>3. CASE StopLink
  BY <1>0, <1>3 DEF StopLink
<1>4. CASE CloseOutbox
  BY <1>0, <1>4 DEF CloseOutbox
<1>5. CASE Crash
  BY <1>0, <1>5 DEF Crash, AddThrows, Gone
<1>6. CASE Stopped
  BY <1>0, <1>6 DEF Stopped, Gone
<1> QED
  BY <1>1, <1>2, <1>3, <1>4, <1>5, <1>6

LEMMA BInvHolds == Spec => []BInv
<1>1. Init => BInv
  BY Bounds DEF Init, BInv, Sized, Drift, Bounded, Removed, Deaths, Adding
<1>2. BInv /\ [Next]_vars => BInv'
  <2>1. CASE UNCHANGED vars
    BY <2>1 DEF vars, BInv, Sized, Drift, Bounded, Removed, Deaths, Adding
  <2> QED
    BY <2>1, AddBounds, SendBounds, ServiceBounds DEF Next
<1> QED
  BY <1>1, <1>2, PTL DEF Spec

\* The table outgrows its capacity by two rows at most, and by one more for each death,
\* for every capacity and however many removals fall between two reads of the
\* counter (Outbox.kt add(), remove()).
THEOREM TableStaysBounded == Spec => []StaysBounded
<1>1. BInv => StaysBounded
  <2> SUFFICES ASSUME BInv PROVE StaysBounded
    OBVIOUS
  <2>1. Cardinality(rows) \in Nat
    BY Shrinks DEF BInv
  <2> QED
    BY <2>1, Bounds DEF BInv, Bounded, Sized, Deaths, StaysBounded
<1> QED
  BY <1>1, BInvHolds, PTL

-----------------------------------------------------------------------------
(* The count of what was lost.                                             *)

Lost == (evicted \ baseline) \ received

\* What add() has evicted and will have counted when it returns.
Pending == IF wpc \in {"count", "set"} THEN excess ELSE 0

\* With one removal during an add() the counter is not below the capacity when add()
\* reads it again, and LIMIT is not negative.
Counted ==
  /\ wpc = "excess" => size >= Capacity + 1 - acks
  /\ wpc = "evict" => excess >= 0
  /\ process # "dead" => Cardinality(Lost) <= dropped + Pending

CInv == Sized /\ Counted

\* No more is lost when the broker has more, or the table less.
LEMMA LostLess ==
  ASSUME Sized
  PROVE  /\ IsFiniteSet(Lost) /\ Cardinality(Lost) \in Nat
         /\ UNCHANGED <<evicted, baseline>> /\ received \subseteq received' =>
              Cardinality(Lost') <= Cardinality(Lost) /\ Cardinality(Lost') \in Nat
<1>1. IsFiniteSet(Message)
  BY Bounds, FS_Interval DEF Message
<1>2. Lost \in SUBSET Message
  BY DEF Sized, Lost
<1>3. IsFiniteSet(Lost) /\ Cardinality(Lost) \in Nat
  BY <1>1, <1>2, FS_Subset, FS_CardinalityType
<1>4. ASSUME UNCHANGED <<evicted, baseline>>, received \subseteq received'
      PROVE  Cardinality(Lost') <= Cardinality(Lost) /\ Cardinality(Lost') \in Nat
  <2>1. Lost' \in SUBSET Lost
    BY <1>4 DEF Lost
  <2> QED
    BY <1>3, <2>1, FS_Subset, FS_CardinalityType
<1> QED
  BY <1>3, <1>4

LEMMA AddCounts ==
  ASSUME MaxAcks <= 1, CInv, Sized', Offer \/ Add
  PROVE  CInv'
<1> USE Bounds DEF CInv, Counted, Pending
<1>0. Cardinality(Lost) \in Nat
  BY LostLess
<1>1. CASE Evict
  <2> DEFINE gone == Oldest(excess)
  <2>1. /\ evicted' = evicted \cup gone /\ wpc = "evict" /\ wpc' = "count"
        /\ UNCHANGED <<received, baseline, dropped, excess, process>>
    BY <1>1 DEF Evict
  <2>2. gone \in SUBSET rows /\ Cardinality(gone) <= excess /\ excess \in Int
    BY <2>1, OldestAre DEF Sized, Oldest
  <2>3. IsFiniteSet(gone) /\ Cardinality(gone) \in Nat
    BY <2>2, Ranks, FS_Subset, FS_CardinalityType DEF Sized
  <2> HIDE DEF gone
  <2>4. Lost' \in SUBSET (Lost \cup gone)
    BY <2>1 DEF Lost
  <2>5. IsFiniteSet(Lost)
    BY LostLess
  <2>6. /\ IsFiniteSet(Lost \cup gone)
        /\ Cardinality(Lost \cup gone) = Cardinality(Lost) + Cardinality(gone) - Cardinality(Lost \cap gone)
        /\ Cardinality(Lost \cap gone) \in Nat
    <3>1. IsFiniteSet(Lost \cap gone)
      BY <2>5, FS_Subset
    <3> QED
      BY <2>3, <2>5, <3>1, FS_Union, FS_CardinalityType
  <2>7. Cardinality(Lost') <= Cardinality(Lost \cup gone) /\ Cardinality(Lost') \in Nat
    BY <2>4, <2>6, FS_Subset, FS_CardinalityType
  <2>8. Cardinality(Lost') <= Cardinality(Lost) + excess
    BY <1>0, <2>2, <2>3, <2>6, <2>7
  <2> QED
    BY <1>0, <2>1, <2>7, <2>8 DEF Sized
<1>2. ASSUME UNCHANGED <<evicted, baseline, received>> PROVE Cardinality(Lost') = Cardinality(Lost)
  BY <1>2 DEF Lost
<1>3. CASE Offer
  BY <1>0, <1>2, <1>3 DEF Offer, Sized
<1>4. CASE Insert
  BY <1>0, <1>2, <1>4 DEF Insert, Sized
<1>5. CASE Increment
  BY <1>0, <1>2, <1>5 DEF Increment, Sized
<1>6. CASE ReadExcess
  BY <1>0, <1>2, <1>6 DEF ReadExcess, Sized
<1>7. CASE CountRows
  BY <1>0, <1>2, <1>7 DEF CountRows, Sized
<1>8. CASE SetSize
  BY <1>0, <1>2, <1>8 DEF SetSize, Sized
<1> QED
  BY <1>1, <1>3, <1>4, <1>5, <1>6, <1>7, <1>8 DEF Add

LEMMA SendCounts ==
  ASSUME MaxAcks <= 1, CInv, Sized', Send
  PROVE  CInv'
<1> USE Bounds DEF CInv, Counted, Pending
<1>1. Cardinality(Lost) \in Nat
  BY LostLess
<1>2. Cardinality(Lost') <= Cardinality(Lost) /\ Cardinality(Lost') \in Nat
  <2>1. UNCHANGED <<evicted, baseline>> /\ received \subseteq received'
    BY DEF Send, Fetch, PublishAcked, PublishFails, BatchEnds, RemoveRow, RemoveThrows, Decrement,
           Published
  <2> QED
    BY <2>1, LostLess
<1>3. CASE Fetch \/ PublishAcked \/ PublishFails \/ BatchEnds \/ RemoveThrows \/ RemoveRow
  <2>1. UNCHANGED <<size, writer, process, dropped>>
    BY <1>3 DEF Fetch, PublishAcked, PublishFails, BatchEnds, RemoveThrows, RemoveRow
  <2> QED
    BY <1>1, <1>2, <2>1 DEF Sized
<1>4. CASE Decrement
  BY <1>1, <1>2, <1>4 DEF Decrement, Sized
<1> QED
  BY <1>3, <1>4 DEF Send

LEMMA ServiceCounts ==
  ASSUME CInv, Sized', Start \/ Kill \/ StopLink \/ CloseOutbox \/ Crash \/ Stopped
  PROVE  CInv'
<1> USE Bounds DEF CInv, Counted, Pending
<1>1. CASE Start
  <2>1. Lost' = {} /\ wpc' = "idle" /\ dropped' = 0
    BY <1>1 DEF Start, Lost, Sized
  <2> QED
    BY <2>1
<1>2. CASE Kill \/ Crash \/ Stopped
  BY <1>2 DEF Kill, Crash, Stopped, Gone
<1>3. CASE StopLink \/ CloseOutbox
  <2>1. Lost' = Lost
    BY <1>3 DEF StopLink, CloseOutbox, Lost
  <2> QED
    BY <1>3, <2>1 DEF StopLink, CloseOutbox
<1> QED
  BY <1>1, <1>2, <1>3

\* What add() evicts is counted where it can be seen, for every capacity, number of
\* messages and of deaths, as long as one removal at most is completed while an add()
\* is under way: with two, LIMIT is negative and the table is emptied (Outbox.kt add()).
THEOREM EvictionsAreCounted == ASSUME MaxAcks <= 1 PROVE Spec => []LossIsCounted
<1>1. Init => CInv
  <2> SUFFICES ASSUME Init PROVE CInv
    OBVIOUS
  <2>1. Sized
    BY Bounds DEF Init, Sized
  <2>2. Lost = {}
    BY DEF Init, Lost
  <2> QED
    BY <2>1, <2>2, Bounds DEF Init, CInv, Counted, Pending
<1>2. CInv /\ BInv' /\ [Next]_vars => CInv'
  <2> SUFFICES ASSUME CInv, BInv', [Next]_vars PROVE CInv'
    OBVIOUS
  <2>1. CASE UNCHANGED vars
    BY <2>1 DEF vars, CInv, Counted, Pending, Sized, Lost
  <2>2. CASE Next
    BY <2>2, AddCounts, SendCounts, ServiceCounts DEF Next, BInv
  <2> QED
    BY <2>1, <2>2
<1>3. CInv => LossIsCounted
  BY LostLess DEF CInv, Counted, Pending, Lost, LossIsCounted, Sized
<1> QED
  BY <1>1, <1>2, <1>3, BInvHolds, PTL DEF Spec

-----------------------------------------------------------------------------
(* The order in which messages leave.                                       *)

\* What is being removed has been received.
RemovesKnown == lpc \in {"acked", "decrement"} => batch # <<>> /\ batch[1] \in received

\* The message being inserted is newer than any in the table or in the batch.
Numbered ==
  /\ wpc = "insert" => offered \in Message
  /\ \A k \in rows : k <= offered /\ (wpc = "insert" => k < offered)
  /\ \A i \in DOMAIN batch : batch[i] <= offered /\ (wpc = "insert" => batch[i] < offered)

Sorted == \A i, j \in DOMAIN batch : i < j => batch[i] < batch[j]

\* What is older than a message of the batch was received, or is in the batch too.
OlderInBatch ==
  \A k \in rows, i \in DOMAIN batch :
    k < batch[i] => k \in received \/ \E j \in DOMAIN batch : batch[j] = k

OInv == TypeOK /\ RemovesKnown /\ Numbered /\ Sorted /\ OlderInBatch

\* ORDER BY id is the set as a sequence, the oldest first.
LEMMA InOrderIs ==
  ASSUME NEW S \in SUBSET Message
  PROVE  /\ InOrder(S) \in Seq(S) /\ Len(InOrder(S)) = Cardinality(S)
         /\ DOMAIN InOrder(S) = 1 .. Cardinality(S)
         /\ \A i, j \in DOMAIN InOrder(S) : i < j => InOrder(S)[i] < InOrder(S)[j]
         /\ \A id \in S : \E i \in DOMAIN InOrder(S) : InOrder(S)[i] = id
<1> DEFINE q == InOrder(S)
           n == Cardinality(S)
<1>1. /\ n \in Nat /\ \A id \in S : Cardinality(Older(S, id)) \in 0 .. n - 1
      /\ \A id, jd \in S : id < jd => Cardinality(Older(S, id)) < Cardinality(Older(S, jd))
      /\ \A id, jd \in S : Cardinality(Older(S, id)) = Cardinality(Older(S, jd)) => id = jd
      /\ \A m \in 0 .. n - 1 : \E id \in S : Cardinality(Older(S, id)) = m
  BY RanksOf
<1>2. q = [i \in 1 .. n |-> CHOOSE id \in S : Cardinality(Older(S, id)) = i - 1]
  BY DEF InOrder, Older
<1> HIDE DEF q, n
<1>3. ASSUME NEW i \in 1 .. n PROVE q[i] \in S /\ Cardinality(Older(S, q[i])) = i - 1
  <2>1. i - 1 \in 0 .. n - 1
    BY <1>1
  <2>2. \E id \in S : Cardinality(Older(S, id)) = i - 1
    BY <1>1, <2>1
  <2>3. q[i] = CHOOSE id \in S : Cardinality(Older(S, id)) = i - 1
    BY <1>2
  <2> QED
    BY <2>2, <2>3
<1>4. DOMAIN q = 1 .. n /\ q \in Seq(S) /\ Len(q) = n
  <2>1. q \in [1 .. n -> S]
    BY <1>2, <1>3
  <2> QED
    BY <1>1, <2>1
<1>5. ASSUME NEW i \in 1 .. n, NEW j \in 1 .. n, i < j PROVE q[i] < q[j]
  <2>1. \A id \in S : id \in Nat
    BY OutboxBoundsAssumption DEF Message
  <2>2. PICK a \in S, b \in S : /\ a = q[i] /\ Cardinality(Older(S, a)) = i - 1
                               /\ b = q[j] /\ Cardinality(Older(S, b)) = j - 1
    BY <1>3
  <2>3. ~ (j - 1 < i - 1) /\ i - 1 # j - 1
    BY <1>1, <1>5
  <2>4. ~ (b < a) /\ a # b
    BY <1>1, <2>2, <2>3
  <2>5. a < b
    BY <2>1, <2>4
  <2> QED
    BY <2>2, <2>5
<1>6. ASSUME NEW id \in S PROVE \E i \in 1 .. n : q[i] = id
  <2>1. PICK i \in 1 .. n : Cardinality(Older(S, id)) = i - 1
    <3>1. Cardinality(Older(S, id)) + 1 \in 1 .. n
          /\ Cardinality(Older(S, id)) = (Cardinality(Older(S, id)) + 1) - 1
      BY <1>1
    <3> QED
      BY <3>1
  <2> QED
    BY <1>1, <1>3, <2>1
<1> QED
  BY <1>4, <1>5, <1>6 DEF q, n

\* LIMIT n takes what is older than anything it takes.
LEMMA OldestAreFirst ==
  ASSUME rows \subseteq Message, NEW n \in Int, NEW m \in Oldest(n), NEW k \in rows, k < m
  PROVE  k \in Oldest(n)
<1>1. CASE n < 0
  BY <1>1 DEF Oldest
<1>2. CASE n >= 0
  <2>1. m \in rows /\ Cardinality(Older(rows, m)) < n
    BY <1>2 DEF Oldest, Older
  <2>2. /\ Cardinality(Older(rows, k)) < Cardinality(Older(rows, m))
        /\ Cardinality(Older(rows, k)) \in Int /\ Cardinality(Older(rows, m)) \in Int
    BY <2>1, RanksOf
  <2>3. Cardinality(Older(rows, k)) < n
    BY <2>1, <2>2
  <2> QED
    BY <1>2, <2>3 DEF Oldest, Older
<1> QED
  BY <1>1, <1>2

\* The sampling thread adds at the end and takes from the beginning.
LEMMA AddInOrder ==
  ASSUME OInv, Offer \/ Add
  PROVE  OInv' /\ \A m \in evicted' \ evicted : \A k \in rows' : k > m
<1>1. TypeOK /\ RemovesKnown /\ Numbered /\ Sorted /\ OlderInBatch
  BY DEF OInv
<1>2. /\ rows \subseteq Message /\ offered \in Nat /\ \A k \in Message : k \in Nat
      /\ MaxMessages \in Nat /\ batch \in Seq(Message)
      /\ \A i \in DOMAIN batch : batch[i] \in Nat
  <2>1. /\ rows \subseteq Message /\ offered \in Nat /\ batch \in Seq(Message)
        /\ MaxMessages \in Nat /\ \A k \in Message : k \in Nat
    BY <1>1, OutboxBoundsAssumption DEF TypeOK, Message
  <2>2. \A i \in DOMAIN batch : batch[i] \in Message
    BY <2>1
  <2> QED
    BY <2>1, <2>2
<1>3. CASE Offer
  <2>1. /\ offered < MaxMessages /\ offered' = offered + 1
        /\ UNCHANGED <<rows, batch, lpc, received, evicted>>
    BY <1>3 DEF Offer
  <2>2. TypeOK'
    BY <1>1, <1>2, <1>3, OutboxSizesAssumption DEF TypeOK, Offer
  <2>3. Numbered'
    <3>1. \A k \in Nat : k <= offered => k <= offered' /\ k < offered'
      BY <1>2, <2>1
    <3>2. offered' \in Message
      BY <1>2, <2>1 DEF Message
    <3>3. \A k \in rows : k \in Nat /\ k <= offered
      BY <1>1, <1>2 DEF Numbered
    <3>4. \A i \in DOMAIN batch : batch[i] \in Nat /\ batch[i] <= offered
      BY <1>1, <1>2 DEF Numbered
    <3> QED
      BY <2>1, <3>1, <3>2, <3>3, <3>4 DEF Numbered
  <2> QED
    BY <1>1, <2>1, <2>2, <2>3 DEF OInv, RemovesKnown, Sorted, OlderInBatch
<1>4. CASE Insert
  <2>1. /\ wpc = "insert" /\ wpc' = "increment" /\ rows' \subseteq rows \cup {offered}
        /\ UNCHANGED <<batch, lpc, received, evicted, offered>>
    BY <1>4 DEF Insert
  <2>2. \A i \in DOMAIN batch : batch[i] < offered
    BY <1>1, <2>1 DEF Numbered
  <2>3. TypeOK'
    <3>1. offered \in Message
      BY <1>1, <2>1 DEF Numbered
    <3> QED
      BY <1>1, <1>4, <3>1 DEF TypeOK, Insert
  <2>4. Numbered' /\ OlderInBatch'
    <3>1. \A i \in DOMAIN batch : ~ (offered < batch[i])
      BY <1>2, <2>2
    <3>2. offered <= offered
      BY <1>2
    <3> QED
      BY <1>1, <2>1, <3>1, <3>2 DEF Numbered, OlderInBatch
  <2> QED
    BY <1>1, <2>1, <2>3, <2>4 DEF OInv, RemovesKnown, Sorted
<1>5. CASE Evict
  <2>1. /\ wpc = "evict" /\ wpc' = "count" /\ rows' = rows \ Oldest(excess)
        /\ evicted' = evicted \cup Oldest(excess)
        /\ UNCHANGED <<batch, lpc, received, offered>>
    BY <1>5 DEF Evict
  <2>2. Oldest(excess) \subseteq rows /\ excess \in Int
    BY <1>1 DEF Oldest, TypeOK
  <2>3. TypeOK'
    BY <1>1, <1>2, <1>5, <2>2 DEF TypeOK, Evict
  <2>4. ASSUME NEW m \in Oldest(excess), NEW k \in rows \ Oldest(excess) PROVE k > m
    <3>1. m \in Nat /\ k \in Nat /\ m # k
      BY <1>2, <2>2
    <3>2. ~ (k < m)
      BY <1>2, <2>2, <2>4, OldestAreFirst
    <3> QED
      BY <3>1, <3>2
  <2> QED
    BY <1>1, <2>1, <2>3, <2>4 DEF OInv, RemovesKnown, Numbered, Sorted, OlderInBatch
<1>6. CASE Increment \/ ReadExcess \/ CountRows \/ SetSize
  <2>1. /\ UNCHANGED <<rows, batch, lpc, received, evicted, offered>>
        /\ wpc' # "insert"
    BY <1>6 DEF Increment, ReadExcess, CountRows, SetSize
  <2>2. TypeOK'
    <3>1. Cardinality(rows) \in 0 .. MaxMessages
      BY <1>2, RanksOf
    <3>2. CASE Increment
      BY <1>1, <3>2 DEF TypeOK, Increment
    <3>3. CASE ReadExcess
      BY <1>1, <3>3, OutboxSizesAssumption DEF TypeOK, ReadExcess
    <3>4. CASE CountRows
      BY <1>1, <3>1, <3>4 DEF TypeOK, CountRows
    <3>5. CASE SetSize
      BY <1>1, <1>2, <3>5 DEF TypeOK, SetSize
    <3> QED
      BY <1>6, <3>2, <3>3, <3>4, <3>5
  <2> QED
    BY <1>1, <2>1, <2>2 DEF OInv, RemovesKnown, Numbered, Sorted, OlderInBatch
<1> QED
  BY <1>3, <1>4, <1>5, <1>6 DEF Add

\* The worker sends the oldest first, and what it has not received stays behind
\* what it has.
LEMMA SendInOrder ==
  ASSUME OInv, Send
  PROVE  OInv' /\ \A m \in received' \ received : \A k \in rows : k < m => k \in received'
<1>1. TypeOK /\ RemovesKnown /\ Numbered /\ Sorted /\ OlderInBatch
  BY DEF OInv
<1>2. /\ rows \subseteq Message /\ offered \in Nat /\ \A k \in Message : k \in Nat
      /\ MaxMessages \in Nat /\ batch \in Seq(Message) /\ Len(batch) <= BatchLimit
      /\ \A i \in DOMAIN batch : batch[i] \in Message
      /\ BatchLimit \in Nat /\ received \subseteq Message
  BY <1>1, OutboxBoundsAssumption, OutboxSizesAssumption DEF TypeOK, Message
\* What leaves the batch was received.
<1>3. ASSUME batch # <<>>, batch' = Tail(batch), rows' \subseteq rows, lpc' \in {"idle", "send"},
             batch[1] \in received, TypeOK', UNCHANGED <<received, offered, wpc>>
      PROVE  OInv'
  <2>1. /\ 1 \in DOMAIN batch
        /\ \A i \in DOMAIN batch' : i + 1 \in DOMAIN batch /\ batch'[i] = batch[i + 1] /\ i \in Nat
        /\ \A j \in DOMAIN batch : j = 1 \/ (j - 1 \in DOMAIN batch' /\ batch'[j - 1] = batch[j])
    BY <1>2, <1>3
  <2>2. Sorted'
    <3>1. ASSUME NEW i \in DOMAIN batch', NEW j \in DOMAIN batch', i < j PROVE batch'[i] < batch'[j]
      <4>1. i + 1 < j + 1 /\ i + 1 \in DOMAIN batch /\ j + 1 \in DOMAIN batch
        BY <2>1, <3>1
      <4>2. batch[i + 1] < batch[j + 1]
        BY <1>1, <4>1 DEF Sorted
      <4> QED
        BY <2>1, <4>2
    <3> QED
      BY <3>1 DEF Sorted
  <2>3. Numbered'
    BY <1>1, <1>3, <2>1 DEF Numbered
  <2>4. OlderInBatch'
    <3>1. ASSUME NEW k \in rows, NEW i \in DOMAIN batch', k < batch'[i], k \notin received
          PROVE  \E j \in DOMAIN batch' : batch'[j] = k
      <4>1. k < batch[i + 1] /\ i + 1 \in DOMAIN batch
        BY <2>1, <3>1
      <4>2. PICK j \in DOMAIN batch : batch[j] = k
        BY <1>1, <3>1, <4>1 DEF OlderInBatch
      <4>3. j # 1
        BY <1>3, <3>1, <4>2
      <4> QED
        BY <2>1, <4>2, <4>3
    <3> QED
      BY <1>3, <3>1 DEF OlderInBatch
  <2> QED
    BY <1>3, <2>2, <2>3, <2>4 DEF OInv, RemovesKnown
<1>4. ASSUME batch' = <<>>, rows' = rows, lpc' = "idle", TypeOK', UNCHANGED <<offered, wpc>>
      PROVE  OInv'
  BY <1>1, <1>4 DEF OInv, RemovesKnown, Numbered, Sorted, OlderInBatch
<1>5. CASE Fetch
  <2> DEFINE S == Oldest(BatchLimit)
  <2>1. /\ batch' = InOrder(S) /\ lpc' = "send"
        /\ UNCHANGED <<rows, process, size, writer, kills, ghost, dropped>>
    BY <1>5 DEF Fetch
  <2>2. S \subseteq rows /\ S \in SUBSET Message
    BY <1>2 DEF Oldest
  <2>3. Cardinality(S) <= BatchLimit /\ \A m \in S, k \in rows : k < m => k \in S
    <3>1. BatchLimit \in Int /\ BatchLimit >= 0
      BY <1>2
    <3>2. Cardinality(S) <= BatchLimit
      BY <1>2, <3>1, OldestAre
    <3>3. \A m \in S, k \in rows : k < m => k \in S
      BY <1>2, <3>1, OldestAreFirst
    <3> QED
      BY <3>2, <3>3
  <2> HIDE DEF S
  <2>4. /\ batch' \in Seq(S) /\ Len(batch') = Cardinality(S)
        /\ \A i, j \in DOMAIN batch' : i < j => batch'[i] < batch'[j]
        /\ \A id \in S : \E i \in DOMAIN batch' : batch'[i] = id
    BY <2>1, <2>2, InOrderIs
  <2>5. \A i \in DOMAIN batch' : batch'[i] \in S
    BY <2>4
  <2>6. batch' \in Seq(Message)
    BY <2>2, <2>4
  <2>7. TypeOK'
    BY <1>1, <2>1, <2>3, <2>4, <2>6 DEF TypeOK
  <2>8. Numbered'
    BY <1>1, <2>1, <2>2, <2>5 DEF Numbered
  <2>9. OlderInBatch'
    BY <2>1, <2>3, <2>4, <2>5 DEF OlderInBatch
  <2> QED
    BY <2>1, <2>4, <2>7, <2>8, <2>9 DEF OInv, RemovesKnown, Sorted
<1>6. ASSUME lpc = "send", batch # <<>>, received' = received \cup {Head(batch)}
      PROVE  /\ \A m \in received' \ received : \A k \in rows : k < m => k \in received'
             /\ received' \subseteq Message /\ batch[1] \in received'
  <2>1. 1 \in DOMAIN batch /\ Head(batch) = batch[1]
    BY <1>2, <1>6
  <2>2. ASSUME NEW k \in rows, k < batch[1] PROVE k \in received
    <3>1. ASSUME NEW j \in DOMAIN batch, batch[j] = k PROVE FALSE
      <4>1. j \in Nat /\ (j = 1 \/ 1 < j) /\ k \in Nat /\ batch[1] \in Nat
        BY <1>2, <2>1
      <4>2. 1 < j => batch[1] < batch[j]
        BY <1>1, <2>1 DEF Sorted
      <4> QED
        BY <2>2, <3>1, <4>1, <4>2
    <3> QED
      BY <1>1, <2>1, <2>2, <3>1 DEF OlderInBatch
  <2> QED
    BY <1>2, <1>6, <2>1, <2>2
<1>7. CASE PublishAcked
  <2>1. /\ lpc = "send" /\ batch # <<>> /\ received' = received \cup {Head(batch)} /\ lpc' = "acked"
        /\ UNCHANGED <<rows, process, size, writer, batch, kills, offered, written,
                       unwritten, evicted, dropped, baseline>>
    BY <1>7 DEF PublishAcked, Published
  <2>2. TypeOK'
    BY <1>1, <1>6, <2>1 DEF TypeOK
  <2> QED
    BY <1>1, <1>6, <2>1, <2>2 DEF OInv, RemovesKnown, Numbered, Sorted, OlderInBatch
<1>8. CASE PublishFails
  <2>1. /\ lpc = "send" /\ batch # <<>> /\ lpc' = "idle" /\ batch' = <<>>
        /\ received' = received \cup {Head(batch)} \/ received' = received
        /\ UNCHANGED <<rows, process, size, writer, kills, offered, written,
                       unwritten, evicted, dropped, baseline>>
    BY <1>8 DEF PublishFails, Published
  <2>2. /\ received' \subseteq Message
        /\ \A m \in received' \ received : \A k \in rows : k < m => k \in received'
    BY <1>2, <1>6, <2>1
  <2>3. TypeOK'
    BY <1>1, <1>2, <2>1, <2>2 DEF TypeOK
  <2> QED
    BY <1>4, <2>1, <2>2, <2>3
<1>9. CASE BatchEnds \/ RemoveThrows
  <2>1. /\ lpc' = "idle" /\ batch' = <<>>
        /\ UNCHANGED <<rows, process, size, writer, kills, ghost, dropped>>
    BY <1>9 DEF BatchEnds, RemoveThrows
  <2>2. TypeOK'
    BY <1>1, <1>2, <2>1 DEF TypeOK
  <2> QED
    BY <1>4, <2>1, <2>2
<1>10. CASE RemoveRow
  <2>1. /\ lpc = "acked" /\ rows' = rows \ {Head(batch)}
        /\ \/ lpc' = "decrement" /\ batch' = batch
           \/ lpc' = "send" /\ batch' = Tail(batch)
        /\ UNCHANGED <<process, size, writer, kills, ghost, dropped>>
    BY <1>10 DEF RemoveRow
  <2>2. batch # <<>> /\ batch[1] \in received
    BY <1>1, <2>1 DEF RemovesKnown
  <2>3. Tail(batch) \in Seq(Message) /\ Len(Tail(batch)) <= BatchLimit
    BY <1>2, <2>2
  <2>4. TypeOK'
    BY <1>1, <2>1, <2>3 DEF TypeOK
  <2>5. CASE batch' = Tail(batch) /\ lpc' = "send"
    BY <1>3, <2>1, <2>2, <2>4, <2>5
  <2>6. CASE batch' = batch /\ lpc' = "decrement"
    BY <1>1, <2>1, <2>2, <2>4, <2>6 DEF OInv, RemovesKnown, Numbered, Sorted, OlderInBatch
  <2> QED
    BY <2>1, <2>5, <2>6
<1>11. CASE Decrement
  <2>1. /\ lpc = "decrement" /\ lpc' = "send" /\ batch' = Tail(batch) /\ size' = size - 1
        /\ wpc # "idle" => acks < MaxAcks
        /\ acks' = IF wpc = "idle" THEN acks ELSE acks + 1
        /\ UNCHANGED <<rows, process, wpc, excess, found, kills, ghost, dropped>>
    BY <1>11 DEF Decrement
  <2>2. batch # <<>> /\ batch[1] \in received
    BY <1>1, <2>1 DEF RemovesKnown
  <2>3. Tail(batch) \in Seq(Message) /\ Len(Tail(batch)) <= BatchLimit
    BY <1>2, <2>2
  <2>4. acks' \in 0 .. MaxAcks /\ size' \in Int
    BY <1>1, <2>1, OutboxSizesAssumption DEF TypeOK
  <2>5. TypeOK'
    BY <1>1, <2>1, <2>3, <2>4 DEF TypeOK
  <2> QED
    BY <1>3, <2>1, <2>2, <2>5
<1> QED
  BY <1>5, <1>7, <1>8, <1>9, <1>10, <1>11 DEF Send

\* A start, a stop, a crash or a kill changes neither table nor broker, and gives up
\* the batch with the worker.
LEMMA ServiceInOrder ==
  ASSUME OInv, Start \/ Kill \/ StopLink \/ CloseOutbox \/ Crash \/ Stopped
  PROVE  OInv' /\ UNCHANGED <<rows, received, evicted>>
<1>1. TypeOK /\ RemovesKnown /\ Numbered /\ Sorted /\ OlderInBatch
  BY DEF OInv
<1>2. UNCHANGED <<rows, received, evicted, offered, written, unwritten>>
  BY DEF Start, Kill, StopLink, CloseOutbox, Crash, Stopped, Gone
<1>3. CASE Start \/ StopLink \/ CloseOutbox
  <2>1. UNCHANGED <<writer, worker>>
    BY <1>3 DEF Start, StopLink, CloseOutbox
  <2>2. TypeOK'
    <3>1. Cardinality(rows) \in Int
      BY <1>1, RanksOf DEF TypeOK
    <3>2. CASE Start
      BY <1>1, <3>1, <3>2 DEF TypeOK, Start
    <3>3. CASE StopLink
      BY <1>1, <3>3, OutboxBoundsAssumption DEF TypeOK, StopLink
    <3>4. CASE CloseOutbox
      BY <1>1, <3>4 DEF TypeOK, CloseOutbox
    <3> QED
      BY <1>3, <3>2, <3>3, <3>4
  <2> QED
    BY <1>1, <1>2, <2>1, <2>2 DEF OInv, RemovesKnown, Numbered, Sorted, OlderInBatch
<1>4. CASE Kill \/ Crash \/ Stopped
  <2>1. Gone /\ kills' \in 0 .. MaxKills
    BY <1>1, <1>4, OutboxBoundsAssumption DEF Kill, Crash, Stopped, TypeOK
  <2>2. TypeOK'
    BY <1>1, <2>1, OutboxBoundsAssumption, OutboxSizesAssumption DEF TypeOK, Gone
  <2> QED
    BY <1>1, <1>2, <2>1, <2>2 DEF Gone, OInv, RemovesKnown, Numbered, Sorted, OlderInBatch
<1> QED
  BY <1>3, <1>4

LEMMA OInvHolds == Spec => []OInv
<1>1. Init => OInv
  <2> SUFFICES ASSUME Init PROVE OInv
    OBVIOUS
  <2>1. TypeOK
    BY OutboxBoundsAssumption, OutboxSizesAssumption DEF Init, TypeOK
  <2> QED
    BY <2>1 DEF Init, OInv, RemovesKnown, Numbered, Sorted, OlderInBatch
<1>2. OInv /\ [Next]_vars => OInv'
  <2>1. CASE UNCHANGED vars
    BY <2>1 DEF vars, OInv, TypeOK, RemovesKnown, Numbered, Sorted, OlderInBatch
  <2> QED
    BY <2>1, AddInOrder, SendInOrder, ServiceInOrder DEF Next
<1> QED
  BY <1>1, <1>2, PTL DEF Spec

\* Whatever the threads do to each other, the variables of the outbox keep their types.
THEOREM OutboxTypeCorrect == Spec => []TypeOK
<1>1. OInv => TypeOK
  BY DEF OInv
<1> QED
  BY <1>1, OInvHolds, PTL

\* The oldest go first, to the broker and out of the table, for every capacity, batch
\* and number of messages (Outbox.kt:52 and 69).
THEOREM OldestGoFirst == Spec => OldestFirst
<1> DEFINE A == /\ \A m \in received' \ received : \A k \in rows : k < m => k \in received'
                /\ \A m \in evicted' \ evicted : \A k \in rows' : k > m
<1>1. OInv /\ [Next]_vars => [A]_vars
  <2> SUFFICES ASSUME OInv, Next PROVE A
    BY DEF vars
  <2>1. CASE Offer \/ Add
    <3>1. received' = received
      BY <2>1 DEF Offer, Add, Insert, Increment, ReadExcess, Evict, CountRows, SetSize
    <3> QED
      BY <2>1, <3>1, AddInOrder
  <2>2. CASE Send
    <3>1. evicted' = evicted
      BY <2>2 DEF Send, Fetch, PublishAcked, PublishFails, BatchEnds, RemoveRow, RemoveThrows,
             Decrement
    <3> QED
      BY <2>2, <3>1, SendInOrder
  <2>3. CASE Start \/ Kill \/ StopLink \/ CloseOutbox \/ Crash \/ Stopped
    BY <2>3, ServiceInOrder
  <2> QED
    BY <2>1, <2>2, <2>3 DEF Next
<1> QED
  BY <1>1, OInvHolds, PTL DEF Spec, OldestFirst

=============================================================================
