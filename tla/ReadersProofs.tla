---------------------------- MODULE ReadersProofs ----------------------------
(***************************************************************************)
(* Proofs about what reads the table of readings: Alerts, for every list   *)
(* of rules, every number of processes and every bound on changes,         *)
(* failures, crashes and absences; then ReadSide, for every number of      *)
(* rows, limit, width of a bucket and number of downloads.                 *)
(***************************************************************************)
EXTENDS Alerts, ReadSide, FiniteSetTheorems, SequenceTheorems, WellFoundedInduction, TLAPS

-----------------------------------------------------------------------------
(* The transition a pass is at.                                            *)

LEMMA Least ==
  ASSUME NEW S \in SUBSET Nat, S # {}
  PROVE  \E i \in S : \A j \in S : i <= j
<1>1. OpToRel(<, Nat) = { p \in Nat \X Nat : p[1] < p[2] }
  BY DEF OpToRel
<1>2. PICK i \in S : \A j \in S : ~ (<<j, i>> \in OpToRel(<, Nat))
  BY NatLessThanWellFounded, WFMin
<1>3. \A j \in S : ~ (j < i)
  <2> SUFFICES ASSUME NEW j \in S, j < i PROVE FALSE
    OBVIOUS
  <2>1. <<j, i>> \notin { p \in Nat \X Nat : p[1] < p[2] }
    BY <1>1, <1>2, Zenon
  <2> QED
    BY <2>1
<1> QED
  BY <1>3

LEMMA DueTyped ==
  ASSUME TypeOK, NEW p \in Process, Pending(p)
  PROVE  /\ First(p) \in DOMAIN todo[p] /\ First(p) \in DOMAIN Rules
         /\ Due(p) \in Transition /\ Rest(p) \in Todo
         /\ \A i \in DOMAIN Rest(p) : i \in DOMAIN todo[p] /\ Rest(p)[i] = todo[p][i]
<1>1. PICK places \in SUBSET DOMAIN Rules : todo[p] \in [places -> State]
  BY DEF TypeOK, Todo
<1>2. DOMAIN todo[p] = places /\ places \in SUBSET Nat /\ places # {}
  BY <1>1, RulesAssumption DEF Pending
<1>3. First(p) \in places
  BY <1>2, Least DEF First
<1>4. todo[p][First(p)] \in State /\ Rules[First(p)] \in Alert
  BY <1>1, <1>3 DEF Alert
<1>5. Rest(p) \in [places \ {First(p)} -> State]
  BY <1>1, <1>2 DEF Rest
<1>6. Rest(p) \in Todo
  BY <1>5 DEF Todo
<1> QED
  BY <1>2, <1>3, <1>4, <1>5, <1>6 DEF Due, Transition, Rest

LEMMA EvaluatedTyped ==
  ASSUME NEW o, NEW open
  PROVE  /\ Evaluated(o, open) \in Todo
         /\ \A i \in DOMAIN Evaluated(o, open) :
              /\ i \in DOMAIN Rules
              /\ Evaluated(o, open)[i] = "raised" => o[Rules[i]] = "raises"
              /\ Evaluated(o, open)[i] = "cleared" => o[Rules[i]] = "clears"
<1> DEFINE due == { i \in DOMAIN Rules : Verdict(o, open, Rules[i]) # "none" }
<1>1. \A i \in due : Verdict(o, open, Rules[i]) \in State
  BY DEF Verdict, State
<1>2. Evaluated(o, open) \in [due -> State]
  BY <1>1 DEF Evaluated
<1>3. Evaluated(o, open) \in Todo
  BY <1>2 DEF Todo
<1>4. \A i \in due : /\ Verdict(o, open, Rules[i]) = "raised" => o[Rules[i]] = "raises"
                     /\ Verdict(o, open, Rules[i]) = "cleared" => o[Rules[i]] = "clears"
  BY DEF Verdict
<1> QED
  BY <1>3, <1>4 DEF Evaluated

LEMMA NothingTyped == <<>> \in Todo /\ DOMAIN <<>> = {}
<1>1. <<>> \in [{} -> State] /\ DOMAIN <<>> = {}
  OBVIOUS
<1> QED
  BY <1>1 DEF Todo

LEMMA AlertsFinite == IsFiniteSet(Alert)
<1>1. DOMAIN Rules = 1 .. Len(Rules) /\ Len(Rules) \in Nat
  BY RulesAssumption
<1>2. IsFiniteSet(DOMAIN Rules)
  BY <1>1, FS_Interval
<1>3. Rules \in Surjection(DOMAIN Rules, Alert)
  BY RulesAssumption DEF Alert, Surjection
<1> QED
  BY <1>2, <1>3, FS_Surjection

-----------------------------------------------------------------------------
(* Types.                                                                  *)

LEMMA StoredTyped ==
  ASSUME TypeOK, OneOpen, NEW t \in Transition, Changes(t), Stored(t)
  PROVE  /\ opened' \in [Alert -> Nat] /\ closed' \in [Alert -> Nat]
         /\ OneOpen' /\ \A k \in Alert : closed'[k] <= opened'[k]
         /\ \A k \in Alert : opened'[k] >= opened[k] /\ closed'[k] >= closed[k]
         /\ t.state = "raised" => opened'[t.alert] = opened[t.alert] + 1
         /\ t.state = "cleared" => closed'[t.alert] = closed[t.alert] + 1
         /\ (t.alert \in Open') = (t.state = "raised")
         /\ \A k \in Alert \ {t.alert} : opened'[k] = opened[k] /\ closed'[k] = closed[k]
<1> t.alert \in Alert /\ t.state \in State
  BY DEF Transition
<1> opened \in [Alert -> Nat] /\ closed \in [Alert -> Nat]
  BY DEF TypeOK
<1>1. CASE t.state = "raised"
  <2>1. opened' = [opened EXCEPT ![t.alert] = @ + 1] /\ closed' = closed
    BY <1>1 DEF Stored
  <2>2. opened[t.alert] = closed[t.alert]
    BY <1>1 DEF Changes, OneOpen, Open
  <2> QED
    BY <1>1, <2>1, <2>2 DEF OneOpen, Open
<1>2. CASE t.state = "cleared"
  <2>1. closed' = [closed EXCEPT ![t.alert] = @ + 1] /\ opened' = opened
    BY <1>2 DEF Stored
  <2>2. opened[t.alert] = closed[t.alert] + 1
    BY <1>2 DEF Changes, OneOpen, Open
  <2> QED
    BY <1>2, <2>1, <2>2 DEF OneOpen, Open
<1> QED
  BY <1>1, <1>2 DEF State

LEMMA EmptiedTyped ==
  ASSUME TypeOK, NEW p \in Process, EndsPass(p)
  PROVE  /\ pc' = [pc EXCEPT ![p] = "idle"] /\ todo' \in [Process -> Todo]
         /\ \A q \in Process : todo'[q] = IF q = p THEN <<>> ELSE todo[q]
BY NothingTyped DEF EndsPass, TypeOK

Bounds == [changes : 0 .. MaxChanges, fails : 0 .. MaxFails, drops : 0 .. MaxDrops,
           crashes : 0 .. MaxCrashes, away : 0 .. MaxAway]

LEMMA BoundsTyped ==
  ASSUME TypeOK,
         \/ bounds.changes < MaxChanges /\ bounds' = [bounds EXCEPT !.changes = @ + 1]
         \/ bounds.fails < MaxFails /\ bounds' = [bounds EXCEPT !.fails = @ + 1]
         \/ bounds.drops < MaxDrops /\ bounds' = [bounds EXCEPT !.drops = @ + 1]
         \/ bounds.crashes < MaxCrashes /\ bounds' = [bounds EXCEPT !.crashes = @ + 1]
         \/ bounds.away < MaxAway /\ bounds' = [bounds EXCEPT !.away = @ + 1]
  PROVE  /\ bounds' \in Bounds
         /\ bounds'.drops >= bounds.drops /\ bounds'.crashes >= bounds.crashes
<1>1. bounds \in Bounds
  BY DEF TypeOK, Bounds
<1> QED
  BY <1>1, AlertsBoundsAssumption DEF Bounds

LEMMA TypeKept ==
  ASSUME TypeOK, OneOpen, Next PROVE TypeOK' /\ OneOpen'
<1> USE DEF Bounds
<1>0. UNCHANGED table => OneOpen' /\ opened' = opened /\ closed' = closed
  BY DEF OneOpen, table
<1>1. ASSUME NEW k \in Alert, Change(k) PROVE TypeOK' /\ OneOpen'
  <2>1. level' \in [Alert -> Level]
    BY <1>1 DEF Change, TypeOK
  <2>2. bounds' \in Bounds
    BY <1>1, BoundsTyped DEF Change
  <2> QED
    BY <1>0, <1>1, <2>1, <2>2 DEF Change, TypeOK, table, pass, phone, Pending
<1>2. ASSUME NEW p \in Process, Observe(p) PROVE TypeOK' /\ OneOpen'
  BY <1>0, <1>2 DEF Observe, TypeOK, table, pass, phone, Pending, Queries
<1>3. ASSUME NEW p \in Process, Decide(p) PROVE TypeOK' /\ OneOpen'
  <2>1. todo' \in [Process -> Todo]
    BY <1>3, EvaluatedTyped DEF Decide, TypeOK
  <2>2. \A q \in Process : pc'[q] = "announcing" => q # p /\ todo'[q] = todo[q]
    BY <1>3 DEF Decide, TypeOK, Queries
  <2> QED
    BY <1>0, <1>3, <2>1, <2>2 DEF Decide, TypeOK, table, pass, phone, Pending, Queries
<1>4. ASSUME NEW p \in Process, Apply(p), Changes(Due(p)) PROVE TypeOK' /\ OneOpen'
  <2>1. Due(p) \in Transition
    BY <1>4, DueTyped DEF Apply
  <2>2. Stored(Due(p)) /\ pc' = [pc EXCEPT ![p] = "announcing"] /\ todo' = todo /\ Pending(p)
    BY <1>4 DEF Apply
  <2>3. /\ opened' \in [Alert -> Nat] /\ closed' \in [Alert -> Nat]
        /\ OneOpen' /\ \A k \in Alert : closed'[k] <= opened'[k]
    BY <1>4, <2>1, <2>2, StoredTyped
  <2>4. UNCHANGED <<level, seen, linked, ran, outbox, retained, phone, announced, bounds>>
    BY <1>4 DEF Apply
  <2> QED
    BY <2>2, <2>3, <2>4 DEF TypeOK, phone, Pending
<1>5. ASSUME NEW p \in Process, Apply(p), ~ Changes(Due(p)) PROVE TypeOK' /\ OneOpen'
  <2>1. Rest(p) \in Todo
    BY <1>5, DueTyped DEF Apply
  <2>2. /\ UNCHANGED <<table, pc>> /\ todo' = [todo EXCEPT ![p] = Rest(p)]
        /\ pc[p] = "applying"
    BY <1>5 DEF Apply, Queries
  <2>3. UNCHANGED <<level, seen, linked, ran, outbox, retained, phone, announced, bounds>>
    BY <1>5 DEF Apply
  <2> QED
    BY <1>0, <2>1, <2>2, <2>3 DEF TypeOK, phone, Pending, table
<1>6. ASSUME NEW p \in Process, Publish(p) PROVE TypeOK' /\ OneOpen'
  <2>1. Due(p) \in Transition /\ Rest(p) \in Todo
    BY <1>6, DueTyped DEF Publish, TypeOK
  <2>2. outbox' \in [Process -> Seq(Transition)]
    BY <1>6, <2>1 DEF Publish, TypeOK
  <2>3. announced' \in [Alert -> [State -> Nat]]
    BY <1>6, <2>1 DEF Publish, TypeOK, Transition
  <2>4. /\ todo' = [todo EXCEPT ![p] = Rest(p)] /\ pc' = [pc EXCEPT ![p] = "applying"]
        /\ UNCHANGED <<level, table, seen, linked, ran, retained, phone, bounds>>
    BY <1>6 DEF Publish
  <2> QED
    BY <1>0, <2>1, <2>2, <2>3, <2>4 DEF TypeOK, table, phone, Pending
<1>7. ASSUME NEW p \in Process, PassDone(p) PROVE TypeOK' /\ OneOpen'
  <2>1. UNCHANGED <<level, table, seen, linked, ran, outbox, retained, phone, announced, bounds>>
    BY <1>7 DEF PassDone
  <2> QED
    BY <1>0, <1>7, <2>1, EmptiedTyped DEF PassDone, TypeOK, phone, Pending
<1>8. ASSUME NEW p \in Process, Fails(p) PROVE TypeOK' /\ OneOpen'
  <2>1. bounds' \in Bounds
    BY <1>8, BoundsTyped DEF Fails
  <2>2. UNCHANGED <<level, table, seen, linked, ran, outbox, retained, phone, announced>>
    BY <1>8 DEF Fails
  <2> QED
    BY <1>0, <1>8, <2>1, <2>2, EmptiedTyped DEF Fails, TypeOK, phone, Pending
<1>9. ASSUME NEW p \in Process, Drop(p) PROVE TypeOK' /\ OneOpen'
  <2>1. bounds' \in Bounds
    BY <1>9, BoundsTyped DEF Drop
  <2>2. linked' \subseteq Process /\ UNCHANGED <<level, seen, ran, outbox, retained, phone, announced>>
    BY <1>9 DEF Drop, TypeOK
  <2>3. /\ opened' \in [Alert -> Nat] /\ closed' \in [Alert -> Nat]
        /\ OneOpen' /\ \A k \in Alert : closed'[k] <= opened'[k]
    <3>1. CASE UNCHANGED table
      BY <1>0, <3>1 DEF TypeOK
    <3>2. CASE pc[p] = "applying" /\ Changes(Due(p)) /\ Stored(Due(p))
      BY <1>9, <3>2, DueTyped, StoredTyped DEF Drop, InStatement
    <3> QED
      BY <1>9, <3>1, <3>2 DEF Drop
  <2> QED
    BY <1>9, <2>1, <2>2, <2>3, EmptiedTyped DEF Drop, TypeOK, phone, Pending
<1>10. ASSUME NEW p \in Process, Crash(p) PROVE TypeOK' /\ OneOpen'
  <2>1. bounds' \in Bounds
    BY <1>10, BoundsTyped DEF Crash
  <2>2. todo' \in [Process -> Todo] /\ outbox' \in [Process -> Seq(Transition)]
    BY <1>10, NothingTyped DEF Crash, TypeOK
  <2>3. \A q \in Process : pc'[q] = "announcing" => pc[q] = "announcing" /\ todo'[q] = todo[q]
    BY <1>10 DEF Crash, TypeOK
  <2> QED
    BY <1>0, <1>10, <2>1, <2>2, <2>3 DEF Crash, TypeOK, phone, Pending, table
<1>11. ASSUME NEW p \in Process, Start(p) PROVE TypeOK' /\ OneOpen'
  BY <1>0, <1>11 DEF Start, TypeOK, phone, Pending, table
<1>12. ASSUME NEW p \in Process, Transmit(p) PROVE TypeOK' /\ OneOpen'
  <2>1. Head(outbox[p]) \in Transition /\ Tail(outbox[p]) \in Seq(Transition)
    BY <1>12 DEF Transmit, TypeOK
  <2>2. outbox' \in [Process -> Seq(Transition)]
    BY <1>12, <2>1 DEF Transmit, TypeOK
  <2>3. retained' \in [Alert -> State \cup {"none"}]
    BY <1>12, <2>1 DEF Transmit, TypeOK, Retains, Transition
  <2>4. inbox' \in Seq(Transition)
    BY <1>12, <2>1 DEF Transmit, TypeOK
  <2> QED
    BY <1>0, <1>12, <2>2, <2>3, <2>4 DEF Transmit, TypeOK, table, pass, Pending
<1>13. CASE PhoneConnects
  <2>1. PICK topics \in Orders(Kept) :
          inbox' = [i \in DOMAIN topics |-> [alert |-> topics[i], state |-> retained[topics[i]]]]
    BY <1>13 DEF PhoneConnects
  <2>2. Cardinality(Kept) \in Nat
    BY AlertsFinite, FS_Subset, FS_CardinalityType DEF Kept
  <2>3. topics \in [1 .. Cardinality(Kept) -> Kept]
    BY DEF Orders
  <2>4. \A k \in Kept : k \in Alert /\ retained[k] \in State
    BY DEF Kept, TypeOK
  <2>5. inbox' \in [1 .. Cardinality(Kept) -> Transition]
    BY <2>1, <2>3, <2>4 DEF Transition
  <2>6. inbox' \in Seq(Transition)
    BY <2>2, <2>5
  <2> QED
    BY <1>0, <1>13, <2>6 DEF PhoneConnects, TypeOK, table, pass, Pending
<1>14. CASE PhoneLeaves
  <2>1. bounds' \in Bounds
    BY <1>14, BoundsTyped DEF PhoneLeaves
  <2>2. inbox' \in Seq(Transition)
    BY <1>14 DEF PhoneLeaves
  <2> QED
    BY <1>0, <1>14, <2>1, <2>2 DEF PhoneLeaves, TypeOK, table, pass, Pending
<1>15. CASE PhoneHears
  <2>1. Head(inbox) \in Transition /\ Tail(inbox) \in Seq(Transition)
    BY <1>15 DEF PhoneHears, TypeOK
  <2> QED
    BY <1>0, <1>15, <2>1 DEF PhoneHears, Notified, Transition, TypeOK, table, pass, Pending
<1> QED
  BY <1>1, <1>2, <1>3, <1>4, <1>5, <1>6, <1>7, <1>8, <1>9, <1>10, <1>11, <1>12, <1>13,
     <1>14, <1>15 DEF Next, Runs

-----------------------------------------------------------------------------
(* The table comes first: what was announced, with what is just about to   *)
(* be, is never more than what was recorded.                               *)

Announcing(k, s) == { p \in Process : pc[p] = "announcing" /\ Due(p) = [alert |-> k, state |-> s] }

Recorded(k, s) == IF s = "raised" THEN opened[k] ELSE closed[k]

Balanced ==
  \A k \in Alert, s \in State :
    /\ IsFiniteSet(Announcing(k, s))
    /\ announced[k][s] + Cardinality(Announcing(k, s)) <= Recorded(k, s)

\* A transition that waits to be applied is one that the observation of its pass
\* calls for; a pass that does not apply has none.
Crossed ==
  \A p \in Process :
    /\ pc[p] \notin {"applying", "announcing"} => todo[p] = <<>>
    /\ \A i \in DOMAIN todo[p] :
         /\ todo[p][i] = "raised" => seen[p][Rules[i]] = "raises"
         /\ todo[p][i] = "cleared" => seen[p][Rules[i]] = "clears"

Recording(p) == pc[p] = "applying" /\ Pending(p) /\ Changes(Due(p)) /\ Stored(Due(p))

\* Only the pass itself moves a pass that announces.
LEMMA AnnouncerStays ==
  ASSUME TypeOK, Next, NEW q \in Process, pc'[q] = "announcing"
  PROVE  \/ /\ pc[q] = "announcing" /\ todo'[q] = todo[q] /\ ~ Publish(q)
         \/ Apply(q) /\ Changes(Due(q)) /\ todo' = todo
<1>1. CASE pc' = pc /\ todo' = todo /\ announced' = announced
  BY <1>1 DEF Publish, TypeOK
<1>2. ASSUME NEW p \in Process,
             Observe(p) \/ Decide(p) \/ PassDone(p) \/ Fails(p) \/ Drop(p) \/ Crash(p) \/ Start(p)
      PROVE  pc[q] = "announcing" /\ todo'[q] = todo[q] /\ ~ Publish(q)
  BY <1>2 DEF Observe, Decide, PassDone, Fails, Drop, Crash, Start, EndsPass, Queries, Publish,
     InStatement, TypeOK
<1>3. ASSUME NEW p \in Process, Apply(p)
      PROVE  \/ /\ pc[q] = "announcing" /\ todo'[q] = todo[q] /\ ~ Publish(q)
             \/ Apply(q) /\ Changes(Due(q)) /\ todo' = todo
  BY <1>3 DEF Apply, Queries, Publish, TypeOK
<1>4. ASSUME NEW p \in Process, Publish(p)
      PROVE  pc[q] = "announcing" /\ todo'[q] = todo[q] /\ ~ Publish(q)
  BY <1>4 DEF Publish, TypeOK
<1> QED
  BY <1>1, <1>2, <1>3, <1>4 DEF Next, Runs, Change, Transmit, PhoneConnects, PhoneLeaves,
     PhoneHears, pass

\* The table changes only by a transition that is due and that it accepts.
LEMMA TableWriters ==
  ASSUME TypeOK, OneOpen, Next
  PROVE  \/ UNCHANGED table
         \/ \E p \in Process : Recording(p) /\ p \in linked /\ (Apply(p) \/ Drop(p))
BY DEF Next, Runs, Observe, Decide, Apply, Publish, PassDone, Fails, Drop, Crash, Start,
   Change, Transmit, PhoneConnects, PhoneLeaves, PhoneHears, Queries, InStatement, Recording

LEMMA RecordedGrows ==
  ASSUME TypeOK, OneOpen, Next, NEW k \in Alert, NEW s \in State
  PROVE  /\ Recorded(k, s) \in Nat /\ Recorded(k, s)' \in Nat
         /\ Recorded(k, s)' >= Recorded(k, s)
<1>1. Recorded(k, s) \in Nat
  BY DEF Recorded, TypeOK
<1>2. CASE UNCHANGED table
  BY <1>1, <1>2 DEF table, Recorded
<1>3. ASSUME NEW p \in Process, Recording(p)
      PROVE  Recorded(k, s)' \in Nat /\ Recorded(k, s)' >= Recorded(k, s)
  <2>1. /\ opened' \in [Alert -> Nat] /\ closed' \in [Alert -> Nat]
        /\ opened'[k] >= opened[k] /\ closed'[k] >= closed[k]
    BY <1>3, DueTyped, StoredTyped DEF Recording
  <2> QED
    BY <2>1 DEF Recorded
<1> QED
  BY <1>1, <1>2, <1>3, TableWriters

LEMMA BalancedKept ==
  ASSUME TypeOK, OneOpen, Balanced, Next
  PROVE  Balanced'
<1> SUFFICES ASSUME NEW k \in Alert, NEW s \in State
             PROVE  /\ IsFiniteSet(Announcing(k, s)')
                    /\ announced'[k][s] + Cardinality(Announcing(k, s)') <= Recorded(k, s)'
  BY DEF Balanced
<1>1. /\ IsFiniteSet(Announcing(k, s)) /\ Cardinality(Announcing(k, s)) \in Nat
      /\ announced[k][s] + Cardinality(Announcing(k, s)) <= Recorded(k, s)
      /\ announced[k][s] \in Nat
  BY FS_CardinalityType DEF Balanced, TypeOK
<1>2. /\ Recorded(k, s) \in Nat /\ Recorded(k, s)' \in Nat
      /\ Recorded(k, s)' >= Recorded(k, s)
  BY RecordedGrows
<1>3. \A q \in Process : todo'[q] = todo[q] => Due(q)' = Due(q)
  BY DEF Due, First
<1>4. ASSUME NEW p \in Process, Apply(p), Changes(Due(p)), Due(p) = [alert |-> k, state |-> s]
      PROVE  /\ IsFiniteSet(Announcing(k, s)')
             /\ announced'[k][s] + Cardinality(Announcing(k, s)') <= Recorded(k, s)'
  <2>1. Recorded(k, s)' = Recorded(k, s) + 1
    <3>1. Due(p) \in Transition /\ Stored(Due(p))
      BY <1>4, DueTyped DEF Apply
    <3>2. /\ s = "raised" => opened'[k] = opened[k] + 1
          /\ s = "cleared" => closed'[k] = closed[k] + 1
      BY <1>4, <3>1, StoredTyped
    <3> QED
      BY <3>2 DEF Recorded, State
  <2>2. p \notin Announcing(k, s)
    BY <1>4 DEF Apply, Queries, Announcing
  <2>3. Announcing(k, s)' = Announcing(k, s) \cup {p}
    <3>1. pc' = [pc EXCEPT ![p] = "announcing"] /\ todo' = todo
      BY <1>4 DEF Apply
    <3>2. \A q \in Process : Due(q)' = Due(q)
      BY <1>3, <3>1
    <3> QED
      BY <1>4, <3>1, <3>2 DEF Announcing, TypeOK
  <2>4. announced' = announced
    BY <1>4 DEF Apply
  <2> QED
    <3>1. /\ IsFiniteSet(Announcing(k, s) \cup {p})
          /\ Cardinality(Announcing(k, s) \cup {p}) = Cardinality(Announcing(k, s)) + 1
      BY <1>1, <2>2, FS_AddElement
    <3> QED
      BY <1>1, <1>2, <2>1, <2>3, <2>4, <3>1
<1>5. ASSUME NEW p \in Process, Publish(p), Due(p) = [alert |-> k, state |-> s]
      PROVE  /\ IsFiniteSet(Announcing(k, s)')
             /\ announced'[k][s] + Cardinality(Announcing(k, s)') <= Recorded(k, s)'
  <2>1. Announcing(k, s)' \subseteq Announcing(k, s) \ {p}
    <3>1. \A q \in Process : pc'[q] = "announcing" =>
                              q # p /\ pc[q] = "announcing" /\ todo'[q] = todo[q]
      BY <1>5 DEF Publish, TypeOK
    <3>2. \A q \in Process : pc'[q] = "announcing" => Due(q)' = Due(q)
      BY <1>3, <3>1
    <3> QED
      BY <3>1, <3>2 DEF Announcing
  <2>2. p \in Announcing(k, s)
    BY <1>5 DEF Publish, Announcing
  <2>3. announced'[k][s] = announced[k][s] + 1
    <3>1. Due(p).alert = k /\ Due(p).state = s
      BY <1>5
    <3>2. announced' = [announced EXCEPT ![k][s] = announced[k][s] + 1]
      BY <1>5, <3>1 DEF Publish
    <3> QED
      BY <3>2 DEF TypeOK
  <2>4. /\ IsFiniteSet(Announcing(k, s) \ {p})
        /\ Cardinality(Announcing(k, s) \ {p}) = Cardinality(Announcing(k, s)) - 1
    BY <1>1, <2>2, FS_RemoveElement
  <2>5. /\ IsFiniteSet(Announcing(k, s)')
        /\ Cardinality(Announcing(k, s)') <= Cardinality(Announcing(k, s)) - 1
        /\ Cardinality(Announcing(k, s)') \in Nat
    BY <2>1, <2>4, FS_Subset, FS_CardinalityType
  <2> QED
    BY <1>1, <1>2, <2>3, <2>5
<1>6. ASSUME Announcing(k, s)' \subseteq Announcing(k, s), announced'[k][s] = announced[k][s]
      PROVE  /\ IsFiniteSet(Announcing(k, s)')
             /\ announced'[k][s] + Cardinality(Announcing(k, s)') <= Recorded(k, s)'
  <2>1. /\ IsFiniteSet(Announcing(k, s)')
        /\ Cardinality(Announcing(k, s)') <= Cardinality(Announcing(k, s))
        /\ Cardinality(Announcing(k, s)') \in Nat
    BY <1>1, <1>6, FS_Subset, FS_CardinalityType
  <2> QED
    BY <1>1, <1>2, <1>6, <2>1
<1>7. CASE /\ ~ \E p \in Process : Apply(p) /\ Changes(Due(p)) /\ Due(p) = [alert |-> k, state |-> s]
           /\ ~ \E p \in Process : Publish(p) /\ Due(p) = [alert |-> k, state |-> s]
  <2>1. Announcing(k, s)' \subseteq Announcing(k, s)
    BY <1>3, <1>7, AnnouncerStays DEF Announcing
  <2>2. announced'[k][s] = announced[k][s]
    <3>1. ASSUME NEW p \in Process, Publish(p) PROVE announced'[k][s] = announced[k][s]
      <4>1. Due(p) # [alert |-> k, state |-> s]
        BY <1>7, <3>1
      <4>2. Due(p) \in Transition
        BY <3>1, DueTyped DEF Publish, TypeOK
      <4>3. Due(p).alert # k \/ Due(p).state # s
        BY <4>1, <4>2 DEF Transition
      <4> QED
        BY <3>1, <4>2, <4>3 DEF Publish, TypeOK, Transition
    <3> QED
      BY <3>1 DEF Next, Runs, Observe, Decide, Apply, PassDone, Fails, Drop, Crash, Start,
         Change, Transmit, PhoneConnects, PhoneLeaves, PhoneHears
  <2> QED
    BY <1>6, <2>1, <2>2
<1> QED
  BY <1>4, <1>5, <1>7

LEMMA CrossedKept ==
  ASSUME TypeOK, Crossed, Next
  PROVE  Crossed'
<1>1. CASE UNCHANGED <<pc, todo, seen>>
  BY <1>1 DEF Crossed
<1>2. ASSUME NEW p \in Process, Observe(p) PROVE Crossed'
  <2>1. todo[p] = <<>> /\ \A q \in Process \ {p} : seen'[q] = seen[q] /\ pc'[q] = pc[q]
    BY <1>2 DEF Observe, Queries, Crossed, TypeOK
  <2>2. todo' = todo
    BY <1>2 DEF Observe
  <2> QED
    BY <2>1, <2>2, NothingTyped DEF Crossed
<1>3. ASSUME NEW p \in Process, Decide(p) PROVE Crossed'
  <2>1. /\ \A q \in Process \ {p} : todo'[q] = todo[q] /\ pc'[q] = pc[q]
        /\ pc'[p] = "applying" /\ todo'[p] = Evaluated(seen[p], Open) /\ seen' = seen
    BY <1>3 DEF Decide, TypeOK
  <2> QED
    BY <2>1, EvaluatedTyped DEF Crossed
<1>4. ASSUME NEW p \in Process, Apply(p) \/ Publish(p) PROVE Crossed'
  <2>1. /\ seen' = seen /\ pc[p] \in {"applying", "announcing"} /\ Pending(p)
        /\ pc'[p] \in {"applying", "announcing"}
        /\ \A q \in Process \ {p} : todo'[q] = todo[q] /\ pc'[q] = pc[q]
        /\ todo'[p] = todo[p] \/ todo'[p] = Rest(p)
    BY <1>4 DEF Apply, Publish, Queries, TypeOK
  <2>2. \A i \in DOMAIN todo'[p] : i \in DOMAIN todo[p] /\ todo'[p][i] = todo[p][i]
    BY <2>1, DueTyped
  <2> QED
    BY <2>1, <2>2 DEF Crossed
<1>5. ASSUME NEW p \in Process, PassDone(p) \/ Fails(p) \/ Drop(p) \/ Crash(p) PROVE Crossed'
  <2>1. /\ seen' = seen /\ todo'[p] = <<>>
        /\ \A q \in Process \ {p} : todo'[q] = todo[q] /\ pc'[q] = pc[q]
    BY <1>5 DEF PassDone, Fails, Drop, Crash, EndsPass, TypeOK
  <2> QED
    BY <2>1, NothingTyped DEF Crossed
<1>6. ASSUME NEW p \in Process, Start(p) PROVE Crossed'
  BY <1>6 DEF Start, Crossed, TypeOK
<1> QED
  BY <1>1, <1>2, <1>3, <1>4, <1>5, <1>6 DEF Next, Runs, Change, Transmit, PhoneConnects,
     PhoneLeaves, PhoneHears, pass

IInv == TypeOK /\ OneOpen /\ Balanced /\ Crossed

LEMMA Invariance == Spec => []IInv
<1>1. Init => IInv
  <2> SUFFICES ASSUME Init PROVE IInv
    OBVIOUS
  <2>1. TypeOK
    <3>1. level \in [Alert -> Level] /\ seen \in [Process -> [Alert -> Level]]
      BY DEF Init, Unseen, Level
    <3>2. /\ opened \in [Alert -> Nat] /\ closed \in [Alert -> Nat]
          /\ \A k \in Alert : closed[k] <= opened[k]
      BY DEF Init
    <3>3. /\ todo \in [Process -> Todo] /\ outbox \in [Process -> Seq(Transition)]
          /\ inbox \in Seq(Transition)
      BY NothingTyped DEF Init
    <3>4. /\ announced \in [Alert -> [State -> Nat]]
          /\ retained \in [Alert -> State \cup {"none"}]
      BY DEF Init
    <3>5. bounds \in Bounds
      BY AlertsBoundsAssumption DEF Init, Bounds
    <3> QED
      BY <3>1, <3>2, <3>3, <3>4, <3>5 DEF Init, TypeOK, Bounds
  <2>2. OneOpen /\ Crossed
    BY NothingTyped DEF Init, OneOpen, Crossed
  <2>3. \A k, s : Announcing(k, s) = {}
    BY DEF Init, Announcing
  <2>4. Balanced
    <3> SUFFICES ASSUME NEW k \in Alert, NEW s \in State
                 PROVE  /\ IsFiniteSet(Announcing(k, s))
                        /\ announced[k][s] + Cardinality(Announcing(k, s)) <= Recorded(k, s)
      BY DEF Balanced
    <3>1. announced[k][s] = 0 /\ Recorded(k, s) = 0
      BY DEF Init, Recorded
    <3>2. IsFiniteSet(Announcing(k, s)) /\ Cardinality(Announcing(k, s)) = 0
      BY <2>3, FS_EmptySet
    <3> QED
      BY <3>1, <3>2
  <2> QED
    BY <2>1, <2>2, <2>4 DEF IInv
<1>2. IInv /\ [Next]_vars => IInv'
  <2>1. CASE Next
    BY <2>1, TypeKept, BalancedKept, CrossedKept DEF IInv
  <2>2. CASE UNCHANGED vars
    <3> SUFFICES ASSUME IInv, UNCHANGED vars PROVE IInv'
      BY <2>2
    <3>1. TypeOK' /\ OneOpen' /\ Crossed'
      BY DEF vars, table, pass, phone, IInv, TypeOK, OneOpen, Crossed, Pending
    <3>2. \A q \in Process : Due(q)' = Due(q)
      BY DEF vars, pass, Due, First
    <3>3. \A k, s : Announcing(k, s)' = Announcing(k, s) /\ Recorded(k, s)' = Recorded(k, s)
      BY <3>2 DEF vars, pass, table, Announcing, Recorded
    <3>4. Balanced'
      BY <3>3 DEF Balanced, IInv, vars
    <3> QED
      BY <3>1, <3>4 DEF IInv
  <2> QED
    BY <2>1, <2>2
<1> QED
  BY <1>1, <1>2, PTL DEF Spec

\* The state is always of the type the model says.
THEOREM AlertsTypeCorrect == Spec => []TypeOK
<1>1. IInv => TypeOK
  BY DEF IInv
<1> QED
  BY <1>1, Invariance, PTL

\* However many processes race, one episode is open at a time, and nothing is
\* announced that the table does not hold (008_phone_revision.sql:72-74,
\* alerts_pg.py:74-75, alerting.py:41-43).
THEOREM TheTableArbitrates == Spec => []RecordComesFirst
<1>1. IInv => RecordComesFirst
  <2> SUFFICES ASSUME IInv PROVE AnnouncedIsStored
    BY DEF IInv, RecordComesFirst
  <2>1. \A k \in Alert, s \in State : announced[k][s] <= Recorded(k, s)
    <3> TAKE k \in Alert, s \in State
    <3>1. /\ announced[k][s] \in Nat /\ Recorded(k, s) \in Nat
          /\ Cardinality(Announcing(k, s)) \in Nat
          /\ announced[k][s] + Cardinality(Announcing(k, s)) <= Recorded(k, s)
      BY FS_CardinalityType DEF IInv, TypeOK, Balanced, Recorded
    <3> QED
      BY <3>1
  <2> QED
    BY <2>1 DEF AnnouncedIsStored, Recorded, State
<1> QED
  BY <1>1, Invariance, PTL

\* An episode opens on a value beyond the raising threshold and closes on one beyond
\* the clearing threshold (domain/alerts.py:83-87).
THEOREM OnlyCrossingsCount == Spec => OnlyThresholds
<1>1. IInv /\ [Next]_vars =>
        [ \A k \in Alert :
            /\ opened'[k] # opened[k] => \E p \in Process : seen[p][k] = "raises"
            /\ closed'[k] # closed[k] => \E p \in Process : seen[p][k] = "clears" ]_vars
  <2> SUFFICES ASSUME IInv, Next, NEW k \in Alert
               PROVE  /\ opened'[k] # opened[k] => \E p \in Process : seen[p][k] = "raises"
                      /\ closed'[k] # closed[k] => \E p \in Process : seen[p][k] = "clears"
    OBVIOUS
  <2>1. CASE UNCHANGED table
    BY <2>1 DEF table
  <2>2. ASSUME NEW p \in Process, Recording(p)
        PROVE  /\ opened'[k] # opened[k] => seen[p][k] = "raises"
               /\ closed'[k] # closed[k] => seen[p][k] = "clears"
    <3>1. Due(p) \in Transition /\ First(p) \in DOMAIN todo[p]
      BY <2>2, DueTyped DEF Recording, IInv
    <3>2. /\ Due(p).state = "raised" => seen[p][Due(p).alert] = "raises"
          /\ Due(p).state = "cleared" => seen[p][Due(p).alert] = "clears"
      BY <3>1 DEF IInv, Crossed, Due
    <3> QED
      BY <2>2, <3>1, <3>2 DEF Recording, Stored, Transition, State, IInv, TypeOK
  <2> QED
    BY <2>1, <2>2, TableWriters DEF IInv
<1> QED
  BY <1>1, Invariance, PTL DEF Spec, OnlyThresholds

-----------------------------------------------------------------------------
(* What a queue of messages leaves an alert at.                            *)

Says(q, k) == \E i \in 1 .. Len(q) : q[i].alert = k

\* The last message about k, if there is one, says v.
Final(q, k, v) ==
  \A i \in 1 .. Len(q) :
    q[i].alert = k /\ (\A j \in i + 1 .. Len(q) : q[j].alert # k) => q[i].state = v

LEMMA Appended ==
  ASSUME NEW q \in Seq(Transition), NEW t \in Transition, NEW k
  PROVE  /\ Says(Append(q, t), k) <=> Says(q, k) \/ t.alert = k
         /\ t.alert = k => Final(Append(q, t), k, t.state)
         /\ \A v : t.alert # k /\ Final(q, k, v) => Final(Append(q, t), k, v)
<1> DEFINE r == Append(q, t)
<1>1. /\ Len(q) \in Nat /\ Len(r) = Len(q) + 1 /\ r[Len(q) + 1] = t
      /\ \A i \in 1 .. Len(q) : r[i] = q[i]
  BY AppendProperties
<1> HIDE DEF r
<1>2. Says(r, k) <=> Says(q, k) \/ t.alert = k
  BY <1>1 DEF Says
<1>3. ASSUME t.alert = k PROVE Final(r, k, t.state)
  <2> SUFFICES ASSUME NEW i \in 1 .. Len(r), r[i].alert = k,
                      \A j \in i + 1 .. Len(r) : r[j].alert # k
               PROVE  r[i].state = t.state
    BY DEF Final
  <2>1. ~ (Len(q) + 1 \in i + 1 .. Len(r))
    BY <1>1, <1>3
  <2>2. i = Len(q) + 1
    BY <1>1, <2>1
  <2> QED
    BY <1>1, <2>2
<1>4. ASSUME NEW v, t.alert # k, Final(q, k, v) PROVE Final(r, k, v)
  <2> SUFFICES ASSUME NEW i \in 1 .. Len(r), r[i].alert = k,
                      \A j \in i + 1 .. Len(r) : r[j].alert # k
               PROVE  r[i].state = v
    BY DEF Final
  <2>1. i \in 1 .. Len(q) /\ r[i] = q[i]
    BY <1>1, <1>4
  <2>2. \A j \in i + 1 .. Len(q) : q[j].alert # k
    BY <1>1, <2>1
  <2> QED
    BY <1>4, <2>1, <2>2 DEF Final
<1> QED
  BY <1>2, <1>3, <1>4 DEF r

LEMMA Shortened ==
  ASSUME NEW q \in Seq(Transition), q # <<>>, NEW k
  PROVE  /\ Says(q, k) <=> Says(Tail(q), k) \/ Head(q).alert = k
         /\ \A v : Final(q, k, v) => Final(Tail(q), k, v)
         /\ \A v : Final(q, k, v) /\ Head(q).alert = k /\ ~ Says(Tail(q), k) => Head(q).state = v
<1> DEFINE r == Tail(q)
<1>1. /\ Len(q) \in Nat /\ Len(q) > 0 /\ Len(r) = Len(q) - 1 /\ Head(q) = q[1]
      /\ \A i \in 1 .. Len(r) : r[i] = q[i + 1]
  BY HeadTailProperties
<1> HIDE DEF r
<1>2. Says(q, k) <=> Says(r, k) \/ Head(q).alert = k
  <2>1. ASSUME NEW i \in 1 .. Len(q), q[i].alert = k PROVE Says(r, k) \/ Head(q).alert = k
    <3>1. CASE i = 1
      BY <1>1, <2>1, <3>1
    <3>2. CASE i # 1
      <4>1. i - 1 \in 1 .. Len(r) /\ (i - 1) + 1 = i
        BY <1>1, <3>2
      <4> QED
        BY <1>1, <2>1, <4>1 DEF Says
    <3> QED
      BY <3>1, <3>2
  <2>2. ASSUME NEW i \in 1 .. Len(r), r[i].alert = k PROVE Says(q, k)
    <3>1. i + 1 \in 1 .. Len(q)
      BY <1>1
    <3> QED
      BY <1>1, <2>2, <3>1 DEF Says
  <2>3. Head(q).alert = k => Says(q, k)
    BY <1>1 DEF Says
  <2> QED
    BY <2>1, <2>2, <2>3 DEF Says
<1>3. ASSUME NEW v, Final(q, k, v) PROVE Final(r, k, v)
  <2> SUFFICES ASSUME NEW i \in 1 .. Len(r), r[i].alert = k,
                      \A j \in i + 1 .. Len(r) : r[j].alert # k
               PROVE  r[i].state = v
    BY DEF Final
  <2>1. i + 1 \in 1 .. Len(q) /\ r[i] = q[i + 1]
    BY <1>1
  <2>2. ASSUME NEW j \in (i + 1) + 1 .. Len(q) PROVE q[j].alert # k
    <3>1. j - 1 \in i + 1 .. Len(r) /\ j - 1 \in 1 .. Len(r) /\ (j - 1) + 1 = j
      BY <1>1
    <3> QED
      BY <1>1, <3>1
  <2> QED
    BY <1>3, <2>1, <2>2 DEF Final
<1>4. ASSUME NEW v, Final(q, k, v), Head(q).alert = k, ~ Says(r, k) PROVE Head(q).state = v
  <2>1. ASSUME NEW j \in 1 + 1 .. Len(q) PROVE q[j].alert # k
    <3>1. j - 1 \in 1 .. Len(r) /\ (j - 1) + 1 = j
      BY <1>1
    <3> QED
      BY <1>1, <1>4, <3>1 DEF Says
  <2>2. 1 \in 1 .. Len(q)
    BY <1>1
  <2> QED
    BY <1>1, <1>4, <2>1, <2>2 DEF Final
<1> QED
  BY <1>2, <1>3, <1>4 DEF r

-----------------------------------------------------------------------------
(* One process, never cut off: what the table says of an alert is what the *)
(* last message on its way says, or else what the broker retains; and that *)
(* is what the phone shows, once it has heard what is on its way to it.    *)

Truth(k) == IF k \in Open THEN "raised" ELSE "cleared"

Meaning(v) == IF v = "raised" THEN "raised" ELSE "cleared"

Sole(p) == ran \subseteq {p} /\ bounds.crashes = 0 /\ bounds.drops = 0

OnItsWay(p, k) ==
  IF pc[p] = "announcing" /\ Due(p).alert = k THEN Due(p).state = Truth(k)
  ELSE /\ Final(outbox[p], k, Truth(k))
       /\ ~ Says(outbox[p], k) => Meaning(retained[k]) = Truth(k)

Carried == \A p \in Process : Sole(p) => \A k \in Alert : OnItsWay(p, k)

Reaches ==
  \A k \in Alert :
    /\ retained[k] = "none" => ~ Says(inbox, k) /\ k \notin shown
    /\ phoneUp => /\ Final(inbox, k, retained[k])
                  /\ ~ Says(inbox, k) => (k \in shown <=> retained[k] = "raised")

\* A process that was never started does nothing.
Absent ==
  /\ IsFiniteSet(ran)
  /\ \A p \in Process \ ran : pc[p] = "down" /\ outbox[p] = <<>> /\ p \notin linked

LEMMA AbsentKept ==
  ASSUME TypeOK, Absent, Next
  PROVE  Absent' /\ ran \subseteq ran'
<1>1. ASSUME NEW p \in Process, Start(p) PROVE Absent' /\ ran \subseteq ran'
  BY <1>1, FS_AddElement DEF Start, Absent, TypeOK
<1>2. ASSUME NEW p \in Process,
             Observe(p) \/ Decide(p) \/ Apply(p) \/ Publish(p) \/ PassDone(p) \/ Fails(p)
               \/ Drop(p) \/ Crash(p)
      PROVE  Absent' /\ ran \subseteq ran'
  <2>1. p \in ran
    BY <1>2 DEF Observe, Decide, Apply, Publish, PassDone, Fails, Drop, Crash, Queries, Absent
  <2>2. /\ ran' = ran /\ linked' \subseteq linked
        /\ \A q \in Process \ {p} : pc'[q] = pc[q] /\ outbox'[q] = outbox[q]
    BY <1>2 DEF Observe, Decide, Apply, Publish, PassDone, Fails, Drop, Crash, EndsPass, TypeOK
  <2> QED
    BY <2>1, <2>2 DEF Absent
<1>3. ASSUME NEW p \in Process, Transmit(p) PROVE Absent' /\ ran \subseteq ran'
  BY <1>3 DEF Transmit, Absent, pass, TypeOK
<1>4. CASE UNCHANGED <<pass, outbox>>
  BY <1>4 DEF Absent, pass
<1> QED
  BY <1>1, <1>2, <1>3, <1>4 DEF Next, Runs, Change, PhoneConnects, PhoneLeaves, PhoneHears

\* While one process is alone, it is the one that acts.
LEMMA SoleActs ==
  ASSUME TypeOK, Absent, Next, NEW p \in Process, Sole(p)'
  PROVE  /\ Sole(p)
         /\ \/ Apply(p) \/ Publish(p) \/ Transmit(p)
            \/ /\ pc[p] # "announcing" /\ pc'[p] # "announcing"
               /\ UNCHANGED <<table, outbox, retained>>
            \/ UNCHANGED <<table, outbox, retained, pc, todo>>
<1>1. ran \subseteq {p} /\ ran' \subseteq {p}
  BY AbsentKept DEF Sole
<1>2. \A q \in Process : q # p => pc[q] = "down" /\ outbox[q] = <<>> /\ q \notin linked
  BY <1>1 DEF Absent
<1>3. ASSUME NEW q \in Process, Drop(q) \/ Crash(q) PROVE FALSE
  <2>1. bounds'.drops = bounds.drops + 1 \/ bounds'.crashes = bounds.crashes + 1
    BY <1>3 DEF Drop, Crash, TypeOK
  <2>2. bounds.drops \in Nat /\ bounds.crashes \in Nat
    BY DEF TypeOK
  <2> QED
    BY <2>1, <2>2 DEF Sole
<1>4. Sole(p)
  <2>1. UNCHANGED bounds \/ /\ bounds'.drops >= bounds.drops /\ bounds'.crashes >= bounds.crashes
    BY BoundsTyped DEF Next, Runs, Change, Observe, Decide, Apply, Publish, PassDone, Fails, Drop, Crash,
       Start, Transmit, PhoneConnects, PhoneLeaves, PhoneHears
  <2>2. bounds.drops \in Nat /\ bounds.crashes \in Nat
    BY DEF TypeOK
  <2> QED
    BY <1>1, <2>1, <2>2 DEF Sole
<1>5. ASSUME NEW q \in Process, Runs(q) \/ Fails(q) \/ Start(q) \/ Transmit(q) PROVE q = p
  BY <1>1, <1>2, <1>5 DEF Runs, Observe, Decide, Apply, Publish, PassDone, Fails, Start, Transmit,
     Queries
<1>6. ASSUME Observe(p) \/ Decide(p) \/ PassDone(p) \/ Fails(p) \/ Start(p)
      PROVE  /\ pc[p] # "announcing" /\ pc'[p] # "announcing"
             /\ UNCHANGED <<table, outbox, retained>>
  BY <1>6 DEF Observe, Decide, PassDone, Fails, Start, Queries, EndsPass, InStatement, TypeOK
<1>7. CASE (\E k \in Alert : Change(k)) \/ PhoneConnects \/ PhoneLeaves \/ PhoneHears
  BY <1>4, <1>7 DEF Change, PhoneConnects, PhoneLeaves, PhoneHears, pass
<1> QED
  BY <1>3, <1>4, <1>5, <1>6, <1>7 DEF Next, Runs

LEMMA CarriedKept ==
  ASSUME TypeOK, OneOpen, Absent, Carried, Next
  PROVE  Carried'
<1> SUFFICES ASSUME NEW p \in Process, Sole(p)', NEW k \in Alert PROVE OnItsWay(p, k)'
  BY DEF Carried
<1>1. OnItsWay(p, k) /\ outbox[p] \in Seq(Transition)
  BY SoleActs DEF Carried, TypeOK
<1>2. UNCHANGED table => Truth(k)' = Truth(k)
  BY DEF table, Truth, Open
<1>3. todo'[p] = todo[p] => Due(p)' = Due(p)
  BY DEF Due, First
<1>4. ASSUME Apply(p) PROVE OnItsWay(p, k)'
  <2>1. outbox' = outbox /\ retained' = retained /\ pc[p] = "applying"
    BY <1>4 DEF Apply, Queries
  <2>2. CASE Changes(Due(p))
    <3>1. Due(p) \in Transition /\ Stored(Due(p))
      BY <1>4, <2>2, DueTyped DEF Apply
    <3>2. pc'[p] = "announcing" /\ Due(p)' = Due(p)
      BY <1>3, <1>4, <2>2 DEF Apply, TypeOK
    <3>3. /\ (Due(p).alert \in Open') = (Due(p).state = "raised")
          /\ \A j \in Alert \ {Due(p).alert} : opened'[j] = opened[j] /\ closed'[j] = closed[j]
      BY <2>2, <3>1, StoredTyped
    <3>4. CASE Due(p).alert = k
      <4>1. Due(p).state = Truth(k)'
        BY <3>1, <3>3, <3>4 DEF Truth, Transition, State
      <4> QED
        BY <3>2, <3>4, <4>1 DEF OnItsWay
    <3>5. CASE Due(p).alert # k
      <4>1. Truth(k)' = Truth(k)
        BY <3>3, <3>5 DEF Truth, Open
      <4> QED
        BY <1>1, <2>1, <3>2, <3>5, <4>1 DEF OnItsWay
    <3> QED
      BY <3>4, <3>5
  <2>3. CASE ~ Changes(Due(p))
    <3>1. UNCHANGED table /\ pc' = pc
      BY <1>4, <2>3 DEF Apply
    <3> QED
      BY <1>1, <1>2, <2>1, <3>1 DEF OnItsWay
  <2> QED
    BY <2>2, <2>3
<1>5. ASSUME Publish(p) PROVE OnItsWay(p, k)'
  <2>1. Due(p) \in Transition
    BY <1>5, DueTyped DEF Publish, TypeOK
  <2>2. /\ UNCHANGED table /\ retained' = retained
        /\ pc[p] = "announcing" /\ pc'[p] = "applying"
        /\ outbox'[p] = Append(outbox[p], Due(p))
    BY <1>5 DEF Publish, TypeOK
  <2>3. Truth(k)' = Truth(k)
    BY <1>2, <2>2
  <2>4. CASE Due(p).alert = k
    <3>1. Due(p).state = Truth(k)
      BY <1>1, <2>2, <2>4 DEF OnItsWay
    <3>2. Says(outbox'[p], k) /\ Final(outbox'[p], k, Truth(k))
      BY <1>1, <2>1, <2>2, <2>4, <3>1, Appended
    <3> QED
      BY <2>2, <2>3, <3>2 DEF OnItsWay
  <2>5. CASE Due(p).alert # k
    <3>1. /\ Final(outbox[p], k, Truth(k))
          /\ ~ Says(outbox[p], k) => Meaning(retained[k]) = Truth(k)
      BY <1>1, <2>5 DEF OnItsWay
    <3>2. /\ Says(outbox'[p], k) <=> Says(outbox[p], k)
          /\ Final(outbox'[p], k, Truth(k))
      <4>1. /\ Says(Append(outbox[p], Due(p)), k) <=> Says(outbox[p], k) \/ Due(p).alert = k
            /\ \A v : Due(p).alert # k /\ Final(outbox[p], k, v)
                    => Final(Append(outbox[p], Due(p)), k, v)
        BY <1>1, <2>1, Appended
      <4> QED
        BY <2>2, <2>5, <3>1, <4>1
    <3> QED
      BY <2>2, <2>3, <3>1, <3>2 DEF OnItsWay
  <2> QED
    BY <2>4, <2>5
<1>6. ASSUME Transmit(p) PROVE OnItsWay(p, k)'
  <2> DEFINE h == Head(outbox[p])
  <2>1. /\ outbox[p] # <<>> /\ outbox'[p] = Tail(outbox[p]) /\ h \in Transition
        /\ retained' = [retained EXCEPT ![h.alert] = h.state]
        /\ UNCHANGED <<table, pc, todo>>
    BY <1>6 DEF Transmit, TypeOK, Retains, pass
  <2>2. Truth(k)' = Truth(k) /\ Due(p)' = Due(p)
    BY <1>2, <1>3, <2>1
  <2>3. CASE pc[p] = "announcing" /\ Due(p).alert = k
    BY <1>1, <2>1, <2>2, <2>3 DEF OnItsWay
  <2>4. CASE ~ (pc[p] = "announcing" /\ Due(p).alert = k)
    <3>1. /\ Final(outbox[p], k, Truth(k))
          /\ ~ Says(outbox[p], k) => Meaning(retained[k]) = Truth(k)
      BY <1>1, <2>4 DEF OnItsWay
    <3>2. /\ Final(outbox'[p], k, Truth(k))
          /\ Says(outbox[p], k) <=> Says(outbox'[p], k) \/ h.alert = k
          /\ h.alert = k /\ ~ Says(outbox'[p], k) => h.state = Truth(k)
      BY <1>1, <2>1, <3>1, Shortened
    <3>3. retained'[k] = IF h.alert = k THEN h.state ELSE retained[k]
      BY <2>1 DEF TypeOK, Transition
    <3>4. Truth(k) \in {"raised", "cleared"}
      BY DEF Truth
    <3>5. ~ Says(outbox'[p], k) => Meaning(retained'[k]) = Truth(k)
      BY <3>1, <3>2, <3>3, <3>4 DEF Meaning
    <3> HIDE DEF h
    <3> QED
      BY <2>1, <2>2, <2>4, <3>2, <3>5 DEF OnItsWay
  <2> QED
    BY <2>3, <2>4
<1>7. ASSUME pc[p] # "announcing", pc'[p] # "announcing", UNCHANGED <<table, outbox, retained>>
      PROVE  OnItsWay(p, k)'
  BY <1>1, <1>2, <1>7 DEF OnItsWay
<1>8. ASSUME UNCHANGED <<table, outbox, retained, pc, todo>> PROVE OnItsWay(p, k)'
  BY <1>1, <1>2, <1>3, <1>8 DEF OnItsWay
<1> QED
  BY <1>4, <1>5, <1>6, <1>7, <1>8, SoleActs

LEMMA ReachesKept ==
  ASSUME TypeOK, Reaches, phoneUp \/ inbox = <<>>, Next
  PROVE  Reaches' /\ (phoneUp' \/ inbox' = <<>>)
<1>1. CASE UNCHANGED <<inbox, shown, phoneUp, retained>>
  BY <1>1 DEF Reaches
<1>2. ASSUME NEW p \in Process, Transmit(p) PROVE Reaches' /\ (phoneUp' \/ inbox' = <<>>)
  <2> DEFINE h == Head(outbox[p])
  <2>1. /\ h \in Transition /\ UNCHANGED <<phoneUp, shown>>
        /\ inbox' = IF phoneUp THEN Append(inbox, h) ELSE inbox
        /\ inbox \in Seq(Transition)
        /\ \A k \in Alert : retained'[k] = IF h.alert = k THEN h.state ELSE retained[k]
    <3>1. h \in Transition
      BY <1>2 DEF Transmit, TypeOK
    <3>2. retained' = [retained EXCEPT ![h.alert] = h.state]
      BY <1>2 DEF Transmit, Retains
    <3>3. retained \in [Alert -> State \cup {"none"}] /\ inbox \in Seq(Transition)
      BY DEF TypeOK
    <3>4. /\ UNCHANGED <<phoneUp, shown>>
          /\ inbox' = IF phoneUp THEN Append(inbox, h) ELSE inbox
      BY <1>2 DEF Transmit
    <3> HIDE DEF h
    <3>5. \A k \in Alert : retained'[k] = IF h.alert = k THEN h.state ELSE retained[k]
      BY <3>1, <3>2, <3>3 DEF Transition
    <3> QED
      BY <3>1, <3>3, <3>4, <3>5
  <2> HIDE DEF h
  <2>2. ASSUME NEW k \in Alert
        PROVE  /\ retained'[k] = "none" => ~ Says(inbox', k) /\ k \notin shown'
               /\ phoneUp' => /\ Final(inbox', k, retained'[k])
                              /\ ~ Says(inbox', k) => (k \in shown' <=> retained'[k] = "raised")
    <3>1. /\ retained[k] = "none" => ~ Says(inbox, k) /\ k \notin shown
          /\ phoneUp => /\ Final(inbox, k, retained[k])
                        /\ ~ Says(inbox, k) => (k \in shown <=> retained[k] = "raised")
      BY DEF Reaches
    <3>2. h.state # "none"
      BY <2>1 DEF Transition, State
    <3>3. CASE ~ phoneUp
      BY <2>1, <3>1, <3>2, <3>3
    <3>4. CASE phoneUp
      <4>1. /\ Says(Append(inbox, h), k) <=> Says(inbox, k) \/ h.alert = k
            /\ h.alert = k => Final(Append(inbox, h), k, h.state)
            /\ \A v : h.alert # k /\ Final(inbox, k, v) => Final(Append(inbox, h), k, v)
        BY <2>1, Appended
      <4>2. inbox' = Append(inbox, h)
        BY <2>1, <3>4
      <4>3. CASE h.alert = k
        BY <2>1, <3>2, <4>1, <4>2, <4>3
      <4>4. CASE h.alert # k
        BY <2>1, <3>1, <3>4, <4>1, <4>2, <4>4
      <4> QED
        BY <4>3, <4>4
    <3> QED
      BY <3>3, <3>4
  <2> QED
    BY <2>1, <2>2 DEF Reaches
<1>3. CASE PhoneConnects
  <2>1. PICK topics \in Orders(Kept) :
          inbox' = [i \in DOMAIN topics |-> [alert |-> topics[i], state |-> retained[topics[i]]]]
    BY <1>3 DEF PhoneConnects
  <2> DEFINE n == Cardinality(Kept)
  <2>2. n \in Nat /\ topics \in [1 .. n -> Kept] /\ \A k \in Kept : \E i \in 1 .. n : topics[i] = k
    BY AlertsFinite, FS_Subset, FS_CardinalityType DEF Kept, Orders
  <2> HIDE DEF n
  <2>3. /\ Len(inbox') = n
        /\ \A i \in 1 .. n : inbox'[i].alert = topics[i] /\ inbox'[i].state = retained[topics[i]]
    BY <2>1, <2>2
  <2>4. \A k \in Alert : /\ Says(inbox', k) <=> retained[k] # "none"
                         /\ Final(inbox', k, retained[k])
    <3> TAKE k \in Alert
    <3>1. Says(inbox', k) => retained[k] # "none"
      BY <2>2, <2>3 DEF Says, Kept
    <3>2. retained[k] # "none" => Says(inbox', k)
      BY <2>2, <2>3 DEF Says, Kept
    <3>3. Final(inbox', k, retained[k])
      BY <2>3 DEF Final
    <3> QED
      BY <3>1, <3>2, <3>3
  <2>5. phoneUp' = TRUE /\ UNCHANGED <<retained, shown>>
    BY <1>3 DEF PhoneConnects
  <2> QED
    BY <2>4, <2>5 DEF Reaches
<1>4. CASE PhoneLeaves
  <2>1. phoneUp' = FALSE /\ inbox' = <<>> /\ UNCHANGED <<retained, shown>>
    BY <1>4 DEF PhoneLeaves
  <2>2. \A k : ~ Says(inbox', k)
    BY <2>1 DEF Says
  <2> QED
    BY <2>1, <2>2 DEF Reaches
<1>5. CASE PhoneHears
  <2> DEFINE h == Head(inbox)
  <2>1. /\ inbox # <<>> /\ inbox' = Tail(inbox) /\ inbox \in Seq(Transition)
        /\ UNCHANGED <<retained, phoneUp>> /\ phoneUp
        /\ shown' = IF h.state = "raised" THEN shown \cup {h.alert} ELSE shown \ {h.alert}
    BY <1>5 DEF PhoneHears, Notified, TypeOK
  <2> HIDE DEF h
  <2>2. ASSUME NEW k \in Alert
        PROVE  /\ retained[k] = "none" => ~ Says(inbox', k) /\ k \notin shown'
               /\ Final(inbox', k, retained[k])
               /\ ~ Says(inbox', k) => (k \in shown' <=> retained[k] = "raised")
    <3>1. /\ retained[k] = "none" => ~ Says(inbox, k) /\ k \notin shown
          /\ Final(inbox, k, retained[k])
          /\ ~ Says(inbox, k) => (k \in shown <=> retained[k] = "raised")
      BY <2>1 DEF Reaches
    <3>2. /\ Says(inbox, k) <=> Says(inbox', k) \/ h.alert = k
          /\ \A v : Final(inbox, k, v) => Final(inbox', k, v)
          /\ \A v : Final(inbox, k, v) /\ h.alert = k /\ ~ Says(inbox', k) => h.state = v
      BY <2>1, Shortened DEF h
    <3>3. CASE h.alert = k
      BY <2>1, <3>1, <3>2, <3>3
    <3>4. CASE h.alert # k
      BY <2>1, <3>1, <3>2, <3>4
    <3> QED
      BY <3>3, <3>4
  <2> QED
    BY <2>1, <2>2 DEF Reaches
<1> QED
  BY <1>1, <1>2, <1>3, <1>4, <1>5 DEF Next, Runs, Change, Observe, Decide, Apply, Publish, PassDone,
     Fails, Drop, Crash, Start, phone

CInv == Absent /\ Carried /\ Reaches /\ (phoneUp \/ inbox = <<>>)

LEMMA CarriedInvariance == Spec => []CInv
<1>1. Init => CInv
  <2> SUFFICES ASSUME Init PROVE CInv
    OBVIOUS
  <2>1. Absent
    BY FS_EmptySet DEF Init, Absent
  <2>2. \A k, v : ~ Says(<<>>, k) /\ Final(<<>>, k, v)
    BY DEF Says, Final
  <2>3. \A k \in Alert : Truth(k) = "cleared" /\ retained[k] = "none"
    BY DEF Init, Truth, Open
  <2>4. Carried
    BY <2>2, <2>3 DEF Init, Carried, OnItsWay, Meaning
  <2>5. Reaches
    BY <2>2, <2>3 DEF Init, Reaches
  <2> QED
    BY <2>1, <2>4, <2>5 DEF Init, CInv
<1>2. IInv /\ CInv /\ [Next]_vars => CInv'
  <2>1. CASE Next
    BY <2>1, AbsentKept, CarriedKept, ReachesKept DEF IInv, CInv
  <2>2. CASE UNCHANGED vars
    <3> SUFFICES ASSUME CInv, UNCHANGED vars PROVE CInv'
      BY <2>2
    <3>1. \A p, k : OnItsWay(p, k)' = OnItsWay(p, k) /\ Sole(p)' = Sole(p)
      BY DEF vars, table, pass, OnItsWay, Due, First, Truth, Open, Sole
    <3>2. Carried'
      BY <3>1 DEF CInv, Carried
    <3> QED
      BY <3>2 DEF vars, pass, phone, CInv, Absent, Reaches
  <2> QED
    BY <2>1, <2>2
<1> QED
  BY <1>1, <1>2, Invariance, PTL DEF Spec

\* With nothing on its way, a subscribed phone shows the open alerts and no other
\* (alerting.py:45-46, AlertNotifier.kt:11-17).
THEOREM TheScreenIsTheTable == Spec => []ShownIsRecord
<1>1. IInv /\ CInv => ShownIsRecord
  <2> SUFFICES ASSUME IInv, CInv, Undisturbed, Settled PROVE shown = Open
    BY DEF ShownIsRecord
  <2>1. PICK p : ran = {p}
    BY FS_Singleton DEF Undisturbed, CInv, Absent
  <2>2. p \in Process /\ Sole(p)
    BY <2>1 DEF IInv, TypeOK, Undisturbed, Sole
  <2>3. \A k, v : ~ Says(<<>>, k)
    BY DEF Says
  <2>4. ASSUME NEW k \in Alert PROVE k \in shown <=> k \in Open
    <3>1. Meaning(retained[k]) = Truth(k)
      BY <2>2, <2>3 DEF CInv, Carried, OnItsWay, Settled
    <3>2. k \in shown <=> retained[k] = "raised"
      BY <2>3 DEF CInv, Reaches, Settled
    <3> QED
      BY <3>1, <3>2 DEF Meaning, Truth
  <2>5. shown \subseteq Alert /\ Open \subseteq Alert
    BY DEF IInv, TypeOK, Open
  <2> QED
    BY <2>4, <2>5
<1> QED
  BY <1>1, Invariance, CarriedInvariance, PTL

-----------------------------------------------------------------------------
(* The read side.                                                          *)

\* A row's times.  One reading is taken an instant, so rows are told apart by it.
RowsDated ==
  /\ IsFiniteSet(rows)
  /\ \A r \in rows : r.at <= r.arrived /\ r.arrived <= now /\ r.time - r.at \in Errors
  /\ \A r, x \in rows : r.at = x.at => r = x

\* A download has sent part of what it saw when it began, the first of it.
ExportsTyped ==
  exports \in [Exports -> [phase : {"idle", "open", "whole"}, snapshot : SUBSET rows,
                           sent : SUBSET rows]]

FirstSent(x) ==
  /\ x.sent \subseteq x.snapshot
  /\ x.phase = "whole" => x.sent = x.snapshot
  /\ \A r \in x.sent, y \in x.snapshot \ x.sent : Before(r, y)

SentFirst == \A e \in Exports : FirstSent(exports[e])

\* The refresh is on time, and the watermark lies between buckets it has reached.
RefreshOnTime ==
  /\ refreshed <= now /\ now <= refreshed + Schedule
  /\ BucketOf(watermark) = watermark
  /\ watermark = 0 \/ watermark + EndOffset <= refreshed

RInv == RTypeOK /\ RowsDated /\ ExportsTyped /\ SentFirst /\ RefreshOnTime

\* A reading still in reach when it arrived was recomputed by the refresh that followed,
\* unless its bucket was not over yet; one of those that follow will.
Recomputed ==
  \A r \in rows :
    InReach(r) /\ refreshed > r.arrived =>
      r \in mat \/ refreshed < BucketOf(r.time) + Bucket + EndOffset

\* The refresh comes often enough that no bucket leaves its window between two of them.
\* On the server a minute, a minute and a minute against three hours
\* (002_aggregates.sql:57-60).
RefreshReaches == Bucket + EndOffset + Schedule <= StartOffset + 1

-----------------------------------------------------------------------------
(* The greatest and the least of a finite set, and the first n of one.      *)

\* What is left of a finite set without one of its members is smaller.
LEMMA Smaller ==
  ASSUME NEW S, IsFiniteSet(S), NEW T \in SUBSET S, NEW x \in S, x \notin T
  PROVE  Cardinality(T) < Cardinality(S) /\ Cardinality(T) \in Nat /\ Cardinality(S) \in Nat
<1>1. /\ Cardinality(T) <= Cardinality(S) /\ Cardinality(T) # Cardinality(S)
  BY FS_Subset
<1>2. Cardinality(T) \in Nat /\ Cardinality(S) \in Nat
  BY FS_Subset, FS_CardinalityType
<1> QED
  BY <1>1, <1>2

LEMMA Greatest ==
  ASSUME NEW S \in SUBSET Int, IsFiniteSet(S), S # {}
  PROVE  Max(S) \in S /\ \A y \in S : y <= Max(S)
<1> DEFINE Above(x) == { y \in S : y > x }
           Counts   == { Cardinality(Above(x)) : x \in S }
<1>1. ASSUME NEW x \in S PROVE IsFiniteSet(Above(x)) /\ Cardinality(Above(x)) \in Nat
  BY FS_Subset, FS_CardinalityType
<1>2. Counts \in SUBSET Nat /\ Counts # {}
  BY <1>1
<1>3. PICK n \in Counts : \A k \in Counts : n <= k
  <2> HIDE DEF Counts
  <2> QED
    BY <1>2, Least
<1>4. PICK x \in S : n = Cardinality(Above(x))
  OBVIOUS
<1>5. ASSUME NEW y \in S, y > x PROVE FALSE
  <2>1. x \in Int /\ y \in Int /\ \A z \in S : z \in Int
    OBVIOUS
  <2>2. Above(y) \in SUBSET Above(x) /\ y \in Above(x) /\ y \notin Above(y)
    <3>1. \A z \in S : z > y => z > x
      BY <1>5, <2>1
    <3>2. Above(y) \subseteq Above(x)
      BY <3>1
    <3>3. y \in Above(x)
      BY <1>5
    <3>4. ~ (y > y)
      BY <2>1
    <3> QED
      BY <3>2, <3>3, <3>4
  <2> HIDE DEF Above
  <2>3. Cardinality(Above(y)) < Cardinality(Above(x))
    BY <1>1, <2>2, Smaller
  <2>4. n <= Cardinality(Above(y))
    BY <1>3
  <2> QED
    BY <1>1, <1>4, <2>3, <2>4
<1>6. \E m \in S : \A y \in S : m >= y
  BY <1>5
<1> QED
  BY <1>6 DEF Max

LEMMA LeastOf ==
  ASSUME NEW S \in SUBSET Int, IsFiniteSet(S), S # {}
  PROVE  Min(S) \in S /\ \A y \in S : Min(S) <= y
<1> DEFINE Below(x) == { y \in S : y < x }
           Counts   == { Cardinality(Below(x)) : x \in S }
<1>1. ASSUME NEW x \in S PROVE IsFiniteSet(Below(x)) /\ Cardinality(Below(x)) \in Nat
  BY FS_Subset, FS_CardinalityType
<1>2. Counts \in SUBSET Nat /\ Counts # {}
  BY <1>1
<1>3. PICK n \in Counts : \A k \in Counts : n <= k
  <2> HIDE DEF Counts
  <2> QED
    BY <1>2, Least
<1>4. PICK x \in S : n = Cardinality(Below(x))
  OBVIOUS
<1>5. ASSUME NEW y \in S, y < x PROVE FALSE
  <2>1. x \in Int /\ y \in Int /\ \A z \in S : z \in Int
    OBVIOUS
  <2>2. Below(y) \in SUBSET Below(x) /\ y \in Below(x) /\ y \notin Below(y)
    <3>1. \A z \in S : z < y => z < x
      BY <1>5, <2>1
    <3>2. Below(y) \subseteq Below(x)
      BY <3>1
    <3>3. y \in Below(x)
      BY <1>5
    <3>4. ~ (y < y)
      BY <2>1
    <3> QED
      BY <3>2, <3>3, <3>4
  <2> HIDE DEF Below
  <2>3. Cardinality(Below(y)) < Cardinality(Below(x))
    BY <1>1, <2>2, Smaller
  <2>4. n <= Cardinality(Below(y))
    BY <1>3
  <2> QED
    BY <1>1, <1>4, <2>3, <2>4
<1>6. \E m \in S : \A y \in S : m <= y
  BY <1>5
<1> QED
  BY <1>6 DEF Min

-----------------------------------------------------------------------------
(* Buckets.                                                                 *)

LEMMA ReadSideNumbers ==
  /\ MaxTime \in Nat /\ MaxRows \in Nat
  /\ Fresh \in Nat \ {0} /\ GapLimit \in Nat \ {0} /\ Day \in Nat \ {0}
  /\ RawSpan \in Nat \ {0} /\ Bucket \in Nat \ {0} /\ Schedule \in Nat \ {0}
  /\ StartOffset \in Nat /\ EndOffset \in Nat
  /\ Errors \in SUBSET Nat /\ 0 \in Errors /\ IsFiniteSet(Errors)
  /\ MaxGaps \in Nat \ {0} /\ MaxPoints \in Nat \ {0} /\ Pool \in Nat \ {0}
  /\ Itersize \in Nat \ {0}
BY ReadSideBoundsAssumption, ReadSideTimesAssumption, ReadSideLimitsAssumption

LEMMA DivBucket ==
  ASSUME NEW t \in Nat
  PROVE  /\ t \div Bucket \in Nat /\ t % Bucket \in 0 .. (Bucket - 1)
         /\ t = Bucket * (t \div Bucket) + (t % Bucket)
         /\ BucketOf(t) = Bucket * (t \div Bucket) /\ BucketOf(t) \in Nat
<1>1. Bucket \in Nat /\ Bucket > 0
  BY ReadSideNumbers
<1>2. /\ t \div Bucket \in Nat /\ t % Bucket \in 0 .. (Bucket - 1)
      /\ t = Bucket * (t \div Bucket) + (t % Bucket)
  BY <1>1
<1>3. (t \div Bucket) * Bucket = Bucket * (t \div Bucket) /\ Bucket * (t \div Bucket) \in Nat
  BY <1>1, <1>2
<1> QED
  BY <1>2, <1>3 DEF BucketOf

\* A later instant is in no earlier bucket.
LEMMA BucketsInOrder ==
  ASSUME NEW t \in Nat, NEW u \in Nat, t <= u
  PROVE  BucketOf(t) <= BucketOf(u)
<1> DEFINE q == t \div Bucket
           p == u \div Bucket
<1>1. Bucket \in Nat /\ Bucket > 0
  BY ReadSideNumbers
<1>2. /\ q \in Nat /\ t % Bucket \in 0 .. (Bucket - 1) /\ t = Bucket * q + (t % Bucket)
      /\ BucketOf(t) = Bucket * q /\ BucketOf(t) \in Nat
  BY DivBucket
<1>3. /\ p \in Nat /\ u % Bucket \in 0 .. (Bucket - 1) /\ u = Bucket * p + (u % Bucket)
      /\ BucketOf(u) = Bucket * p /\ BucketOf(u) \in Nat
  BY DivBucket
<1> HIDE DEF q, p
<1>4. ASSUME p < q PROVE FALSE
  <2>1. PICK e \in Nat : q = p + 1 + e
    <3>1. q - p - 1 \in Nat /\ q = p + 1 + (q - p - 1)
      BY <1>2, <1>3, <1>4
    <3> QED
      BY <3>1
  <2>2. Bucket * q = Bucket * p + Bucket + Bucket * e /\ Bucket * e \in Nat
    BY <1>1, <1>3, <2>1
  <2> QED
    BY <1>1, <1>2, <1>3, <2>2
<1>5. PICK e \in Nat : p = q + e
  <2>1. p - q \in Nat /\ p = q + (p - q)
    BY <1>2, <1>3, <1>4
  <2> QED
    BY <2>1
<1>6. Bucket * p = Bucket * q + Bucket * e /\ Bucket * e \in Nat
  BY <1>1, <1>2, <1>5
<1> QED
  BY <1>2, <1>3, <1>6

\* An instant is in its bucket, which is its own and the one before the next.
LEMMA BucketFacts ==
  ASSUME NEW t \in Nat
  PROVE  /\ BucketOf(t) \in Nat /\ BucketOf(t) <= t /\ t < BucketOf(t) + Bucket
         /\ BucketOf(BucketOf(t)) = BucketOf(t)
         /\ BucketOf(BucketOf(t) + Bucket) = BucketOf(t) + Bucket
         /\ \A w \in Nat : BucketOf(w) = w /\ w < BucketOf(t) + Bucket => w <= BucketOf(t)
<1> DEFINE q == t \div Bucket
           b == BucketOf(t)
<1>1. Bucket \in Nat /\ Bucket > 0
  BY ReadSideNumbers
<1>2. /\ q \in Nat /\ t % Bucket \in 0 .. (Bucket - 1) /\ t = Bucket * q + (t % Bucket)
      /\ b = Bucket * q /\ b \in Nat
  BY DivBucket
<1> HIDE DEF q, b
<1>3. b <= t /\ t < b + Bucket
  BY <1>1, <1>2
<1>4. ASSUME NEW w \in Nat, w % Bucket = 0 PROVE BucketOf(w) = w
  <2>1. w = Bucket * (w \div Bucket) + (w % Bucket) /\ BucketOf(w) = Bucket * (w \div Bucket)
        /\ BucketOf(w) \in Nat
    BY DivBucket
  <2> QED
    BY <1>4, <2>1
<1>5. ASSUME NEW k \in Nat PROVE BucketOf(Bucket * k) = Bucket * k
  <2>1. Bucket * k \in Nat
    BY <1>1, <1>5
  <2>2. (Bucket * k) % Bucket = 0
    BY <1>1, <1>5, SMTT(30)
  <2> QED
    BY <1>4, <2>1, <2>2
<1>6. BucketOf(b) = b
  BY <1>2, <1>5
<1>7. BucketOf(b + Bucket) = b + Bucket
  <2>1. b + Bucket = Bucket * (q + 1) /\ q + 1 \in Nat
    BY <1>1, <1>2
  <2> QED
    BY <1>5, <2>1
<1>8. ASSUME NEW w \in Nat, BucketOf(w) = w, w < b + Bucket PROVE w <= b
  <2>1. PICK k \in Nat : w = Bucket * k
    BY <1>8, DivBucket
  <2>2. ASSUME k > q PROVE FALSE
    <3>1. PICK e \in Nat : k = q + 1 + e
      <4>1. k - q - 1 \in Nat /\ k = q + 1 + (k - q - 1)
        BY <1>2, <2>2
      <4> QED
        BY <4>1
    <3>2. Bucket * k = Bucket * q + Bucket + Bucket * e /\ Bucket * e \in Nat
      BY <1>1, <1>2, <3>1
    <3> QED
      BY <1>1, <1>2, <1>8, <2>1, <3>2
  <2>3. PICK e \in Nat : q = k + e
    <3>1. q - k \in Nat /\ q = k + (q - k)
      BY <1>2, <2>2
    <3> QED
      BY <3>1
  <2>4. Bucket * q = Bucket * k + Bucket * e /\ Bucket * e \in Nat /\ Bucket * k \in Nat
    BY <1>1, <2>3
  <2> QED
    BY <1>2, <2>1, <2>4
<1> QED
  BY <1>2, <1>3, <1>6, <1>7, <1>8 DEF b

-----------------------------------------------------------------------------
(* Rows, in the order of their instants.                                    *)

LEMMA InstantsAreNat == Instant \in SUBSET Nat
BY ReadSideNumbers DEF Instant, Time

LEMMA RowFacts ==
  ASSUME RTypeOK, RowsDated, NEW r \in rows
  PROVE  /\ r.at \in Nat /\ r.time \in Nat /\ r.arrived \in Nat /\ r.time \in Instant
         /\ r.at <= r.time /\ r.time - r.at <= Tolerance /\ Tolerance \in Nat
         /\ r.arrived <= now /\ r.at <= now /\ now \in Nat /\ refreshed \in Nat
<1>1. r \in Row /\ now \in Time /\ refreshed \in Time
  BY DEF RTypeOK
<1>2. r.at \in Nat /\ r.time \in Nat /\ r.arrived \in Nat /\ r.time \in Instant
      /\ now \in Nat /\ refreshed \in Nat
  <2>1. r.at \in Time /\ r.time \in Instant /\ r.arrived \in Time
    BY <1>1 DEF Row
  <2>2. Time \in SUBSET Nat
    BY ReadSideNumbers DEF Time
  <2> QED
    BY <1>1, <2>1, <2>2, InstantsAreNat
<1>3. Tolerance \in Errors /\ \A e \in Errors : e <= Tolerance
  BY Greatest, ReadSideNumbers DEF Tolerance
<1>4. r.time - r.at \in Errors /\ r.at <= r.arrived /\ r.arrived <= now
  BY DEF RowsDated
<1>5. r.time - r.at \in Nat /\ r.time - r.at <= Tolerance /\ Tolerance \in Nat
  BY <1>3, <1>4, ReadSideNumbers
<1> QED
  BY <1>2, <1>4, <1>5

LEMMA InOrder ==
  ASSUME RTypeOK, RowsDated
  PROVE  /\ \A r, x \in rows : r = x \/ Before(r, x) \/ Before(x, r)
         /\ \A r, x \in rows : ~ (Before(r, x) /\ Before(x, r))
         /\ \A r, x, y \in rows : Before(r, x) /\ Before(x, y) => Before(r, y)
<1>1. \A r \in rows : r.at \in Nat /\ r.time \in Nat
  BY RowFacts
<1>2. \A r, x \in rows : r.at = x.at => r = x
  BY DEF RowsDated
<1> QED
  BY <1>1, <1>2 DEF Before

\* LIMIT n keeps all of what is before anything it keeps.
LEMMA EarliestFirst ==
  ASSUME RTypeOK, RowsDated, NEW S \in SUBSET rows, NEW n \in Nat,
         NEW r \in Earliest(S, n), NEW x \in S \ Earliest(S, n)
  PROVE  Before(r, x)
<1> DEFINE Prior(z) == { y \in S : Before(y, z) }
<1>1. r \in S /\ r \in rows /\ x \in rows /\ r # x
  BY DEF Earliest
<1>2. SUFFICES ASSUME Before(x, r) PROVE FALSE
  BY <1>1, InOrder
<1>3. Prior(x) \in SUBSET Prior(r)
  <2>1. \A y \in S : Before(y, x) => Before(y, r)
    BY <1>1, <1>2, InOrder
  <2> QED
    BY <2>1
<1>4. IsFiniteSet(Prior(r))
  BY FS_Subset DEF RowsDated
<1>5. Cardinality(Prior(r)) < n /\ ~ (Cardinality(Prior(x)) < n)
  BY <1>1 DEF Earliest
<1> HIDE DEF Prior
<1>6. /\ Cardinality(Prior(x)) <= Cardinality(Prior(r))
      /\ Cardinality(Prior(x)) \in Nat /\ Cardinality(Prior(r)) \in Nat
  BY <1>3, <1>4, FS_Subset, FS_CardinalityType
<1> QED
  BY <1>5, <1>6

-----------------------------------------------------------------------------
(* The invariant.                                                           *)

LEMMA RInitHolds == RInit => RInv
<1> SUFFICES ASSUME RInit PROVE RInv
  OBVIOUS
<1>1. 0 \in Time /\ BucketOf(0) = 0
  <2>1. BucketOf(0) \in Nat /\ BucketOf(0) <= 0
    BY BucketFacts
  <2> QED
    BY <2>1, ReadSideNumbers DEF Time
<1>2. ExportsTyped
  BY DEF RInit, ExportsTyped, Idle
<1>3. RTypeOK
  BY <1>1, <1>2 DEF RInit, RTypeOK, Idle
<1>4. RowsDated
  BY FS_EmptySet DEF RInit, RowsDated
<1>5. SentFirst
  BY DEF RInit, SentFirst, FirstSent, Idle
<1>6. RefreshOnTime
  BY <1>1, ReadSideNumbers DEF RInit, RefreshOnTime
<1> QED
  BY <1>2, <1>3, <1>4, <1>5, <1>6 DEF RInv

LEMMA ExportKept ==
  ASSUME RInv, NEW e \in Exports, Export(e)
  PROVE  /\ ExportsTyped' /\ SentFirst'
         /\ UNCHANGED <<now, rows, mat, watermark, refreshed, panel>>
<1> DEFINE X == [phase : {"idle", "open", "whole"}, snapshot : SUBSET rows, sent : SUBSET rows]
<1>1. UNCHANGED <<now, rows, mat, watermark, refreshed, panel>>
  BY DEF Export, Begin, Fetch, Ends, Leaves
<1>2. exports \in [Exports -> X] /\ exports[e] \in X /\ SentFirst /\ RTypeOK /\ RowsDated
  BY DEF RInv, ExportsTyped
<1>3. ASSUME NEW new \in X, exports' = [exports EXCEPT ![e] = new], FirstSent(new)
      PROVE  ExportsTyped' /\ SentFirst'
  <2>1. exports' \in [Exports -> X]
        /\ \A d \in Exports : exports'[d] = IF d = e THEN new ELSE exports[d]
    BY <1>2, <1>3
  <2>2. ExportsTyped'
    BY <1>1, <2>1 DEF ExportsTyped
  <2>3. \A d \in Exports : FirstSent(exports'[d])
    BY <1>2, <1>3, <2>1 DEF SentFirst
  <2> QED
    BY <2>2, <2>3 DEF SentFirst, FirstSent, Before
<1>4. CASE Begin(e)
  <2>1. [phase |-> "open", snapshot |-> rows, sent |-> {}] \in X
    OBVIOUS
  <2>2. PICK new : new = [phase |-> "open", snapshot |-> rows, sent |-> {}]
    OBVIOUS
  <2>3. FirstSent(new)
    BY <2>2 DEF FirstSent
  <2> HIDE DEF X
  <2> QED
    BY <1>1, <1>3, <1>4, <2>1, <2>2, <2>3 DEF Begin
<1>5. CASE Fetch(e)
  <2> DEFINE page == Earliest(Unsent(e), Itersize)
  <2>1. /\ exports[e].phase = "open" /\ exports[e].snapshot \subseteq rows
        /\ exports[e].sent \subseteq exports[e].snapshot
        /\ \A r \in exports[e].sent, x \in exports[e].snapshot \ exports[e].sent : Before(r, x)
    BY <1>2, <1>5 DEF Fetch, SentFirst, FirstSent
  <2>2. page \subseteq Unsent(e) /\ Unsent(e) = exports[e].snapshot \ exports[e].sent
    BY DEF Earliest, Unsent
  <2>3. \A r \in page, x \in Unsent(e) \ page : Before(r, x)
    <3>1. Unsent(e) \in SUBSET rows /\ Itersize \in Nat
      BY <2>1, <2>2, ReadSideNumbers
    <3> QED
      BY <1>2, <3>1, EarliestFirst
  <2>4. exports' = [exports EXCEPT ![e] = [exports[e] EXCEPT !.sent = exports[e].sent \cup page]]
    BY <1>2, <1>5 DEF Fetch
  <2> HIDE DEF page
  <2>5. PICK new : new = [phase |-> "open", snapshot |-> exports[e].snapshot, sent |-> exports[e].sent \cup page]
    OBVIOUS
  <2>6. new \in X
    BY <2>1, <2>2, <2>5
  <2>7. new = [exports[e] EXCEPT !.sent = exports[e].sent \cup page]
    <3>1. exports[e] = [phase |-> "open", snapshot |-> exports[e].snapshot, sent |-> exports[e].sent]
      BY <1>2, <2>1
    <3> QED
      BY <2>5, <3>1
  <2>8. exports' = [exports EXCEPT ![e] = new]
    BY <2>4, <2>7, Zenon
  <2>9. FirstSent(new)
    <3>1. \A r \in new.sent, x \in new.snapshot \ new.sent : Before(r, x)
      BY <2>1, <2>2, <2>3, <2>5
    <3> QED
      BY <2>1, <2>2, <2>5, <3>1 DEF FirstSent
  <2> HIDE DEF X
  <2> QED
    BY <1>1, <1>3, <2>6, <2>8, <2>9
<1>6. CASE Ends(e)
  <2>1. exports[e].phase = "open" /\ exports[e].sent = exports[e].snapshot
    BY <1>2, <1>6 DEF Ends, Unsent, SentFirst, FirstSent
  <2>2. PICK new : new = [phase |-> "whole", snapshot |-> exports[e].snapshot, sent |-> exports[e].sent]
    OBVIOUS
  <2>3. new \in X
    BY <1>2, <2>2
  <2>4. exports' = [exports EXCEPT ![e] = [exports[e] EXCEPT !.phase = "whole"]]
    BY <1>2, <1>6 DEF Ends
  <2>5. new = [exports[e] EXCEPT !.phase = "whole"]
    BY <1>2, <2>2
  <2>6. exports' = [exports EXCEPT ![e] = new]
    BY <2>4, <2>5, Zenon
  <2>7. FirstSent(new)
    BY <2>1, <2>2 DEF FirstSent
  <2> HIDE DEF X
  <2> QED
    BY <1>1, <1>3, <2>3, <2>6, <2>7
<1>7. CASE Leaves(e)
  <2>1. Idle \in X /\ FirstSent(Idle)
    BY DEF Idle, FirstSent
  <2> HIDE DEF X
  <2> QED
    BY <1>1, <1>3, <1>7, <2>1 DEF Leaves
<1> QED
  BY <1>1, <1>4, <1>5, <1>6, <1>7 DEF Export

\* What a refresh recomputes.
LEMMA InWindow ==
  ASSUME RInv, NEW r \in rows
  PROVE  BucketOf(r.time) \in Window <=>
           /\ now <= BucketOf(r.time) + StartOffset
           /\ BucketOf(r.time) + Bucket + EndOffset <= now
<1> DEFINE b == BucketOf(r.time)
<1>1. /\ Bucket \in Nat /\ EndOffset \in Nat /\ StartOffset \in Nat /\ now \in Nat
      /\ r.time \in Nat
  <2>1. RTypeOK /\ RowsDated
    BY DEF RInv
  <2> QED
    BY <2>1, RowFacts, ReadSideNumbers
<1>2. b \in Nat /\ BucketOf(b) = b /\ Bucket > 0
  BY <1>1, BucketFacts, ReadSideNumbers
<1>3. b \in Window <=> b \in 0 .. now /\ now - StartOffset <= b /\ b + Bucket <= now - EndOffset
  BY <1>2 DEF Window
<1> HIDE DEF b
<1>4. b \in Window <=> now <= b + StartOffset /\ b + Bucket + EndOffset <= now
  BY <1>1, <1>2, <1>3
<1> QED
  BY <1>4 DEF b

LEMMA RefreshKept ==
  ASSUME RInv, Refresh PROVE RInv'
<1> DEFINE new   == { r \in rows : BucketOf(r.time) \in Window }
           marks == { BucketOf(r.time) + Bucket : r \in new }
<1>1. /\ refreshed < now /\ refreshed' = now /\ mat' = mat \cup new
      /\ watermark' = Max({watermark} \cup marks)
      /\ UNCHANGED <<now, rows, exports, panel>>
  BY DEF Refresh
<1>2. RTypeOK /\ RowsDated /\ ExportsTyped /\ SentFirst /\ RefreshOnTime
  BY DEF RInv
<1>3. /\ Bucket \in Nat \ {0} /\ EndOffset \in Nat /\ Schedule \in Nat \ {0}
      /\ StartOffset \in Nat /\ now \in Nat /\ refreshed \in Nat /\ watermark \in Nat
      /\ now \in Time
  BY <1>2, ReadSideNumbers DEF RTypeOK, Time
<1>4. ASSUME NEW r \in rows
      PROVE  /\ BucketOf(r.time) \in Nat /\ BucketOf(BucketOf(r.time)) = BucketOf(r.time)
             /\ BucketOf(BucketOf(r.time) + Bucket) = BucketOf(r.time) + Bucket
             /\ r.arrived \in Nat /\ r.arrived <= now
  <2>1. r.time \in Nat /\ r.arrived \in Nat /\ r.arrived <= now
    BY <1>2, RowFacts
  <2> QED
    BY <2>1, BucketFacts
<1>5. ASSUME NEW r \in new
      PROVE  r \in rows /\ BucketOf(r.time) + Bucket + EndOffset <= now
  BY <1>5, InWindow
<1>6. /\ watermark' \in Nat /\ BucketOf(watermark') = watermark'
      /\ watermark' = 0 \/ watermark' + EndOffset <= now
  <2>1. IsFiniteSet({watermark} \cup marks)
    <3>1. IsFiniteSet(new)
      BY <1>2, FS_Subset DEF RowsDated
    <3> DEFINE f == [r \in new |-> BucketOf(r.time) + Bucket]
    <3>2. f \in Surjection(new, marks)
      BY DEF Surjection
    <3> HIDE DEF f, new, marks
    <3>3. IsFiniteSet(marks)
      BY <3>1, <3>2, FS_Surjection
    <3>4. IsFiniteSet({watermark})
      BY FS_Singleton
    <3> QED
      BY <3>3, <3>4, FS_Union
  <2>2. ASSUME NEW m \in {watermark} \cup marks
        PROVE  m \in Nat /\ BucketOf(m) = m /\ (m = 0 \/ m + EndOffset <= now)
    <3>1. CASE m = watermark
      BY <1>1, <1>2, <1>3, <3>1 DEF RefreshOnTime
    <3>2. CASE m \in marks
      <4>1. PICK r \in rows : r \in new /\ m = BucketOf(r.time) + Bucket
        BY <3>2
      <4>2. BucketOf(r.time) + Bucket + EndOffset <= now
        BY <1>5, <4>1
      <4> HIDE DEF new
      <4> QED
        BY <1>3, <1>4, <4>1, <4>2
    <3> QED
      BY <2>2, <3>1, <3>2
  <2> HIDE DEF marks
  <2>3. ({watermark} \cup marks) \in SUBSET Int /\ {watermark} \cup marks # {}
    BY <2>2
  <2>4. watermark' \in {watermark} \cup marks
    BY <1>1, <2>1, <2>3, Greatest
  <2> QED
    BY <2>2, <2>4
<1>7. RTypeOK'
  <2>1. mat' \subseteq rows'
    BY <1>1, <1>2 DEF RTypeOK, panel
  <2> QED
    BY <1>1, <1>2, <1>3, <1>6, <2>1 DEF RTypeOK, panel
<1>8. RowsDated' /\ ExportsTyped' /\ SentFirst'
  BY <1>1, <1>2 DEF RowsDated, ExportsTyped, SentFirst, FirstSent, Before
<1>9. RefreshOnTime'
  BY <1>1, <1>3, <1>6 DEF RefreshOnTime, BucketOf
<1> QED
  BY <1>7, <1>8, <1>9 DEF RInv

LEMMA StoreKept ==
  ASSUME RInv, Store PROVE RInv'
<1>1. RTypeOK /\ RowsDated /\ ExportsTyped /\ SentFirst /\ RefreshOnTime
  BY DEF RInv
<1>2. PICK at \in 0 .. now, err \in Errors :
        /\ \A r \in rows : r.at # at
        /\ rows' = rows \cup {[at |-> at, time |-> at + err, arrived |-> now]}
  BY DEF Store
<1>3. UNCHANGED <<now, mat, watermark, refreshed, exports, panel>>
  BY DEF Store
<1>4. now \in Time /\ now \in Nat /\ refreshed \in Nat /\ refreshed <= now
  BY <1>1, ReadSideNumbers DEF RTypeOK, RefreshOnTime, Time
<1>5. PICK x : x = [at |-> at, time |-> at + err, arrived |-> now]
  OBVIOUS
<1>6. rows' = rows \cup {x} /\ x.at = at /\ x.arrived = now /\ x.time = at + err
  BY <1>2, <1>5
<1>7. at \in Nat /\ at <= now /\ at \in Time /\ err \in Nat
  BY <1>4, ReadSideNumbers DEF Time
<1>8. x \in Row
  BY <1>4, <1>5, <1>7 DEF Row, Instant
<1>9. RTypeOK'
  BY <1>1, <1>3, <1>6, <1>8 DEF RTypeOK, panel
<1>10. RowsDated'
  <2>1. IsFiniteSet(rows')
    BY <1>1, <1>6, FS_AddElement DEF RowsDated
  <2>2. \A r \in rows' : r.at <= r.arrived /\ r.arrived <= now' /\ r.time - r.at \in Errors
    <3>1. x.at <= x.arrived /\ x.arrived <= now /\ x.time - x.at \in Errors
      <4>1. (at + err) - at = err
        BY <1>7
      <4> QED
        BY <1>4, <1>6, <1>7, <4>1
    <3> QED
      BY <1>1, <1>3, <1>6, <3>1 DEF RowsDated
  <2>3. \A r, y \in rows' : r.at = y.at => r = y
    BY <1>1, <1>2, <1>6 DEF RowsDated
  <2> QED
    BY <2>1, <2>2, <2>3 DEF RowsDated
<1>11. ExportsTyped'
  BY <1>1, <1>3, <1>6 DEF ExportsTyped
<1>12. SentFirst' /\ RefreshOnTime'
  BY <1>1, <1>3 DEF SentFirst, FirstSent, Before, RefreshOnTime, BucketOf
<1> QED
  BY <1>9, <1>10, <1>11, <1>12 DEF RInv

LEMMA ReadSideKept ==
  ASSUME RInv, [RNext]_rvars PROVE RInv'
<1>1. RTypeOK /\ RowsDated /\ ExportsTyped /\ SentFirst /\ RefreshOnTime
  BY DEF RInv
<1>2. CASE Tick
  <2>1. /\ now < MaxTime /\ now < refreshed + Schedule /\ now' = now + 1
        /\ UNCHANGED <<rows, mat, watermark, refreshed, exports, panel>>
    BY <1>2 DEF Tick
  <2>2. now \in Nat /\ refreshed \in Nat /\ Schedule \in Nat /\ now' \in Time
    BY <1>1, <2>1, ReadSideNumbers DEF RTypeOK, Time
  <2>3. RTypeOK'
    BY <1>1, <2>1, <2>2 DEF RTypeOK, panel
  <2>4. \A r \in rows : r.arrived \in Nat /\ r.arrived <= now
    BY <1>1, RowFacts
  <2>5. RowsDated'
    <3>1. \A r \in rows : r.arrived <= now'
      BY <2>1, <2>2, <2>4
    <3> QED
      BY <1>1, <2>1, <3>1 DEF RowsDated
  <2>6. ExportsTyped' /\ SentFirst'
    BY <1>1, <2>1 DEF ExportsTyped, SentFirst, FirstSent, Before
  <2>7. RefreshOnTime'
    BY <1>1, <2>1, <2>2 DEF RefreshOnTime, BucketOf
  <2> QED
    BY <2>3, <2>5, <2>6, <2>7 DEF RInv
<1>3. CASE Store
  BY <1>3, StoreKept
<1>4. CASE Refresh
  BY <1>4, RefreshKept
<1>5. CASE Panel
  <2>1. UNCHANGED <<now, rows, mat, watermark, refreshed, exports>>
    BY <1>5 DEF Panel, Opens, Poll, SocketEnds, Load, Loaded, LoadFails, data
  <2>2. \A r \in Latest : r.time \in Instant
    BY <1>1, RowFacts DEF Latest
  <2>3. socket' \in {"none", "open", "ended"} /\ {lastSeen', reply', showing'} \subseteq Instant \cup {Never}
    <3>1. CASE Opens \/ SocketEnds
      BY <1>1, <3>1 DEF Opens, SocketEnds, RTypeOK
    <3>2. CASE Poll
      BY <1>1, <2>2, <3>2 DEF Poll, RTypeOK
    <3>3. CASE Load
      BY <1>1, <2>2, <3>3 DEF Load, RTypeOK
    <3>4. CASE Loaded \/ LoadFails
      BY <1>1, <3>4 DEF Loaded, LoadFails, RTypeOK
    <3> QED
      BY <1>5, <3>1, <3>2, <3>3, <3>4 DEF Panel
  <2>4. RTypeOK'
    BY <1>1, <2>1, <2>3 DEF RTypeOK
  <2> QED
    BY <1>1, <2>1, <2>4
    DEF RInv, RowsDated, ExportsTyped, SentFirst, FirstSent, Before, RefreshOnTime, BucketOf
<1>6. ASSUME NEW e \in Exports, Export(e) PROVE RInv'
  <2>1. ExportsTyped' /\ SentFirst'
        /\ UNCHANGED <<now, rows, mat, watermark, refreshed, panel>>
    BY <1>6, ExportKept
  <2>2. RTypeOK'
    BY <1>1, <2>1 DEF RTypeOK, panel, ExportsTyped
  <2>3. RowsDated' /\ RefreshOnTime'
    BY <1>1, <2>1 DEF RowsDated, RefreshOnTime, BucketOf
  <2> QED
    BY <2>1, <2>2, <2>3 DEF RInv
<1>7. CASE UNCHANGED rvars
  BY <1>1, <1>7
  DEF rvars, panel, RInv, RTypeOK, RowsDated, ExportsTyped, SentFirst, FirstSent, Before,
      RefreshOnTime, BucketOf
<1> QED
  BY <1>2, <1>3, <1>4, <1>5, <1>6, <1>7 DEF RNext

LEMMA RecomputedKept ==
  ASSUME RInv, Recomputed, RefreshReaches, [RNext]_rvars PROVE Recomputed'
<1>1. RTypeOK /\ RowsDated /\ RefreshOnTime
  BY DEF RInv
<1>2. /\ Bucket \in Nat /\ EndOffset \in Nat /\ Schedule \in Nat /\ StartOffset \in Nat
      /\ now \in Nat /\ refreshed \in Nat /\ refreshed <= now
  BY <1>1, ReadSideNumbers DEF RTypeOK, Time, RefreshOnTime
<1>3. CASE Refresh
  <2>1. /\ refreshed' = now /\ rows' = rows
        /\ mat' = mat \cup { r \in rows : BucketOf(r.time) \in Window }
    BY <1>3 DEF Refresh
  <2>2. ASSUME NEW r \in rows, InReach(r), now > r.arrived, r \notin mat',
               ~ (now < BucketOf(r.time) + Bucket + EndOffset)
        PROVE  FALSE
    <3> DEFINE b == BucketOf(r.time)
    <3>1. b \in Nat /\ r.arrived \in Nat
      BY <1>1, RowFacts, BucketFacts
    <3>2. r.arrived + Schedule <= b + StartOffset
      BY <2>2 DEF InReach
    <3>3. ~ (b \in Window) /\ (b \in Window <=> now <= b + StartOffset /\ b + Bucket + EndOffset <= now)
      BY <2>1, <2>2, InWindow
    <3>4. now <= refreshed + Schedule
      BY <1>1 DEF RefreshOnTime
    <3>5. refreshed > r.arrived => refreshed < b + Bucket + EndOffset
      BY <2>1, <2>2 DEF Recomputed
    <3>6. ~ (now < b + Bucket + EndOffset)
      BY <2>2
    <3> HIDE DEF b
    <3> QED
      BY <1>2, <3>1, <3>2, <3>3, <3>4, <3>5, <3>6 DEF RefreshReaches
  <2> QED
    BY <2>1, <2>2 DEF Recomputed, InReach, BucketOf
<1>4. CASE Store
  <2>1. PICK at \in 0 .. now, err \in Errors :
          rows' = rows \cup {[at |-> at, time |-> at + err, arrived |-> now]}
    BY <1>4 DEF Store
  <2>2. PICK x : x = [at |-> at, time |-> at + err, arrived |-> now]
    OBVIOUS
  <2>3. rows' = rows \cup {x} /\ x.arrived = now /\ UNCHANGED <<mat, refreshed>>
    BY <1>4, <2>1, <2>2 DEF Store
  <2>4. ~ (refreshed' > x.arrived)
    BY <1>2, <2>3
  <2> QED
    BY <2>3, <2>4 DEF Recomputed, InReach, BucketOf
<1>5. CASE UNCHANGED <<rows, mat, refreshed>>
  BY <1>5 DEF Recomputed, InReach, BucketOf
<1> QED
  BY <1>3, <1>4, <1>5
  DEF RNext, Tick, Panel, Opens, Poll, SocketEnds, Load, Loaded, LoadFails, data, Export,
      Begin, Fetch, Ends, Leaves, rvars

LEMMA RSpecInvariant == RSpec => []RInv
<1>1. RInit => RInv
  BY RInitHolds
<1>2. RInv /\ [RNext]_rvars => RInv'
  BY ReadSideKept
<1> QED
  BY <1>1, <1>2, PTL DEF RSpec

-----------------------------------------------------------------------------
(* What holds of the read side.                                             *)

\* Whatever is stored, refreshed, polled or downloaded, the read side's state keeps its
\* shape: no bucket is computed from a row the table has not, no download sends one.
THEOREM ReadSideTypeCorrect == RSpec => []RTypeOK
<1>1. RInv => RTypeOK
  BY DEF RInv
<1> QED
  BY <1>1, RSpecInvariant, PTL

\* A download that ended is the table as it was when it began, whatever was replayed
\* meanwhile, and one under way is its beginning (queries.py, stream_readings()).
THEOREM DownloadsAreSnapshots == RSpec => []ExportIsSnapshot
<1>1. RInv => ExportIsSnapshot
  BY DEF RInv, SentFirst, FirstSent, ExportIsSnapshot
<1> QED
  BY <1>1, RSpecInvariant, PTL

\* There is a newest row.
LEMMA LatestIsThere ==
  ASSUME RTypeOK, RowsDated, rows # {}
  PROVE  /\ \E r \in rows : r \in Latest
         /\ \A r \in Latest, x \in rows : r \in rows /\ x.time <= r.time
<1> DEFINE After(r) == { x \in rows : Before(r, x) }
           Counts   == { Cardinality(After(r)) : r \in rows }
<1>1. ASSUME NEW r \in rows PROVE IsFiniteSet(After(r)) /\ Cardinality(After(r)) \in Nat
  BY FS_Subset, FS_CardinalityType DEF RowsDated
<1>2. Counts \in SUBSET Nat /\ Counts # {}
  BY <1>1
<1>3. PICK n \in Counts : \A k \in Counts : n <= k
  <2> HIDE DEF Counts
  <2> QED
    BY <1>2, Least
<1>4. PICK r \in rows : n = Cardinality(After(r))
  OBVIOUS
<1>5. ASSUME NEW x \in rows, Before(r, x) PROVE FALSE
  <2>1. After(x) \in SUBSET After(r) /\ x \in After(r) /\ x \notin After(x)
    <3>1. \A y \in rows : Before(x, y) => Before(r, y)
      BY <1>5, InOrder
    <3>2. ~ Before(x, x)
      BY InOrder
    <3> QED
      BY <1>5, <3>1, <3>2
  <2> HIDE DEF After
  <2>2. Cardinality(After(x)) < Cardinality(After(r))
    BY <1>1, <2>1, Smaller
  <2>3. n <= Cardinality(After(x))
    BY <1>3
  <2> QED
    BY <1>1, <1>4, <2>2, <2>3
<1>6. r \in Latest
  BY <1>5 DEF Latest
<1>7. \A l \in Latest, x \in rows : l \in rows /\ x.time <= l.time
  <2>1. \A x \in rows : x.time \in Nat
    BY RowFacts
  <2> QED
    BY <2>1 DEF Latest, Before
<1> QED
  BY <1>6, <1>7

\* A node reports exactly while its own clock says so, give or take the tolerance of a
\* fast clock (app.py, health()).
THEOREM ReportingIsReal == RSpec => []ReportsTheDevice
<1>1. ASSUME RInv PROVE ReportsTheDevice
  <2>1. RTypeOK /\ RowsDated /\ Fresh \in Nat
    BY <1>1, ReadSideNumbers DEF RInv
  <2>2. ASSUME DeviceReporting PROVE \E r \in rows : now - r.at < Fresh + Tolerance
    <3>1. PICK r \in rows : now - r.time < Fresh
      BY <2>2 DEF DeviceReporting, Latest
    <3>2. /\ r.at \in Nat /\ r.time \in Nat /\ now \in Nat /\ Tolerance \in Nat
          /\ r.time - r.at <= Tolerance
      BY <2>1, RowFacts
    <3> QED
      BY <2>1, <3>1, <3>2
  <2>3. ASSUME NEW r \in rows, now - r.at < Fresh PROVE DeviceReporting
    <3>1. PICK l \in rows : l \in Latest /\ r.time <= l.time
      BY <2>1, LatestIsThere
    <3>2. r.at \in Nat /\ r.time \in Nat /\ l.time \in Nat /\ now \in Nat /\ r.at <= r.time
      BY <2>1, RowFacts
    <3>3. now - l.time < Fresh
      BY <2>1, <2>3, <3>1, <3>2
    <3> QED
      BY <3>1, <3>3 DEF DeviceReporting
  <2> QED
    BY <2>2, <2>3 DEF ReportsTheDevice
<1> QED
  BY <1>1, RSpecInvariant, PTL

-----------------------------------------------------------------------------
(* Gaps.                                                                    *)

\* Numbered by f without a number skipped or shared, the first n of a set are n.
LEMMA FirstOfSet ==
  ASSUME NEW S, IsFiniteSet(S), NEW f \in [S -> Nat], NEW n \in Nat, n <= Cardinality(S),
         \A x \in S : f[x] < Cardinality(S), \A x, y \in S : f[x] = f[y] => x = y
  PROVE  Cardinality({ x \in S : f[x] < n }) = n
<1> DEFINE Img    == { f[x] : x \in S }
           Lowest == { x \in S : f[x] < n }
           g      == [x \in Lowest |-> f[x]]
<1>1. Cardinality(S) \in Nat
  BY FS_CardinalityType
<1>2. PICK N \in Nat : N = Cardinality(S)
  BY <1>1
<1>3. /\ IsFiniteSet(0 .. (N - 1)) /\ Cardinality(0 .. (N - 1)) = N
      /\ Cardinality(0 .. (n - 1)) = n
  <2>1. 0 \in Int /\ N - 1 \in Int /\ n - 1 \in Int
    OBVIOUS
  <2>2. /\ IsFiniteSet(0 .. (N - 1))
        /\ Cardinality(0 .. (N - 1)) = IF 0 > N - 1 THEN 0 ELSE (N - 1) - 0 + 1
        /\ Cardinality(0 .. (n - 1)) = IF 0 > n - 1 THEN 0 ELSE (n - 1) - 0 + 1
    BY <2>1, FS_Interval
  <2> QED
    BY <2>2
<1>4. f \in Bijection(S, Img)
  BY DEF Bijection, Injection, Surjection, IsInjective
<1>5. Img \subseteq 0 .. (N - 1)
  BY <1>2
<1>6. Cardinality(Img) = N
  <2> HIDE DEF Img
  <2> QED
    BY <1>2, <1>4, FS_Bijection DEF ExistsBijection
<1>7. Img = 0 .. (N - 1)
  <2> HIDE DEF Img
  <2> QED
    BY <1>3, <1>5, <1>6, FS_Subset
<1>8. g \in Bijection(Lowest, 0 .. (n - 1))
  <2>1. g \in [Lowest -> 0 .. (n - 1)]
    OBVIOUS
  <2>2. \A k \in 0 .. (n - 1) : \E x \in Lowest : g[x] = k
    <3> SUFFICES ASSUME NEW k \in 0 .. (n - 1) PROVE \E x \in Lowest : g[x] = k
      OBVIOUS
    <3>1. k \in Img
      BY <1>2, <1>7
    <3>2. PICK x \in S : f[x] = k
      BY <3>1
    <3> QED
      BY <3>2
  <2>3. \A x, y \in Lowest : g[x] = g[y] => x = y
    OBVIOUS
  <2> HIDE DEF g, Lowest
  <2> QED
    BY <2>1, <2>2, <2>3 DEF Bijection, Injection, Surjection, IsInjective
<1>9. IsFiniteSet(Lowest)
  BY FS_Subset
<1> HIDE DEF g, Lowest
<1>10. Cardinality(Lowest) = Cardinality(0 .. (n - 1))
  BY <1>8, <1>9, FS_Bijection DEF ExistsBijection
<1> QED
  BY <1>3, <1>10 DEF Lowest

SeenTimes == { r.time : r \in Seen }

Long == { g \in Edges : g.to - g.from > GapLimit }

LaterThan(g) == { h \in Long : h.to > g.to }

LEMMA SeenFacts ==
  ASSUME RInv
  PROVE  /\ SeenTimes \in SUBSET Int /\ IsFiniteSet(SeenTimes) /\ now \in Nat /\ Day \in Nat
         /\ GapLimit \in Nat /\ \A t \in SeenTimes : t > now - Day
         /\ \A r \in rows : r.time \in Nat /\ (r.time > now - Day => r.time \in SeenTimes)
         /\ Gaps = { g \in Long : Cardinality(LaterThan(g)) < MaxGaps }
<1>1. RTypeOK /\ RowsDated
  BY DEF RInv
<1>2. now \in Nat /\ Day \in Nat /\ GapLimit \in Nat
  BY <1>1, ReadSideNumbers DEF RTypeOK, Time
<1>3. \A r \in rows : r.time \in Nat
  BY <1>1, RowFacts
<1>4. IsFiniteSet(SeenTimes)
  <2>1. IsFiniteSet(Seen)
    BY <1>1, FS_Subset DEF RowsDated, Seen
  <2> DEFINE f == [r \in Seen |-> r.time]
  <2>2. f \in Surjection(Seen, SeenTimes)
    BY DEF Surjection, SeenTimes
  <2> HIDE DEF f
  <2> QED
    BY <2>1, <2>2, FS_Surjection
<1>5. Gaps = { g \in Long : Cardinality(LaterThan(g)) < MaxGaps }
  BY DEF Gaps, Long, LaterThan
<1> QED
  BY <1>2, <1>3, <1>4, <1>5 DEF SeenTimes, Seen

\* An edge joins two readings of the day that follow each other, or one with the day's own.
LEMMA LongFacts ==
  ASSUME RInv, NEW g \in Long
  PROVE  /\ g \in [from : Int, to : Int] /\ g.to - g.from > GapLimit /\ now - Day <= g.from
         /\ g.from \in SeenTimes \cup {now - Day}
         /\ g.to \in SeenTimes \/ (g.to = now /\ \A t \in SeenTimes : t <= g.from)
         /\ \A t \in SeenTimes : ~ (g.from < t /\ t < g.to)
<1>1. /\ SeenTimes \in SUBSET Int /\ IsFiniteSet(SeenTimes) /\ now \in Nat /\ Day \in Nat
      /\ \A t \in SeenTimes : t > now - Day
  BY SeenFacts
<1>2. g \in Edges /\ g.to - g.from > GapLimit
  BY DEF Long
<1>3. CASE g \in Lag
  <2>1. g \in [from : SeenTimes, to : SeenTimes]
        /\ ~ \E t \in SeenTimes : g.from < t /\ t < g.to
    BY <1>3 DEF Lag, SeenTimes
  <2>2. g.from \in SeenTimes /\ g.to \in SeenTimes /\ g \in [from : Int, to : Int]
    BY <1>1, <2>1
  <2>3. now - Day <= g.from
    BY <1>1, <2>2
  <2> QED
    BY <1>2, <2>1, <2>2, <2>3
<1>4. CASE g \notin Lag
  <2>1. SeenTimes # {}
    BY <1>2, <1>4 DEF Edges, SeenTimes
  <2>2. PICK lo \in SeenTimes, hi \in SeenTimes :
          /\ lo = Min(SeenTimes) /\ \A t \in SeenTimes : lo <= t
          /\ hi = Max(SeenTimes) /\ \A t \in SeenTimes : t <= hi
    BY <1>1, <2>1, Greatest, LeastOf
  <2>3. g \in {[from |-> now - Day, to |-> lo], [from |-> hi, to |-> now]}
    BY <1>2, <1>4, <2>2 DEF Edges, SeenTimes
  <2>4. lo \in Int /\ hi \in Int /\ now - Day \in Int
        /\ \A t \in SeenTimes : ~ (t < lo) /\ ~ (hi < t)
    BY <1>1, <2>2
  <2>5. CASE g = [from |-> now - Day, to |-> lo]
    <3>1. g.from = now - Day /\ g.to = lo /\ g \in [from : Int, to : Int]
      BY <2>4, <2>5
    <3> QED
      BY <1>1, <1>2, <2>2, <2>4, <3>1
  <2>6. CASE g = [from |-> hi, to |-> now]
    <3>1. g.from = hi /\ g.to = now /\ g \in [from : Int, to : Int]
      BY <1>1, <2>4, <2>6
    <3>2. now - Day <= hi
      BY <1>1, <2>2, <2>4
    <3> QED
      BY <1>1, <1>2, <2>2, <2>4, <3>1, <3>2
  <2> QED
    BY <2>3, <2>5, <2>6
<1> QED
  BY <1>3, <1>4

\* Of two of them one ends before the other begins.
LEMMA LongApart ==
  ASSUME RInv, NEW g \in Long, NEW h \in Long
  PROVE  (g.to < h.to => g.to <= h.from) /\ (g.to = h.to => g = h)
<1>1. SeenTimes \in SUBSET Int /\ now \in Nat /\ Day \in Nat /\ GapLimit \in Nat
  BY SeenFacts
<1>2. /\ g \in [from : Int, to : Int] /\ g.to - g.from > GapLimit /\ now - Day <= g.from
      /\ g.from \in SeenTimes \cup {now - Day}
      /\ g.to \in SeenTimes \/ (g.to = now /\ \A t \in SeenTimes : t <= g.from)
      /\ \A t \in SeenTimes : ~ (g.from < t /\ t < g.to)
  BY LongFacts
<1>3. /\ h \in [from : Int, to : Int] /\ h.to - h.from > GapLimit /\ now - Day <= h.from
      /\ h.from \in SeenTimes \cup {now - Day}
      /\ h.to \in SeenTimes \/ (h.to = now /\ \A t \in SeenTimes : t <= h.from)
      /\ \A t \in SeenTimes : ~ (h.from < t /\ t < h.to)
  BY LongFacts
<1>4. g.from \in Int /\ g.to \in Int /\ h.from \in Int /\ h.to \in Int
  BY <1>2, <1>3
<1>5. ASSUME g.to < h.to PROVE g.to <= h.from
  <2>1. CASE g.to \in SeenTimes
    BY <1>3, <1>4, <1>5, <2>1
  <2>2. CASE g.to = now /\ \A t \in SeenTimes : t <= g.from
    BY <1>1, <1>2, <1>3, <1>4, <1>5, <2>2
  <2> QED
    BY <1>2, <2>1, <2>2
<1>6. ASSUME g.to = h.to PROVE g = h
  <2>1. ~ (g.from < h.from)
    BY <1>1, <1>2, <1>3, <1>4, <1>6
  <2>2. ~ (h.from < g.from)
    BY <1>1, <1>2, <1>3, <1>4, <1>6
  <2>3. g.from = h.from
    BY <1>4, <2>1, <2>2
  <2> QED
    BY <1>2, <1>3, <1>6, <2>3
<1> QED
  BY <1>5, <1>6

LEMMA LaterThanFacts ==
  ASSUME RInv
  PROVE  /\ IsFiniteSet(Long) /\ Cardinality(Long) \in Nat
         /\ \A g \in Long : Cardinality(LaterThan(g)) \in Nat
                            /\ Cardinality(LaterThan(g)) < Cardinality(Long)
         /\ \A g, h \in Long :
              g.to < h.to => Cardinality(LaterThan(h)) < Cardinality(LaterThan(g))
<1>1. IsFiniteSet(Long)
  <2> DEFINE f    == [g \in Long |-> g.to]
             Tos  == SeenTimes \cup {now}
  <2>1. IsFiniteSet(Tos)
    BY SeenFacts, FS_AddElement
  <2>2. f \in [Long -> Tos]
    BY LongFacts
  <2>3. \A g, h \in Long : f[g] = f[h] => g = h
    BY LongApart
  <2> HIDE DEF f, Tos
  <2>4. f \in Injection(Long, Tos)
    BY <2>2, <2>3 DEF Injection, IsInjective
  <2> QED
    BY <2>1, <2>4, FS_Injection
<1>2. ASSUME NEW g \in Long
      PROVE  /\ IsFiniteSet(LaterThan(g)) /\ Cardinality(LaterThan(g)) \in Nat
             /\ Cardinality(LaterThan(g)) < Cardinality(Long)
  <2>1. LaterThan(g) \in SUBSET Long /\ g \notin LaterThan(g)
    <3>1. g.to \in Int
      BY LongFacts
    <3>2. ~ (g.to > g.to)
      BY <3>1
    <3> QED
      BY <3>2 DEF LaterThan
  <2> QED
    BY <1>1, <2>1, FS_Subset, Smaller
<1>3. ASSUME NEW g \in Long, NEW h \in Long, g.to < h.to
      PROVE  Cardinality(LaterThan(h)) < Cardinality(LaterThan(g))
  <2>1. \A k \in Long : k.to \in Int
    BY LongFacts
  <2>2. LaterThan(h) \in SUBSET LaterThan(g) /\ h \in LaterThan(g) /\ h \notin LaterThan(h)
    BY <1>3, <2>1 DEF LaterThan
  <2> QED
    BY <1>2, <2>2, Smaller
<1> QED
  BY <1>1, <1>2, <1>3, FS_CardinalityType

\* A silence of the day lies in an edge.
LEMMA SilenceIsLong ==
  ASSUME RInv, Seen # {}, NEW a \in now - Day .. now, NEW b \in now - Day .. now,
         b - a > GapLimit, Silent(a, b)
  PROVE  \E g \in Long : g.from <= a /\ b <= g.to
<1> DEFINE before == { t \in SeenTimes : t <= a }
           after  == { t \in SeenTimes : b <= t }
<1>1. /\ SeenTimes \in SUBSET Int /\ IsFiniteSet(SeenTimes) /\ now \in Nat /\ Day \in Nat
      /\ GapLimit \in Nat /\ \A t \in SeenTimes : t > now - Day
  BY SeenFacts
<1>2. SeenTimes # {}
  BY DEF SeenTimes
<1>3. a \in Int /\ b \in Int /\ now - Day <= a /\ b <= now
  BY <1>1
<1>4. \A t \in SeenTimes : t \in before \/ t \in after
  <2>1. \A t \in SeenTimes : ~ (a < t /\ t < b)
    BY DEF Silent, SeenTimes, Seen
  <2> QED
    BY <1>1, <1>3, <2>1
<1>5. IsFiniteSet(before) /\ IsFiniteSet(after)
  BY <1>1, FS_Subset
<1>6. before \in SUBSET Int /\ after \in SUBSET Int
  BY <1>1
<1>7. CASE before = {}
  <2>1. Min(SeenTimes) \in SeenTimes
    BY <1>1, <1>2, LeastOf
  <2>2. b <= Min(SeenTimes) /\ Min(SeenTimes) \in Int
    BY <1>1, <1>4, <1>7, <2>1
  <2>3. PICK g : g = [from |-> now - Day, to |-> Min(SeenTimes)]
    OBVIOUS
  <2>4. g \in Edges
    BY <1>2, <2>3 DEF Edges, SeenTimes
  <2>5. g.from <= a /\ b <= g.to /\ g.to - g.from > GapLimit
    BY <1>1, <1>3, <2>2, <2>3
  <2> QED
    BY <2>4, <2>5 DEF Long
<1>8. CASE after = {}
  <2>1. Max(SeenTimes) \in SeenTimes
    BY <1>1, <1>2, Greatest
  <2>2. Max(SeenTimes) <= a /\ Max(SeenTimes) \in Int
    BY <1>1, <1>4, <1>8, <2>1
  <2>3. PICK g : g = [from |-> Max(SeenTimes), to |-> now]
    OBVIOUS
  <2>4. g \in Edges
    BY <1>2, <2>3 DEF Edges, SeenTimes
  <2>5. g.from <= a /\ b <= g.to /\ g.to - g.from > GapLimit
    BY <1>1, <1>3, <2>2, <2>3
  <2> QED
    BY <2>4, <2>5 DEF Long
<1>9. CASE before # {} /\ after # {}
  <2> HIDE DEF before, after
  <2>1. /\ Max(before) \in before /\ \A t \in before : t <= Max(before)
        /\ Min(after) \in after /\ \A t \in after : Min(after) <= t
    BY <1>5, <1>6, <1>9, Greatest, LeastOf
  <2>2. PICK x \in SeenTimes, y \in SeenTimes :
          /\ x <= a /\ b <= y
          /\ \A t \in before : t <= x
          /\ \A t \in after : y <= t
    BY <2>1 DEF before, after
  <2>3. PICK g : g = [from |-> x, to |-> y]
    OBVIOUS
  <2>4. x \in Int /\ y \in Int /\ x < y
    BY <1>1, <1>3, <2>2
  <2>5. g \in Lag
    <3>1. ~ \E t \in SeenTimes : x < t /\ t < y
      BY <1>1, <1>4, <2>2, <2>4
    <3> QED
      BY <2>2, <2>3, <2>4, <3>1 DEF Lag, SeenTimes
  <2>6. g.from <= a /\ b <= g.to /\ g.to - g.from > GapLimit
    BY <1>1, <1>3, <2>2, <2>3, <2>4
  <2> QED
    BY <2>5, <2>6 DEF Long, Edges
<1> QED
  BY <1>7, <1>8, <1>9

\* The gaps told are silences and, the latest MaxGaps of them, all there are
\* (queries.py, device_health()).
THEOREM GapsAreTold == RSpec => []GapsAreSilences
<1>1. ASSUME RInv, Seen # {} , NEW g \in Gaps
      PROVE  Silent(g.from, g.to) /\ g.to - g.from > GapLimit
  <2>1. /\ g \in Long /\ now \in Nat /\ Day \in Nat
        /\ \A r \in rows : r.time \in Nat /\ (r.time > now - Day => r.time \in SeenTimes)
    BY <1>1, SeenFacts
  <2>2. /\ g.from \in Int /\ g.to - g.from > GapLimit /\ now - Day <= g.from
        /\ \A t \in SeenTimes : ~ (g.from < t /\ t < g.to)
    BY <1>1, <2>1, LongFacts
  <2> QED
    BY <2>1, <2>2 DEF Silent
<1>2. ASSUME RInv, Seen # {}, NEW a \in now - Day .. now, NEW b \in now - Day .. now,
             b - a > GapLimit, Silent(a, b), ~ \E g \in Gaps : g.from <= a /\ b <= g.to
      PROVE  Cardinality(Gaps) = MaxGaps /\ \A g \in Gaps : g.from >= b
  <2>1. PICK g \in Long : g.from <= a /\ b <= g.to
    BY <1>2, SilenceIsLong
  <2>2. Gaps = { h \in Long : Cardinality(LaterThan(h)) < MaxGaps }
        /\ MaxGaps \in Nat /\ now \in Nat /\ Day \in Nat
    BY <1>2, SeenFacts, ReadSideNumbers
  <2>3. /\ IsFiniteSet(Long) /\ Cardinality(Long) \in Nat
        /\ \A h \in Long : Cardinality(LaterThan(h)) \in Nat
                           /\ Cardinality(LaterThan(h)) < Cardinality(Long)
        /\ \A h, k \in Long :
             h.to < k.to => Cardinality(LaterThan(k)) < Cardinality(LaterThan(h))
    BY <1>2, LaterThanFacts
  <2>4. ~ (Cardinality(LaterThan(g)) < MaxGaps)
    BY <1>2, <2>1, <2>2
  <2>5. ASSUME NEW h \in Gaps PROVE h.from >= b
    <3>1. h \in Long /\ Cardinality(LaterThan(h)) < MaxGaps
      BY <2>2
    <3>2. g.to \in Int /\ h.to \in Int /\ h.from \in Int
      BY <1>2, <2>1, <3>1, LongFacts
    <3>3. ~ (h.to < g.to) /\ h.to # g.to
      <4>1. Cardinality(LaterThan(h)) < Cardinality(LaterThan(g))
        BY <2>1, <2>2, <2>3, <2>4, <3>1
      <4>2. h.to = g.to => h = g
        BY <1>2, <2>1, <3>1, LongApart
      <4> QED
        BY <2>1, <2>3, <2>4, <3>1, <4>1, <4>2
    <3>4. g.to <= h.from
      <4>1. g.to < h.to
        BY <3>2, <3>3
      <4> QED
        BY <1>2, <2>1, <3>1, <4>1, LongApart
    <3> QED
      BY <2>1, <2>2, <3>2, <3>4
  <2>6. Cardinality(Gaps) = MaxGaps
    <3> DEFINE f == [h \in Long |-> Cardinality(LaterThan(h))]
    <3>1. f \in [Long -> Nat] /\ \A h \in Long : f[h] < Cardinality(Long)
      BY <2>3
    <3>2. MaxGaps <= Cardinality(Long)
      BY <2>1, <2>2, <2>3, <2>4
    <3>3. ASSUME NEW h \in Long, NEW k \in Long, f[h] = f[k] PROVE h = k
      <4>1. h.to \in Int /\ k.to \in Int
        BY <1>2, LongFacts
      <4>2. ~ (h.to < k.to) /\ ~ (k.to < h.to)
        BY <2>3, <3>3
      <4>3. h.to = k.to
        BY <4>1, <4>2
      <4> QED
        BY <1>2, <4>3, LongApart
    <3>4. Gaps = { h \in Long : f[h] < MaxGaps }
      BY <2>2
    <3> HIDE DEF f
    <3>5. Cardinality({ h \in Long : f[h] < MaxGaps }) = MaxGaps
      BY <2>2, <2>3, <3>1, <3>2, <3>3, FirstOfSet
    <3> QED
      BY <3>4, <3>5
  <2> QED
    BY <2>5, <2>6
<1>3. RInv => GapsAreSilences
  BY <1>1, <1>2 DEF GapsAreSilences
<1> QED
  BY <1>3, RSpecInvariant, PTL

-----------------------------------------------------------------------------
(* Charts.                                                                  *)

\* A chart of the rows themselves misses only what comes after its last point.
LEMMA RawIsWhole ==
  ASSUME RInv, NEW start, NEW end, IsRaw(start, end), NEW r \in rows,
         start <= r.time, r.time < end, r \notin Series(start, end).rows
  PROVE  Series(start, end).truncated /\ \A x \in Series(start, end).rows : x.time <= r.time
<1> DEFINE within == { x \in rows : start <= x.time /\ x.time < end }
           prior  == { x \in within : Before(x, r) }
<1>1. RTypeOK /\ RowsDated /\ MaxPoints \in Nat
  BY ReadSideNumbers DEF RInv
<1>2. Series(start, end) = [rows |-> Earliest(within, MaxPoints), truncated |-> Cardinality(within) > MaxPoints]
  BY DEF Series
<1>3. r \in within \ Earliest(within, MaxPoints) /\ within \in SUBSET rows
  BY <1>2
<1>4. Cardinality(within) > MaxPoints
  <2>1. IsFiniteSet(within)
    BY <1>1, FS_Subset DEF RowsDated
  <2>2. ~ (Cardinality(prior) < MaxPoints)
    BY <1>3 DEF Earliest
  <2>3. r \notin prior /\ prior \in SUBSET within
    BY <1>1, InOrder
  <2> HIDE DEF prior, within
  <2>4. /\ Cardinality(prior) < Cardinality(within)
        /\ Cardinality(prior) \in Nat /\ Cardinality(within) \in Nat
    BY <1>3, <2>1, <2>3, Smaller
  <2> QED
    BY <1>1, <2>2, <2>4
<1>5. ASSUME NEW x \in Earliest(within, MaxPoints) PROVE x.time <= r.time
  <2>1. x \in rows
    BY <1>3 DEF Earliest
  <2>2. Before(x, r)
    <3> HIDE DEF within
    <3> QED
      BY <1>1, <1>3, <1>5, EarliestFirst
  <2>3. x.time \in Nat /\ r.time \in Nat
    BY <1>1, <2>1, RowFacts
  <2> QED
    BY <2>2, <2>3 DEF Before
<1> HIDE DEF within
<1>6. /\ Series(start, end).rows = Earliest(within, MaxPoints)
      /\ Series(start, end).truncated = (Cardinality(within) > MaxPoints)
  BY <1>2
<1> QED
  BY <1>4, <1>5, <1>6

\* One of buckets misses besides what lies before its first bucket.
LEMMA BucketedIsWhole ==
  ASSUME RInv, NEW start \in Nat, NEW end \in Nat, ~ IsRaw(start, end), NEW r \in rows, Visible(r),
         start <= BucketOf(r.time), r.time < end, r \notin Series(start, end).rows
  PROVE  Series(start, end).truncated /\ \A x \in Series(start, end).rows : x.time <= r.time
<1> DEFINE buckets == { BucketOf(x.time) : x \in { y \in rows : Visible(y) } } \cap start .. end - 1
           less(b) == { c \in buckets : c < b }
           kept    == { b \in buckets : Cardinality(less(b)) < MaxPoints }
<1>1. RTypeOK /\ RowsDated /\ MaxPoints \in Nat
  BY ReadSideNumbers DEF RInv
<1>2. Series(start, end) = [rows |-> { x \in rows : Visible(x) /\ BucketOf(x.time) \in kept },
                            truncated |-> Cardinality(buckets) > MaxPoints]
  BY DEF Series
<1>3. \A x \in rows : x.time \in Nat /\ BucketOf(x.time) \in Nat /\ BucketOf(x.time) <= x.time
  BY <1>1, RowFacts, BucketFacts
<1>4. IsFiniteSet(buckets) /\ buckets \in SUBSET Int
  <2>1. IsFiniteSet(start .. end - 1)
    BY FS_Interval
  <2> QED
    BY <2>1, FS_Subset
<1>5. PICK b \in buckets : b = BucketOf(r.time) /\ b \notin kept
  <2>1. BucketOf(r.time) \in start .. end - 1
    BY <1>3
  <2> QED
    BY <1>2, <2>1
<1>6. b \in Int /\ ~ (Cardinality(less(b)) < MaxPoints)
  BY <1>4, <1>5
<1>7. IsFiniteSet(less(b)) /\ Cardinality(less(b)) \in Nat /\ Cardinality(less(b)) < Cardinality(buckets)
      /\ Cardinality(buckets) \in Nat
  <2>1. less(b) \in SUBSET buckets /\ b \notin less(b)
    BY <1>6
  <2> HIDE DEF less, buckets
  <2> QED
    BY <1>4, <1>5, <2>1, FS_Subset, Smaller
<1>8. Cardinality(buckets) > MaxPoints
  <2> HIDE DEF less, buckets
  <2> QED
    BY <1>1, <1>6, <1>7
<1>9. ASSUME NEW x \in rows, BucketOf(x.time) \in kept PROVE x.time <= r.time
  <2>1. PICK c \in buckets : c = BucketOf(x.time) /\ Cardinality(less(c)) < MaxPoints
    BY <1>9
  <2>2. c \in Int /\ x.time \in Nat /\ r.time \in Nat
    BY <1>3, <1>4
  <2>3. c < b
    <3>1. ASSUME b <= c PROVE FALSE
      <4>1. less(b) \in SUBSET less(c) /\ IsFiniteSet(less(c))
        <5>1. \A y \in buckets : y < b => y < c
          BY <1>4, <1>6, <2>2, <3>1
        <5>2. less(c) \in SUBSET buckets
          OBVIOUS
        <5> HIDE DEF buckets
        <5> QED
          BY <1>4, <5>1, <5>2, FS_Subset
      <4> HIDE DEF less
      <4>2. Cardinality(less(b)) <= Cardinality(less(c)) /\ Cardinality(less(c)) \in Nat
        BY <4>1, FS_Subset, FS_CardinalityType
      <4> QED
        BY <1>1, <1>6, <1>7, <2>1, <4>2
    <3> QED
      BY <1>6, <2>2, <3>1
  <2>4. ~ (r.time <= x.time)
    <3>1. r.time <= x.time => BucketOf(r.time) <= BucketOf(x.time)
      BY <2>2, BucketsInOrder
    <3> QED
      BY <1>5, <1>6, <2>1, <2>2, <2>3, <3>1
  <2> QED
    BY <2>2, <2>4
<1> HIDE DEF kept, buckets
<1>10. /\ Series(start, end).rows = { x \in rows : Visible(x) /\ BucketOf(x.time) \in kept }
       /\ Series(start, end).truncated = (Cardinality(buckets) > MaxPoints)
  BY <1>2
<1> QED
  BY <1>8, <1>9, <1>10

\* What is not visible came too late, or only now.
LEMMA HiddenIsRecent ==
  ASSUME RInv, Recomputed, NEW r \in rows, ~ Visible(r), InReach(r)
  PROVE  now - r.arrived <= Schedule
<1> DEFINE b == BucketOf(r.time)
<1>1. RTypeOK /\ RowsDated /\ RefreshOnTime
  BY DEF RInv
<1>2. /\ r.time \in Nat /\ r.arrived \in Nat /\ now \in Nat /\ refreshed \in Nat
      /\ watermark \in Nat /\ Schedule \in Nat /\ EndOffset \in Nat /\ Bucket \in Nat
  BY <1>1, RowFacts, ReadSideNumbers DEF RTypeOK
<1>3. SUFFICES ASSUME ~ (now - r.arrived <= Schedule) PROVE FALSE
  OBVIOUS
<1>4. b \in Nat /\ (BucketOf(watermark) = watermark /\ watermark < b + Bucket => watermark <= b)
  BY <1>2, BucketFacts
<1>5. b < watermark /\ r \notin mat
  BY DEF Visible
<1>6. /\ refreshed <= now /\ now <= refreshed + Schedule /\ BucketOf(watermark) = watermark
      /\ watermark = 0 \/ watermark + EndOffset <= refreshed
  BY <1>1 DEF RefreshOnTime
<1>7. refreshed > r.arrived => refreshed < b + Bucket + EndOffset
  BY <1>5 DEF Recomputed
<1> HIDE DEF b
<1>8. refreshed > r.arrived
  BY <1>2, <1>3, <1>6
<1> QED
  BY <1>2, <1>4, <1>5, <1>6, <1>7, <1>8

\* Where the refresh reaches every bucket, no reading that had the time to be recomputed
\* is missing from a chart without the chart saying so (queries.py, series()).
THEOREM ChartsAreWhole ==
  ASSUME RefreshReaches PROVE RSpec => []ChartIsWhole
<1>1. ASSUME RInv, Recomputed PROVE ChartIsWhole
  <2>1. ASSUME NEW start \in Instant, NEW end \in Instant, start < end, NEW r \in rows,
               start <= r.time, r.time < end, r \notin Series(start, end).rows
        PROVE  \/ Series(start, end).truncated /\ \A x \in Series(start, end).rows : x.time <= r.time
               \/ /\ ~ IsRaw(start, end)
                  /\ BucketOf(r.time) < start \/ ~ InReach(r) \/ now - r.arrived <= Schedule
    <3>1. start \in Nat /\ end \in Nat
      BY InstantsAreNat
    <3>2. CASE IsRaw(start, end)
      BY <1>1, <2>1, <3>2, RawIsWhole
    <3>3. CASE ~ IsRaw(start, end) /\ Visible(r) /\ start <= BucketOf(r.time)
      BY <1>1, <2>1, <3>1, <3>3, BucketedIsWhole
    <3>4. CASE ~ IsRaw(start, end) /\ ~ Visible(r)
      BY <1>1, <3>4, HiddenIsRecent
    <3>5. start <= BucketOf(r.time) \/ BucketOf(r.time) < start
      <4>1. BucketOf(r.time) \in Nat
        BY <1>1, RowFacts, BucketFacts DEF RInv
      <4> QED
        BY <3>1, <4>1
    <3> QED
      BY <3>2, <3>3, <3>4, <3>5
  <2> QED
    BY <2>1 DEF ChartIsWhole, Whole
<1>2. RInit => Recomputed
  BY DEF RInit, Recomputed
<1>3. RInv /\ Recomputed /\ [RNext]_rvars => Recomputed'
  BY RecomputedKept
<1> QED
  BY <1>1, <1>2, <1>3, RSpecInvariant, PTL DEF RSpec

=============================================================================
