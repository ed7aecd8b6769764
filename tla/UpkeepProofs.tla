----------------------------- MODULE UpkeepProofs -----------------------------
(***************************************************************************)
(* Proofs about a node looked after, for any credentials, chunks, builds,  *)
(* labels and numbers of faults, restarts, releases and downloads.         *)
(*                                                                         *)
(* The tool's script is read through Cur, the slot a command belongs to,   *)
(* counted from 1; once the commands of a slot are done with, Cur is the   *)
(* next.                                                                   *)
(*                                                                         *)
(* At the end, about the first boot of a new firmware over an old ring.    *)
(***************************************************************************)
EXTENDS NodeUpkeep, RingMigration, TLAPS

-----------------------------------------------------------------------------
(* The script.                                                             *)

per == Chunks + 2

Cur(k) == IF k = 1 THEN 1 ELSE 1 + ((k - 2) \div per)

\* The place of a command among those of its slot.
Off(k) == (k - 2) % per

OfSlot(s) == <<[op |-> "BEGIN", slot |-> s, n |-> 0]>>
               \o [n \in 1 .. Chunks |-> [op |-> "C", slot |-> s, n |-> n]]
               \o <<[op |-> "END", slot |-> s, n |-> 0]>>

LEMMA OfSlotIs ==
  ASSUME NEW s
  PROVE  /\ Len(OfSlot(s)) = per
         /\ OfSlot(s)[1] = [op |-> "BEGIN", slot |-> s, n |-> 0]
         /\ \A n \in 1 .. Chunks : OfSlot(s)[n + 1] = [op |-> "C", slot |-> s, n |-> n]
         /\ OfSlot(s)[per] = [op |-> "END", slot |-> s, n |-> 0]
<1>1. Chunks \in Nat \ {0}
  BY ProvisioningAssumption
<1> DEFINE chunks == [n \in 1 .. Chunks |-> [op |-> "C", slot |-> s, n |-> n]]
           begin == <<[op |-> "BEGIN", slot |-> s, n |-> 0]>>
           end == <<[op |-> "END", slot |-> s, n |-> 0]>>
           Any == {[op |-> "BEGIN", slot |-> s, n |-> 0], [op |-> "END", slot |-> s, n |-> 0]}
                    \cup { chunks[n] : n \in 1 .. Chunks }
<1>2. /\ chunks \in Seq(Any) /\ Len(chunks) = Chunks
      /\ begin \in Seq(Any) /\ Len(begin) = 1 /\ end \in Seq(Any) /\ Len(end) = 1
  BY SMTT(30), <1>1
<1> HIDE DEF chunks, Any
<1>3. /\ begin \o chunks \in Seq(Any) /\ Len(begin \o chunks) = Chunks + 1
      /\ (begin \o chunks)[1] = begin[1]
      /\ \A n \in 1 .. Chunks : (begin \o chunks)[n + 1] = chunks[n]
  BY <1>1, <1>2
<1>4. /\ Len((begin \o chunks) \o end) = Chunks + 2
      /\ \A n \in 1 .. Chunks + 1 : ((begin \o chunks) \o end)[n] = (begin \o chunks)[n]
      /\ ((begin \o chunks) \o end)[Chunks + 2] = end[1]
  BY <1>1, <1>2, <1>3
<1>5. OfSlot(s) = (begin \o chunks) \o end
  BY DEF OfSlot, chunks
<1>6. \A n \in 1 .. Chunks : chunks[n] = [op |-> "C", slot |-> s, n |-> n]
  BY DEF chunks
<1> QED
  BY <1>1, <1>3, <1>4, <1>5, <1>6 DEF per

\* Division by the length of a slot's commands.
LEMMA DivPer ==
  ASSUME NEW x \in Nat
  PROVE  /\ x \div per \in Nat /\ x % per \in 0 .. per - 1
         /\ x = per * (x \div per) + (x % per)
<1>1. per \in Nat /\ per > 0
  BY ProvisioningAssumption DEF per
<1> QED
  BY <1>1

LEMMA DivUnique ==
  ASSUME NEW q \in Nat, NEW r \in 0 .. per - 1, NEW x \in Nat, x = per * q + r
  PROVE  x \div per = q /\ x % per = r
<1>1. per \in Nat /\ per > 0
  BY ProvisioningAssumption DEF per
<1> DEFINE d == x \div per
           m == x % per
<1>2. d \in Nat /\ m \in 0 .. per - 1 /\ x = per * d + m
  BY DivPer
<1> HIDE DEF d, m
<1>3. ~ (d < q)
  <2>1. SUFFICES ASSUME d < q PROVE FALSE
    OBVIOUS
  <2>2. PICK e \in Nat : q = d + 1 + e
    <3>1. q - d - 1 \in Nat /\ q = d + 1 + (q - d - 1)
      BY <1>2, <2>1
    <3> QED
      BY <3>1
  <2>3. per * q = per * d + per + per * e
    BY <1>1, <1>2, <2>2
  <2>4. per * e \in Nat /\ per * d \in Nat
    BY <1>1, <1>2
  <2> QED
    BY <1>1, <1>2, <2>3, <2>4
<1>4. ~ (q < d)
  <2>1. SUFFICES ASSUME q < d PROVE FALSE
    OBVIOUS
  <2>2. PICK e \in Nat : d = q + 1 + e
    <3>1. d - q - 1 \in Nat /\ d = q + 1 + (d - q - 1)
      BY <1>2, <2>1
    <3> QED
      BY <3>1
  <2>3. per * d = per * q + per + per * e
    BY <1>1, <1>2, <2>2
  <2>4. per * e \in Nat /\ per * q \in Nat
    BY <1>1, <1>2
  <2> QED
    BY <1>1, <1>2, <2>3, <2>4
<1>5. d = q
  BY <1>2, <1>3, <1>4
<1>6. m = r
  BY <1>1, <1>2, <1>5
<1> QED
  BY <1>5, <1>6 DEF d, m

LEMMA SlotsAre ==
  /\ Len(Slots) \in Nat \ {0} /\ DOMAIN Slots = 1 .. Len(Slots)
  /\ \A i \in 1 .. Len(Slots) : Slots[i] \in Slot
  /\ \A s \in Slot : \E i \in 1 .. Len(Slots) : s = Slots[i]
  /\ \A i, j \in 1 .. Len(Slots) : Slots[i] = Slots[j] => i = j
  /\ NoSlot \notin Slot
<1>1. Slots \in Seq(STRING) /\ Len(Slots) > 0
  BY ProvisioningAssumption
<1>2. Len(Slots) \in Nat \ {0} /\ DOMAIN Slots = 1 .. Len(Slots)
  BY <1>1
<1> QED
  BY <1>2, ProvisioningAssumption DEF Slot, NoSlot

LEMMA PerSlots ==
  /\ per \in Nat /\ per > 2 /\ per * Len(Slots) \in Nat /\ per * Len(Slots) > 0
<1>1. per \in Nat /\ per > 2
  BY ProvisioningAssumption DEF per
<1>2. Len(Slots) \in Nat /\ Len(Slots) > 0
  BY SlotsAre
<1> QED
  BY <1>1, <1>2

\* A command between the first and the last is one of the commands of its slot.
LEMMA ScriptIs ==
  /\ Last = per * Len(Slots) + 2 /\ Script[1] = ERASE /\ Script[Last] = STATUS
  /\ \A k \in 2 .. Last - 1 : Script[k] = OfSlot(Slots[Cur(k)])[Off(k) + 1]
<1> DEFINE N == per * Len(Slots)
           middle == [i \in 1 .. N |-> OfSlot(Slots[1 + ((i - 1) \div per)])[1 + ((i - 1) % per)]]
           Any == {ERASE, STATUS} \cup { middle[i] : i \in 1 .. N }
<1>1. N \in Nat
  BY PerSlots
<1>2. Script = (<<ERASE>> \o middle) \o <<STATUS>>
  BY DEF Script, OfSlot, per
<1>3. \A k \in 2 .. N + 1 : middle[k - 1] = OfSlot(Slots[1 + ((k - 2) \div per)])[1 + ((k - 2) % per)]
  <2> SUFFICES ASSUME NEW k \in 2 .. N + 1
               PROVE  middle[k - 1] = OfSlot(Slots[1 + ((k - 2) \div per)])[1 + ((k - 2) % per)]
    OBVIOUS
  <2>1. k - 1 \in 1 .. N /\ (k - 1) - 1 = k - 2
    BY <1>1
  <2> HIDE DEF N
  <2>2. middle[k - 1] = OfSlot(Slots[1 + (((k - 1) - 1) \div per)])[1 + (((k - 1) - 1) % per)]
    BY <2>1
  <2> HIDE DEF middle
  <2> QED
    BY <2>1, <2>2
<1>4. middle \in Seq(Any) /\ Len(middle) = N
  <2> HIDE DEF N
  <2>1. middle \in [1 .. N -> Any]
    <3>1. \A i \in 1 .. N : middle[i] \in Any
      BY DEF Any
    <3>2. middle = [i \in 1 .. N |-> middle[i]]
      OBVIOUS
    <3> HIDE DEF middle, Any
    <3> QED
      BY <3>1, <3>2
  <2> HIDE DEF middle, Any
  <2> QED
    BY <1>1, <2>1
<1>5. <<ERASE>> \in Seq(Any) /\ <<STATUS>> \in Seq(Any)
  OBVIOUS
<1> HIDE DEF N, middle, Any
<1>6. /\ <<ERASE>> \o middle \in Seq(Any) /\ Len(<<ERASE>> \o middle) = N + 1
      /\ (<<ERASE>> \o middle)[1] = ERASE
      /\ \A k \in 2 .. N + 1 : (<<ERASE>> \o middle)[k] = middle[k - 1]
  BY <1>1, <1>4, <1>5
<1>7. /\ Len(Script) = N + 2 /\ Script[N + 2] = STATUS /\ Script[1] = ERASE
      /\ \A k \in 2 .. N + 1 : Script[k] = middle[k - 1]
  <2> DEFINE front == <<ERASE>> \o middle
  <2>1. /\ front \in Seq(Any) /\ Len(front) = N + 1 /\ front[1] = ERASE
        /\ \A k \in 2 .. N + 1 : front[k] = middle[k - 1]
    BY <1>6
  <2>2. Script = front \o <<STATUS>>
    BY <1>2
  <2> HIDE DEF front
  <2>3. /\ Len(Script) = N + 2 /\ Script[N + 2] = STATUS
        /\ \A k \in 1 .. N + 1 : Script[k] = front[k]
    BY <1>1, <1>5, <2>1, <2>2
  <2> QED
    BY <1>1, <2>1, <2>3
<1>8. Last = N + 2
  BY <1>7 DEF Last
<1>9. \A k \in 2 .. N + 1 : Script[k] = OfSlot(Slots[Cur(k)])[Off(k) + 1]
  <2> SUFFICES ASSUME NEW k \in 2 .. N + 1 PROVE Script[k] = OfSlot(Slots[Cur(k)])[Off(k) + 1]
    OBVIOUS
  <2>1. k # 1 /\ (k - 2) % per \in Int
    <3>1. k - 2 \in Nat
      BY <1>1
    <3> QED
      BY <3>1, DivPer, PerSlots
  <2>2. 1 + ((k - 2) % per) = ((k - 2) % per) + 1
    BY <2>1
  <2> QED
    BY <1>3, <1>7, <2>1, <2>2 DEF Cur, Off
<1> QED
  BY <1>1, <1>7, <1>8, <1>9 DEF N

\* How the tool walks through it.
LEMMA ScriptWalks ==
  /\ Last \in Nat /\ Last > 2 /\ Cur(1) = 1 /\ Cur(2) = 1 /\ Cur(Last) = Len(Slots) + 1
  /\ \A k \in 2 .. Last - 1 : Cur(k) \in 1 .. Len(Slots) /\ Off(k) \in 0 .. per - 1
  /\ \A k \in 2 .. Last - 1 :
       IF Off(k) = per - 1 THEN Cur(k + 1) = Cur(k) + 1 /\ (k + 1 < Last => Off(k + 1) = 0)
                           ELSE Cur(k + 1) = Cur(k) /\ Off(k + 1) = Off(k) + 1
<1>1. Last \in Nat /\ Last > 2 /\ Last = per * Len(Slots) + 2 /\ Len(Slots) \in Nat
  BY PerSlots, ScriptIs, SlotsAre
<1>2. Cur(1) = 1 /\ Cur(2) = 1
  <2>1. 0 \div per = 0
    BY PerSlots, DivUnique
  <2> QED
    BY <2>1 DEF Cur
<1>3. Cur(Last) = Len(Slots) + 1
  <2>1. Last - 2 = per * Len(Slots) + 0 /\ Last - 2 \in Nat /\ 0 \in 0 .. per - 1
    BY <1>1, PerSlots
  <2>2. (Last - 2) \div per = Len(Slots)
    BY <1>1, <2>1, DivUnique
  <2> QED
    BY <1>1, <2>2 DEF Cur
<1>4. ASSUME NEW k \in 2 .. Last - 1
      PROVE  /\ Cur(k) \in 1 .. Len(Slots) /\ Off(k) \in 0 .. per - 1
             /\ IF Off(k) = per - 1 THEN Cur(k + 1) = Cur(k) + 1 /\ (k + 1 < Last => Off(k + 1) = 0)
                                    ELSE Cur(k + 1) = Cur(k) /\ Off(k + 1) = Off(k) + 1
  <2> DEFINE q == (k - 2) \div per
             r == (k - 2) % per
  <2>1. k - 2 \in Nat /\ q \in Nat /\ r \in 0 .. per - 1 /\ k - 2 = per * q + r
    <3>1. k - 2 \in Nat
      BY <1>1
    <3> QED
      BY <3>1, DivPer
  <2>2. Cur(k) = 1 + q /\ Off(k) = r /\ k # 1 /\ k + 1 # 1
    BY <1>1 DEF Cur, Off
  <2> HIDE DEF q, r
  <2>3. q < Len(Slots)
    <3>1. SUFFICES ASSUME q >= Len(Slots) PROVE FALSE
      BY <1>1, <2>1
    <3>2. PICK e \in Nat : q = Len(Slots) + e
      <4>1. q - Len(Slots) \in Nat /\ q = Len(Slots) + (q - Len(Slots))
        BY <1>1, <2>1, <3>1
      <4> QED
        BY <4>1
    <3>3. per * q = per * Len(Slots) + per * e /\ per * e \in Nat
      BY <1>1, <3>2, PerSlots
    <3> QED
      BY <1>1, <2>1, <3>3, PerSlots
  <2>4. k + 1 - 2 = (k - 2) + 1
    BY <1>1
  <2>5. CASE r = per - 1
    <3>1. k + 1 - 2 = per * (q + 1) + 0 /\ k + 1 - 2 \in Nat /\ q + 1 \in Nat
      BY <2>1, <2>4, <2>5, PerSlots
    <3>2. (k + 1 - 2) \div per = q + 1 /\ (k + 1 - 2) % per = 0
      BY SMTT(30), <3>1, PerSlots, DivUnique
    <3>3. Cur(k + 1) = 1 + (q + 1) /\ Off(k + 1) = 0
      BY <2>2, <3>2 DEF Cur, Off
    <3> QED
      BY <1>1, <2>1, <2>2, <2>3, <2>5, <3>3
  <2>6. CASE r # per - 1
    <3>1. k + 1 - 2 = per * q + (r + 1) /\ k + 1 - 2 \in Nat /\ r + 1 \in 0 .. per - 1
      BY <2>1, <2>4, <2>6, PerSlots
    <3>2. (k + 1 - 2) \div per = q /\ (k + 1 - 2) % per = r + 1
      BY <2>1, <3>1, DivUnique
    <3>3. Cur(k + 1) = 1 + q /\ Off(k + 1) = r + 1
      BY <2>2, <3>2 DEF Cur, Off
    <3> QED
      BY <1>1, <2>1, <2>2, <2>3, <2>6, <3>3
  <2> QED
    BY <2>5, <2>6
<1> QED
  BY <1>1, <1>2, <1>3, <1>4


OpOf(o) == IF o = 0 THEN "BEGIN" ELSE IF o = per - 1 THEN "END" ELSE "C"

Command == [op : {"ERASE", "STATUS", "BEGIN", "C", "END", "garbled"},
            slot : Slot \cup {NoSlot}, n : 0 .. Chunks]

\* What kind of command each is.
LEMMA Commands ==
  ASSUME NEW k \in 2 .. Last - 1
  PROVE  /\ Script[k] \in Command
         /\ Script[k].op = OpOf(Off(k)) /\ Script[k].slot = Slots[Cur(k)]
<1>1. Chunks \in Nat \ {0} /\ per = Chunks + 2
  BY ProvisioningAssumption DEF per
<1>2. Script[k] = OfSlot(Slots[Cur(k)])[Off(k) + 1] /\ Off(k) \in 0 .. per - 1
  BY ScriptIs, ScriptWalks
<1>3. Slots[Cur(k)] \in Slot
  BY ScriptWalks, SlotsAre
<1> DEFINE s == Slots[Cur(k)]
           o == Off(k)
<1> HIDE DEF s, o
<1>4. CASE o = 0
  <2>0. o + 1 = 1
    BY <1>4
  <2>1. Script[k] = [op |-> "BEGIN", slot |-> s, n |-> 0]
    BY <1>2, <2>0, OfSlotIs DEF s, o
  <2> QED
    BY <1>1, <1>3, <1>4, <2>1 DEF s, o, Command, OpOf
<1>5. CASE o = per - 1
  <2>1. o + 1 = per /\ o # 0
    BY <1>1, <1>5
  <2>2. Script[k] = [op |-> "END", slot |-> s, n |-> 0]
    BY <1>2, <2>1, OfSlotIs DEF s, o
  <2> QED
    BY <1>1, <1>3, <1>5, <2>1, <2>2 DEF s, o, Command, OpOf
<1>6. CASE o # 0 /\ o # per - 1
  <2>1. o \in 1 .. Chunks
    BY <1>1, <1>2, <1>6 DEF o
  <2>2. Script[k] = [op |-> "C", slot |-> s, n |-> o]
    BY <1>2, <2>1, OfSlotIs DEF s, o
  <2> QED
    BY <1>1, <1>3, <1>6, <2>1, <2>2 DEF s, o, Command, OpOf
<1> QED
  BY <1>4, <1>5, <1>6

\* The command at a place of the script.
LEMMA CommandIs ==
  ASSUME NEW k \in 1 .. Last
  PROVE  /\ Cur(k) \in 1 .. Len(Slots) + 1 /\ Script[k] \in Command
         /\ Script[k].op # "garbled"
         /\ Script[k].op = "ERASE" <=> k = 1
         /\ Script[k].op = "STATUS" <=> k = Last
         /\ k = 1 => Cur(k) = 1
         /\ k = Last => Cur(k) = Len(Slots) + 1
         /\ Script[k].op \in {"BEGIN", "C", "END"} =>
              Cur(k) \in 1 .. Len(Slots) /\ Script[k].slot = Slots[Cur(k)]
<1>1. Chunks \in Nat \ {0} /\ Len(Slots) \in Nat \ {0}
  BY ProvisioningAssumption, SlotsAre
<1>2. CASE k = 1
  <2>1. Script[k] = ERASE /\ Cur(k) = 1 /\ k # Last
    BY <1>2, ScriptIs, ScriptWalks
  <2> QED
    BY <1>1, <1>2, <2>1 DEF ERASE, Command
<1>3. CASE k = Last
  <2>1. Script[k] = STATUS /\ Cur(k) = Len(Slots) + 1 /\ k # 1
    BY <1>3, ScriptIs, ScriptWalks
  <2> QED
    BY <1>1, <1>3, <2>1 DEF STATUS, Command
<1>4. CASE k # 1 /\ k # Last
  <2>1. k \in 2 .. Last - 1
    BY <1>4, ScriptWalks
  <2>2. Cur(k) \in 1 .. Len(Slots)
    BY <2>1, ScriptWalks
  <2>3. Script[k] \in Command /\ Script[k].op = OpOf(Off(k)) /\ Script[k].slot = Slots[Cur(k)]
    BY <2>1, Commands
  <2>4. Script[k].op \in {"BEGIN", "C", "END"}
    BY <2>3 DEF OpOf
  <2> QED
    BY <1>1, <1>4, <2>2, <2>3, <2>4
<1> QED
  BY <1>2, <1>3, <1>4

\* The command after it.
LEMMA CommandAfter ==
  ASSUME NEW k \in 1 .. Last, k # Last
  PROVE  /\ k + 1 \in 1 .. Last
         /\ Script[k].op = "END" =>
              Cur(k + 1) = Cur(k) + 1 /\ Script[k + 1].op \in {"BEGIN", "STATUS"}
         /\ Script[k].op # "END" => Cur(k + 1) = Cur(k)
         /\ Script[k + 1].op \in {"C", "END"} => Script[k].op \in {"BEGIN", "C"}
<1>1. per \in Nat /\ per > 2 /\ Last \in Nat /\ Last > 2
  BY PerSlots, ScriptWalks
<1>2. k + 1 \in 1 .. Last
  BY <1>1
<1>3. CASE k = 1
  <2>1. Off(2) = 0
    <3>1. 2 - 2 = per * 0 + 0 /\ 0 \in 0 .. per - 1
      BY <1>1
    <3>2. (2 - 2) % per = 0
      BY <3>1, DivUnique
    <3> QED
      BY <3>2 DEF Off
  <2>2. Script[2].op = "BEGIN"
    <3>1. 2 \in 2 .. Last - 1
      BY <1>1
    <3>2. Script[2].op = OpOf(Off(2))
      BY <3>1, Commands
    <3> QED
      BY <2>1, <3>2 DEF OpOf
  <2>3. Script[1].op = "ERASE" /\ Cur(1) = Cur(2)
    BY ScriptIs, ScriptWalks DEF ERASE
  <2>4. k + 1 = 2
    BY <1>3
  <2> QED
    BY <1>2, <1>3, <2>2, <2>3, <2>4
<1>4. CASE k # 1
  <2> DEFINE o == Off(k)
             next == Script[k + 1].op
  <2>1. k \in 2 .. Last - 1
    BY <1>1, <1>4
  <2>2. o \in 0 .. per - 1 /\ Script[k].op = OpOf(o)
    BY <2>1, ScriptWalks, Commands
  <2>3. /\ o = per - 1 => Cur(k + 1) = Cur(k) + 1 /\ (k + 1 < Last => Off(k + 1) = 0)
        /\ o # per - 1 => Cur(k + 1) = Cur(k)
    BY <2>1, ScriptWalks
  <2>4. k + 1 < Last /\ Off(k + 1) = 0 => next = "BEGIN"
    <3> SUFFICES ASSUME k + 1 < Last, Off(k + 1) = 0 PROVE next = "BEGIN"
      OBVIOUS
    <3>1. k + 1 \in 2 .. Last - 1
      BY <1>1, <2>1
    <3>2. next = OpOf(Off(k + 1))
      BY <3>1, Commands
    <3> QED
      BY <3>2 DEF OpOf
  <2>5. k + 1 = Last => next = "STATUS"
    BY ScriptIs DEF STATUS
  <2> HIDE DEF o, next
  <2>6. k + 1 = Last \/ k + 1 < Last
    BY <1>1, <1>2
  <2>7. Script[k].op = "END" <=> o = per - 1
    BY <1>1, <2>2 DEF OpOf
  <2>8. o # per - 1 => Script[k].op \in {"BEGIN", "C"}
    BY <2>2 DEF OpOf
  <2>9. o = per - 1 => next \in {"BEGIN", "STATUS"}
    BY <2>3, <2>4, <2>5, <2>6
  <2> QED
    BY <1>2, <2>3, <2>7, <2>8, <2>9 DEF next
<1> QED
  BY <1>3, <1>4

-----------------------------------------------------------------------------
(* Provisioning.                                                           *)

\* The command the tool is at, and the slot it belongs to.
Cmd   == Script[tool.at]
Place == Cur(tool.at)

Active  == tool.phase \in {"ready", "waiting"}
Waiting == tool.phase = "waiting"

Answer == [is : {"OK", "ERR", "PROVISION"}, says : Slot \cup {NoSlot, "complete"}]

Staging == [slot : Slot \cup {NoSlot}, chunks : Seq((Slot \cup {NoSlot}) \X (0 .. Chunks))]

Typed ==
  /\ tool \in [phase : {"off", "ready", "waiting", "failed", "done"}, at : 1 .. Last]
  /\ lines \in Seq(Command) /\ replies \in Seq(Answer) /\ Len(replies) <= 1
  /\ nvs \in [Slot -> Stored] /\ ram \in [Slot -> Stored]
  /\ staged \in Staging
  /\ writing \in Slot \cup {NoSlot} /\ tls \in {"unset", "held", "freed"}

\* The END of a slot is answered before anything is sent after it: it is the last
\* line on the cable, and nothing is behind the one that is being stored.
EndIsLast ==
  Active =>
    /\ \A i \in DOMAIN lines : lines[i].op = "END" => i = Len(lines) /\ Waiting /\ Cmd.op = "END"
    /\ writing # NoSlot => lines = <<>> /\ Waiting /\ Cmd.op = "END"

\* What is being stored is what is staged.
WritesStaged == writing # NoSlot => staged.slot = writing /\ nvs[writing] = Decoded

\* The reply to a late ERASE may be taken for that to BEGIN, and so on, but no
\* further than the end of the first slot.
InStep ==
  Active /\ Place > 1 =>
    /\ tool.phase = "ready" => lines = <<>>
    /\ Waiting => lines = <<>> \/ (replies = <<>> /\ \E c \in {Cmd, Garbled(Cmd)} : lines = <<c>>)

Early ==
  Active =>
    \A i \in DOMAIN lines :
      /\ lines[i].op = "ERASE" => Place = 1
      /\ Place = 1 /\ lines[i].op = "BEGIN" => lines[i].slot \in {NoSlot, Slots[1]}

\* From its BEGIN to its END a slot is the one staged, or none is.
StagesPlace ==
  /\ Active /\ (Place = 1 \/ Cmd.op \in {"C", "END"}) => staged.slot \in {NoSlot, Slots[Place]}
  /\ Waiting /\ Place > 1 /\ Cmd.op = "BEGIN" /\ replies # <<>> /\ Head(replies).is = "OK" =>
       staged.slot \in {NoSlot, Slots[Place]}

\* The answer that END waits for says that its slot is stored.
OKIsStored ==
  /\ Waiting /\ Cmd.op = "END" /\ replies # <<>>
  /\ Head(replies).is = "OK" /\ Head(replies).says = Cmd.slot
  => lines = <<>> /\ writing = NoSlot /\ nvs[Cmd.slot] = "new"

\* The slots that are done with are stored,
SoFarStored == Active => \A i \in 1 .. Len(Slots) : i < Place => nvs[Slots[i]] = "new"

\* and in the end all are, with nothing left that could change that.
DoneIsStored ==
  tool.phase = "done" => lines = <<>> /\ writing = NoSlot /\ \A s \in Slot : nvs[s] = "new"

PInv ==
  /\ Typed /\ EndIsLast /\ WritesStaged /\ InStep /\ Early /\ StagesPlace
  /\ OKIsStored /\ SoFarStored /\ DoneIsStored

-----------------------------------------------------------------------------

LEMMA CmdIs ==
  ASSUME Typed
  PROVE  /\ tool.at \in 1 .. Last
         /\ Place \in 1 .. Len(Slots) + 1 /\ Cmd \in Command /\ Cmd.op # "garbled"
         /\ Cmd.op = "ERASE" <=> tool.at = 1
         /\ Cmd.op = "STATUS" <=> tool.at = Last
         /\ tool.at = 1 => Place = 1
         /\ tool.at = Last => Place = Len(Slots) + 1
         /\ Cmd.op \in {"BEGIN", "C", "END"} =>
              Place \in 1 .. Len(Slots) /\ Cmd.slot = Slots[Place] /\ Cmd.slot \in Slot
<1>1. tool.at \in 1 .. Last
  BY DEF Typed
<1>2. \A i \in 1 .. Len(Slots) : Slots[i] \in Slot
  BY SlotsAre
<1> QED
  BY <1>1, <1>2, CommandIs DEF Cmd, Place

\* A line that lost characters.
LEMMA GarbledIs ==
  ASSUME NEW c \in Command
  PROVE  /\ Garbled(c) \in Command
         /\ Garbled(c).op \in {c.op, "garbled"} /\ Garbled(c).slot \in {c.slot, NoSlot}
         /\ Garbled(c).op = "garbled" => c.op # "BEGIN"
         /\ c.op = "END" => Garbled(c).op = "garbled"
<1>1. Chunks \in Nat
  BY ProvisioningAssumption
<1>2. CASE c.op = "C"
  BY <1>1, <1>2 DEF Garbled, Command
<1>3. CASE c.op = "BEGIN"
  BY <1>3 DEF Garbled, Command
<1>4. CASE c.op # "C" /\ c.op # "BEGIN"
  <2>1. Garbled(c) = [c EXCEPT !.op = "garbled"]
    BY <1>4 DEF Garbled
  <2> QED
    BY <1>4, <2>1 DEF Command
<1> QED
  BY <1>2, <1>3, <1>4

\* A reply reaches a tool that waits, if it has none yet.
LEMMA ReplyIs ==
  ASSUME Typed, NEW r \in Answer, Arrives(r) \/ Reply(r)
  PROVE  /\ replies' \in Seq(Answer) /\ Len(replies') <= 1
         /\ replies' = replies \/ (Waiting /\ replies = <<>> /\ replies' = <<r>>)
<1>1. replies \in Seq(Answer) /\ Len(replies) <= 1 /\ <<r>> \in Seq(Answer) /\ Len(<<r>>) = 1
  BY DEF Typed
<1>2. replies' = replies \/ (Waiting /\ replies = <<>> /\ replies' = <<r>>)
  BY DEF Arrives, Reply, Waiting
<1>3. CASE replies' = replies
  BY <1>1, <1>3
<1>4. CASE replies' = <<r>>
  <2>1. <<r>> \in Seq(Answer) /\ Len(<<r>>) <= 1
    OBVIOUS
  <2> QED
    BY <1>2, <1>4, <2>1, Zenon
<1> QED
  BY <1>2, <1>3, <1>4

\* What the invariant says of the tool's place does not change with the node's steps.
LEMMA SamePlace ==
  ASSUME UNCHANGED tool
  PROVE  UNCHANGED <<Cmd, Place, Active, Waiting>>
BY DEF Cmd, Place, Active, Waiting

\* The node takes a line from the cable.
LEMMA Taken ==
  ASSUME PInv, lines # <<>>, lines' = Tail(lines), UNCHANGED tool
  PROVE  /\ lines' \in Seq(Command) /\ Head(lines) \in Command
         /\ \A i \in DOMAIN lines' : lines'[i].op = "END" /\ Active =>
              i = Len(lines') /\ Waiting /\ Cmd.op = "END"
         /\ InStep' /\ Early'
         /\ Active /\ Place > 1 =>
              Waiting /\ replies = <<>> /\ Head(lines) \in {Cmd, Garbled(Cmd)} /\ lines' = <<>>
         /\ Active /\ Head(lines).op = "END" => Waiting /\ Cmd.op = "END" /\ lines' = <<>>
         /\ Active /\ Head(lines).op = "ERASE" => Place = 1
         /\ Active /\ Place = 1 /\ Head(lines).op = "BEGIN" =>
              Head(lines).slot \in {NoSlot, Slots[1]}
         /\ tool.phase # "done"
         /\ ~ (/\ Waiting /\ Cmd.op = "END" /\ replies # <<>>
               /\ Head(replies).is = "OK" /\ Head(replies).says = Cmd.slot)
<1>1. /\ lines' \in Seq(Command) /\ Head(lines) \in Command /\ 1 \in DOMAIN lines
      /\ Head(lines) = lines[1] /\ Len(lines') = Len(lines) - 1 /\ Len(lines) \in Nat
      /\ \A i \in DOMAIN lines' : i + 1 \in DOMAIN lines /\ lines'[i] = lines[i + 1] /\ i \in Nat
      /\ Len(lines') = 0 => lines' = <<>>
  BY DEF PInv, Typed, Staging
<1>2. UNCHANGED <<Cmd, Place, Active, Waiting>>
  BY SamePlace
<1>3. \A i \in DOMAIN lines' : lines'[i].op = "END" /\ Active =>
        i = Len(lines') /\ Waiting /\ Cmd.op = "END"
  BY <1>1 DEF PInv, EndIsLast
<1>4. Active /\ Place > 1 =>
        Waiting /\ replies = <<>> /\ Head(lines) \in {Cmd, Garbled(Cmd)} /\ lines' = <<>>
  <2> SUFFICES ASSUME Active, Place > 1
               PROVE  Waiting /\ replies = <<>> /\ Head(lines) \in {Cmd, Garbled(Cmd)} /\ lines' = <<>>
    OBVIOUS
  <2>1. Waiting /\ replies = <<>>
    BY DEF PInv, InStep, Active, Waiting
  <2>2. PICK c \in {Cmd, Garbled(Cmd)} : lines = <<c>>
    BY <2>1 DEF PInv, InStep
  <2>3. Head(lines) = c /\ Tail(lines) = <<>>
    BY <2>2
  <2> QED
    BY <2>1, <2>2, <2>3
<1>5. InStep'
  BY <1>2, <1>4 DEF InStep, Active, Waiting
<1>6. Early'
  BY <1>1, <1>2 DEF PInv, Early
<1>7. Active /\ Head(lines).op = "END" => Waiting /\ Cmd.op = "END" /\ lines' = <<>>
  BY <1>1 DEF PInv, EndIsLast
<1>8. /\ Active /\ Head(lines).op = "ERASE" => Place = 1
      /\ Active /\ Place = 1 /\ Head(lines).op = "BEGIN" => Head(lines).slot \in {NoSlot, Slots[1]}
  BY <1>1 DEF PInv, Early
<1>9. tool.phase # "done"
  BY DEF PInv, DoneIsStored
<1>10. ~ (/\ Waiting /\ Cmd.op = "END" /\ replies # <<>>
          /\ Head(replies).is = "OK" /\ Head(replies).says = Cmd.slot)
  BY DEF PInv, OKIsStored
<1> QED
  BY <1>1, <1>3, <1>4, <1>5, <1>6, <1>7, <1>8, <1>9, <1>10

\* An answer other than the one to END, given for a line that was taken.
LEMMA Answered ==
  ASSUME PInv, lines # <<>>, lines' = Tail(lines), UNCHANGED tool,
         NEW r \in Answer, Reply(r), r.is = "OK" => r.says = NoSlot
  PROVE  /\ replies' \in Seq(Answer) /\ Len(replies') <= 1
         /\ OKIsStored'
         /\ Waiting /\ Place > 1 /\ replies' # <<>> => Head(replies') = r
<1>1. /\ replies' \in Seq(Answer) /\ Len(replies') <= 1
      /\ replies' = replies \/ (Waiting /\ replies = <<>> /\ replies' = <<r>>)
  BY ReplyIs DEF PInv
<1>2. UNCHANGED <<Cmd, Place, Active, Waiting>>
  BY SamePlace
<1>3. Cmd.op = "END" => Cmd.slot # NoSlot
  BY CmdIs, SlotsAre DEF PInv
<1>4. OKIsStored'
  <2>1. ~ (/\ Waiting /\ Cmd.op = "END" /\ replies # <<>>
           /\ Head(replies).is = "OK" /\ Head(replies).says = Cmd.slot)
    BY Taken
  <2>2. replies' = <<r>> => Head(replies') = r
    BY <1>1
  <2> QED
    BY <1>1, <1>2, <1>3, <2>1, <2>2 DEF OKIsStored
<1>5. Waiting /\ Place > 1 /\ replies' # <<>> => Head(replies') = r
  BY <1>1, Taken DEF Active, Waiting
<1> QED
  BY <1>1, <1>4, <1>5

LEMMA AnsweredKeeps ==
  ASSUME PInv, writing = NoSlot, lines # <<>>, lines' = Tail(lines), UNCHANGED <<tool, writing>>,
         NEW r \in Answer, Reply(r), r.is = "OK" => r.says = NoSlot
  PROVE  /\ lines' \in Seq(Command) /\ replies' \in Seq(Answer) /\ Len(replies') <= 1
         /\ EndIsLast' /\ WritesStaged' /\ InStep' /\ Early' /\ OKIsStored' /\ DoneIsStored'
<1>1. UNCHANGED <<Cmd, Place, Active, Waiting>>
  BY SamePlace
<1>2. EndIsLast'
  BY <1>1, Taken DEF EndIsLast
<1>3. WritesStaged' /\ DoneIsStored'
  BY Taken DEF WritesStaged, DoneIsStored
<1> QED
  BY <1>2, <1>3, Taken, Answered

\* Only BEGIN changes what slot is staged.
LEMMA StagedKept ==
  ASSUME PInv, lines # <<>>, lines' = Tail(lines), UNCHANGED tool,
         Head(lines).op # "BEGIN", staged'.slot = staged.slot
  PROVE  StagesPlace'
<1>1. UNCHANGED <<Cmd, Place, Active, Waiting>>
  BY SamePlace
<1>2. ~ (Waiting /\ Place > 1 /\ Cmd.op = "BEGIN")
  <2> SUFFICES ASSUME Waiting, Place > 1, Cmd.op = "BEGIN" PROVE FALSE
    OBVIOUS
  <2>1. Head(lines) \in {Cmd, Garbled(Cmd)} /\ Cmd \in Command
    BY Taken, CmdIs DEF Active, Waiting, PInv
  <2> QED
    BY <2>1, GarbledIs
<1> QED
  BY <1>1, <1>2 DEF PInv, StagesPlace

LEMMA BeginKeeps ==
  ASSUME PInv, writing = NoSlot, lines # <<>>, lines' = Tail(lines), UNCHANGED tool,
         Head(lines).op = "BEGIN", HandleBegin(Head(lines))
  PROVE  PInv'
<1> DEFINE c == Head(lines)
<1>1. /\ c \in Command /\ OK(NoSlot) \in Answer /\ OK(NoSlot).says = NoSlot
      /\ staged' = [slot |-> c.slot, chunks |-> <<>>]
      /\ Reply(OK(NoSlot)) /\ UNCHANGED <<nvs, ram, writing, tls>>
  BY Taken DEF HandleBegin, OK, Answer
<1>2. UNCHANGED <<Cmd, Place, Active, Waiting>>
  BY SamePlace
<1>3. /\ lines' \in Seq(Command) /\ replies' \in Seq(Answer) /\ Len(replies') <= 1
      /\ EndIsLast' /\ WritesStaged' /\ InStep' /\ Early' /\ OKIsStored' /\ DoneIsStored'
  BY <1>1, AnsweredKeeps
<1>4. Typed'
  BY <1>1, <1>3 DEF PInv, Typed, Staging, Command
<1>5. StagesPlace'
  <2>1. Active /\ Place = 1 => c.slot \in {NoSlot, Slots[Place]}
    BY Taken
  <2>2. Active /\ Place > 1 => Cmd.op = "BEGIN" /\ c.slot \in {NoSlot, Slots[Place]}
    <3> SUFFICES ASSUME Active, Place > 1
                 PROVE  Cmd.op = "BEGIN" /\ c.slot \in {NoSlot, Slots[Place]}
      OBVIOUS
    <3>1. c \in {Cmd, Garbled(Cmd)} /\ Cmd \in Command
      BY Taken, CmdIs DEF PInv
    <3>2. Cmd.op = "BEGIN" /\ c.slot \in {NoSlot, Cmd.slot}
      BY <3>1, GarbledIs
    <3> QED
      BY <3>2, CmdIs DEF PInv
  <2>3. Place = 1 \/ Place > 1
    BY CmdIs, SlotsAre DEF PInv
  <2>4. staged'.slot = c.slot
    BY <1>1
  <2>5. Waiting => Active
    BY DEF Active, Waiting
  <2> HIDE DEF c
  <2> QED
    BY <1>2, <2>1, <2>2, <2>3, <2>4, <2>5 DEF StagesPlace
<1>6. SoFarStored'
  BY <1>1, <1>2 DEF PInv, SoFarStored
<1> QED
  BY <1>3, <1>4, <1>5, <1>6 DEF PInv

\* A line that is answered and changes neither flash nor the slot that is staged.
LEMMA OthersKeep ==
  ASSUME PInv, writing = NoSlot, lines # <<>>, lines' = Tail(lines), UNCHANGED <<tool, writing, nvs>>,
         Head(lines).op # "BEGIN", staged'.slot = staged.slot,
         NEW r \in Answer, Reply(r), r.is = "OK" => r.says = NoSlot, Typed'
  PROVE  PInv'
<1>1. UNCHANGED <<Cmd, Place, Active, Waiting>>
  BY SamePlace
<1>2. SoFarStored'
  BY <1>1 DEF PInv, SoFarStored
<1> QED
  BY <1>2, AnsweredKeeps, StagedKept DEF PInv

LEMMA ChunkKeeps ==
  ASSUME PInv, writing = NoSlot, lines # <<>>, lines' = Tail(lines), UNCHANGED tool,
         Head(lines).op = "C", HandleChunk(Head(lines))
  PROVE  PInv'
<1> DEFINE c == Head(lines)
<1>1. /\ c \in Command /\ OK(NoSlot) \in Answer /\ OK(NoSlot).says = NoSlot
      /\ staged' = [staged EXCEPT !.chunks = Append(staged.chunks, <<c.slot, c.n>>)]
      /\ Reply(OK(NoSlot)) /\ UNCHANGED <<nvs, ram, writing, tls>>
  BY Taken DEF HandleChunk, OK, Answer
<1>2. /\ lines' \in Seq(Command) /\ replies' \in Seq(Answer) /\ Len(replies') <= 1
  BY <1>1, AnsweredKeeps
<1>3. <<c.slot, c.n>> \in (Slot \cup {NoSlot}) \X (0 .. Chunks)
  BY <1>1 DEF Command
<1>4. staged' = [slot |-> staged.slot, chunks |-> Append(staged.chunks, <<c.slot, c.n>>)]
  <2> HIDE DEF c
  <2> QED
    BY <1>1 DEF PInv, Typed, Staging
<1>5. Append(staged.chunks, <<c.slot, c.n>>) \in Seq((Slot \cup {NoSlot}) \X (0 .. Chunks))
  <2> HIDE DEF c
  <2> QED
    BY <1>3 DEF PInv, Typed, Staging
<1>6. Typed'
  <2> HIDE DEF c
  <2> QED
    BY <1>1, <1>2, <1>4, <1>5 DEF PInv, Typed, Staging
<1> QED
  BY <1>1, <1>4, <1>6, OthersKeep

LEMMA EraseKeeps ==
  ASSUME PInv, writing = NoSlot, lines # <<>>, lines' = Tail(lines), UNCHANGED tool,
         Head(lines).op = "ERASE", HandleErase
  PROVE  PInv'
<1>1. /\ OK(NoSlot) \in Answer /\ OK(NoSlot).says = NoSlot /\ Reply(OK(NoSlot))
      /\ nvs' = Empty /\ ram' = Empty /\ Frees /\ UNCHANGED <<staged, writing>>
  BY DEF HandleErase, OK, Answer
<1>2. UNCHANGED <<Cmd, Place, Active, Waiting>>
  BY SamePlace
<1>3. /\ lines' \in Seq(Command) /\ replies' \in Seq(Answer) /\ Len(replies') <= 1
      /\ EndIsLast' /\ WritesStaged' /\ InStep' /\ Early' /\ OKIsStored' /\ DoneIsStored'
  BY <1>1, AnsweredKeeps
<1>4. Empty \in [Slot -> Stored] /\ tls' \in {"unset", "held", "freed"}
  BY <1>1 DEF PInv, Typed, Empty, Stored, Frees
<1>5. Typed'
  BY <1>1, <1>3, <1>4 DEF PInv, Typed, Staging
<1>6. SoFarStored'
  <2>1. Active => Place = 1
    BY Taken
  <2>2. \A i \in 1 .. Len(Slots) : ~ (i < 1)
    BY SlotsAre
  <2> QED
    BY <1>2, <2>1, <2>2 DEF SoFarStored
<1> QED
  BY <1>1, <1>3, <1>5, <1>6, StagedKept DEF PInv

\* The chunks staged are dropped.
LEMMA Emptied ==
  ASSUME Typed, staged' = [staged EXCEPT !.chunks = <<>>]
  PROVE  staged' \in Staging /\ staged'.slot = staged.slot
<1> DEFINE T == (Slot \cup {NoSlot}) \X (0 .. Chunks)
<1> HIDE DEF T
<1>1. staged \in [slot : Slot \cup {NoSlot}, chunks : Seq(T)]
  BY DEF Typed, Staging, T
<1>2. staged' = [slot |-> staged.slot, chunks |-> <<>>]
  BY <1>1
<1>3. <<>> \in Seq(T) /\ staged.slot \in Slot \cup {NoSlot}
  BY <1>1
<1>4. staged' \in [slot : Slot \cup {NoSlot}, chunks : Seq(T)]
  BY <1>2, <1>3
<1> QED
  BY <1>2, <1>4 DEF Staging, T

LEMMA EndKeeps ==
  ASSUME PInv, writing = NoSlot, lines # <<>>, lines' = Tail(lines), UNCHANGED tool,
         Head(lines).op = "END", HandleEnd
  PROVE  PInv'
<1>1. UNCHANGED <<Cmd, Place, Active, Waiting>>
  BY SamePlace
<1>2. CASE /\ staged' = [staged EXCEPT !.chunks = <<>>]
           /\ Reply(ERR) /\ UNCHANGED <<nvs, ram, writing, tls>>
  <2>1. ERR \in Answer /\ ERR.is # "OK"
    BY DEF ERR, Answer
  <2>2. staged' \in Staging /\ staged'.slot = staged.slot
    BY <1>2, Emptied DEF PInv
  <2>3. lines' \in Seq(Command) /\ replies' \in Seq(Answer) /\ Len(replies') <= 1
    BY <1>2, <2>1, AnsweredKeeps
  <2>4. Typed'
    BY <1>2, <2>2, <2>3 DEF PInv, Typed
  <2> QED
    BY <1>2, <2>1, <2>2, <2>4, OthersKeep
<1>3. CASE /\ staged.slot # NoSlot
           /\ nvs' = [nvs EXCEPT ![staged.slot] = Decoded] /\ writing' = staged.slot
           /\ UNCHANGED <<staged, replies, faults, ram, tls>>
  <2>1. Decoded \in Stored /\ Decoded' = Decoded
    BY <1>3 DEF Decoded, Stored
  <2>2. staged.slot \in Slot /\ nvs \in [Slot -> Stored] /\ lines' \in Seq(Command)
    BY <1>3, Taken DEF PInv, Typed, Staging
  <2>3. nvs' \in [Slot -> Stored] /\ nvs'[staged.slot] = Decoded
        /\ \A s \in Slot : s # staged.slot => nvs'[s] = nvs[s]
    <3> HIDE DEF Decoded
    <3> QED
      BY <1>3, <2>1, <2>2
  <2>4. Typed'
    BY <1>3, <2>2, <2>3 DEF PInv, Typed, Staging
  <2>5. WritesStaged'
    <3> HIDE DEF Decoded
    <3> QED
      BY <1>3, <2>1, <2>3 DEF WritesStaged
  <2>6. EndIsLast'
    BY <1>1, Taken DEF EndIsLast
  <2>7. StagesPlace'
    BY <1>3, StagedKept
  <2>8. OKIsStored'
    <3>1. ~ (/\ Waiting /\ Cmd.op = "END" /\ replies # <<>>
             /\ Head(replies).is = "OK" /\ Head(replies).says = Cmd.slot)
      BY Taken
    <3> QED
      BY <1>1, <1>3, <3>1 DEF OKIsStored
  <2>9. SoFarStored'
    <3> SUFFICES ASSUME Active, NEW i \in 1 .. Len(Slots), i < Place PROVE nvs'[Slots[i]] = "new"
      BY <1>1 DEF SoFarStored
    <3>1. Cmd.op = "END" /\ Place \in 1 .. Len(Slots)
      BY Taken, CmdIs DEF PInv
    <3>2. staged.slot = Slots[Place]
      BY <1>3, <3>1 DEF PInv, StagesPlace
    <3>3. Slots[i] # Slots[Place] /\ Slots[i] \in Slot
      BY <3>1, SlotsAre
    <3>4. nvs[Slots[i]] = "new"
      BY DEF PInv, SoFarStored
    <3> QED
      BY <2>3, <3>2, <3>3, <3>4
  <2>10. DoneIsStored'
    BY Taken DEF DoneIsStored
  <2> QED
    BY <2>4, <2>5, <2>6, <2>7, <2>8, <2>9, <2>10, Taken DEF PInv
<1> QED
  BY <1>2, <1>3 DEF HandleEnd

LEMMA LineKeeps == ASSUME PInv, HandleLine PROVE PInv'
<1>1. /\ lines # <<>> /\ writing = NoSlot /\ lines' = Tail(lines) /\ UNCHANGED tool
  BY DEF HandleLine
<1>2. CASE Head(lines).op = "BEGIN" /\ HandleBegin(Head(lines))
  BY <1>1, <1>2, BeginKeeps
<1>3. CASE Head(lines).op = "C" /\ HandleChunk(Head(lines))
  BY <1>1, <1>3, ChunkKeeps
<1>4. CASE Head(lines).op = "END" /\ HandleEnd
  BY <1>1, <1>4, EndKeeps
<1>5. CASE Head(lines).op = "ERASE" /\ HandleErase
  BY <1>1, <1>5, EraseKeeps
<1>6. ASSUME Head(lines).op # "BEGIN", UNCHANGED <<staged, nvs, ram, writing, tls>>,
             NEW r \in Answer, Reply(r), r.is # "OK"
      PROVE  PInv'
  <2>1. lines' \in Seq(Command) /\ replies' \in Seq(Answer) /\ Len(replies') <= 1
    BY <1>1, <1>6, AnsweredKeeps
  <2>2. Typed'
    BY <1>1, <1>6, <2>1 DEF PInv, Typed, Staging
  <2> QED
    BY <1>1, <1>6, <2>2, OthersKeep
<1>7. CASE Head(lines).op = "STATUS" /\ HandleStatus
  <2>1. Announcement(ram) \in Answer /\ Announcement(ram).is # "OK"
    BY DEF Announcement, Answer
  <2>2. Reply(Announcement(ram)) /\ UNCHANGED <<staged, nvs, ram, writing, tls>>
    BY <1>7 DEF HandleStatus
  <2> QED
    BY <1>6, <1>7, <2>1, <2>2
<1>8. CASE Head(lines).op = "garbled" /\ HandleUnknown
  <2>1. ERR \in Answer /\ ERR.is # "OK"
    BY DEF ERR, Answer
  <2>2. Reply(ERR) /\ UNCHANGED <<staged, nvs, ram, writing, tls>>
    BY <1>8 DEF HandleUnknown
  <2> QED
    BY <1>6, <1>8, <2>1, <2>2
<1> QED
  BY <1>2, <1>3, <1>4, <1>5, <1>7, <1>8 DEF HandleLine

\* What END answers names the slot whose chunks were staged.
LEMMA LengthNames ==
  ASSUME LengthOf # NoSlot
  PROVE  LengthOf \in Slot /\ staged.chunks = All(LengthOf)
<1> DEFINE of == { s \in Slot : staged.chunks = All(s) }
<1>1. of # {} /\ LengthOf = CHOOSE s \in of : TRUE
  BY DEF LengthOf
<1>2. (CHOOSE s \in of : TRUE) \in of
  BY <1>1
<1> QED
  BY <1>1, <1>2

LEMMA StoreEndsKeeps == ASSUME PInv, StoreEnds PROVE PInv'
<1>1. UNCHANGED <<Cmd, Place, Active, Waiting>>
  BY SamePlace DEF StoreEnds
<1>2. /\ writing # NoSlot /\ writing' = NoSlot /\ UNCHANGED <<tool, lines, nvs, runs>>
      /\ staged' = [staged EXCEPT !.chunks = <<>>] /\ Frees
  BY DEF StoreEnds
<1>3. PICK r \in Answer :
        /\ Arrives(r) \/ Reply(r)
        /\ r.is = "OK" => r.says = LengthOf
  <2>1. OK(LengthOf) \in Answer
    <3>1. LengthOf \in Slot \cup {NoSlot}
      BY LengthNames
    <3> QED
      BY <3>1 DEF OK, Answer
  <2>2. ERR \in Answer /\ ERR.is # "OK" /\ OK(LengthOf).says = LengthOf
    BY DEF ERR, OK, Answer
  <2>3. Reply(OK(LengthOf)) \/ Arrives(ERR)
    BY DEF StoreEnds
  <2> QED
    BY <2>1, <2>2, <2>3
<1>4. /\ replies' \in Seq(Answer) /\ Len(replies') <= 1
      /\ replies' = replies \/ (Waiting /\ replies = <<>> /\ replies' = <<r>>)
  BY <1>3, ReplyIs DEF PInv
<1>5. staged' \in Staging /\ staged'.slot = staged.slot
  BY <1>2, Emptied DEF PInv
<1>6. ram' \in [Slot -> Stored]
  <2>1. writing \in Slot /\ nvs[writing] \in Stored /\ "none" \in Stored /\ ram \in [Slot -> Stored]
    BY <1>2 DEF PInv, Typed, Stored
  <2>2. ram' = [ram EXCEPT ![writing] = nvs[writing]] \/ ram' = [ram EXCEPT ![writing] = "none"]
    BY DEF StoreEnds
  <2> QED
    BY <2>1, <2>2
<1>7. Typed'
  <2>1. tls' \in {"unset", "held", "freed"}
    BY <1>2 DEF Frees, PInv, Typed
  <2> QED
    BY <1>2, <1>4, <1>5, <1>6, <2>1 DEF PInv, Typed
<1>8. EndIsLast' /\ WritesStaged' /\ Early' /\ SoFarStored'
  BY <1>1, <1>2 DEF PInv, EndIsLast, WritesStaged, Early, SoFarStored
<1>9. InStep'
  <2>1. Active => lines = <<>>
    BY <1>2 DEF PInv, EndIsLast
  <2> QED
    BY <1>1, <1>2, <2>1 DEF InStep
<1>10. StagesPlace'
  <2>1. Active => Cmd.op = "END"
    BY <1>2 DEF PInv, EndIsLast
  <2>2. staged'.slot = staged.slot /\ (Waiting => Active)
    BY <1>5 DEF Active, Waiting
  <2> QED
    BY <1>1, <2>1, <2>2 DEF PInv, StagesPlace
<1>11. OKIsStored'
  <2> SUFFICES ASSUME Waiting, Cmd.op = "END", replies' # <<>>,
                      Head(replies').is = "OK", Head(replies').says = Cmd.slot
               PROVE  lines = <<>> /\ nvs[Cmd.slot] = "new"
    BY <1>1, <1>2 DEF OKIsStored
  <2>1. lines = <<>> /\ Active
    BY <1>2 DEF PInv, EndIsLast, Active, Waiting
  <2>2. replies' # replies
    BY <1>2 DEF PInv, OKIsStored
  <2>3. replies' = <<r>> /\ Head(replies') = r
    BY <1>4, <2>2
  <2>4. Cmd.slot = LengthOf /\ Cmd.slot \in Slot /\ Cmd.slot = Slots[Place]
    BY <1>3, <2>3, CmdIs DEF PInv
  <2>5. staged.chunks = All(Cmd.slot)
    BY <2>4, SlotsAre, LengthNames
  <2>6. staged.slot = writing /\ nvs[writing] = Decoded
    BY <1>2 DEF PInv, WritesStaged
  <2>7. staged.slot = Cmd.slot
    BY <1>2, <2>1, <2>4, <2>6 DEF PInv, StagesPlace
  <2>8. Decoded = "new"
    BY <1>2, <2>5, <2>6, <2>7 DEF Decoded
  <2> QED
    BY <2>1, <2>6, <2>7, <2>8
<1>12. DoneIsStored'
  BY <1>2 DEF PInv, DoneIsStored
<1> QED
  BY <1>7, <1>8, <1>9, <1>10, <1>11, <1>12 DEF PInv

\* After a restart the cable is empty and nothing is staged or being stored.
LEMMA BlankIs ==
  ASSUME Typed
  PROVE  Blank \in Staging /\ Blank.slot = NoSlot /\ <<>> \in Seq(Command) /\ <<>> \in Seq(Answer)
<1> DEFINE T == (Slot \cup {NoSlot}) \X (0 .. Chunks)
<1> HIDE DEF T
<1>1. <<>> \in Seq(T)
  OBVIOUS
<1>2. Blank \in [slot : Slot \cup {NoSlot}, chunks : Seq(T)]
  BY <1>1 DEF Blank
<1> QED
  BY <1>2 DEF Staging, T, Blank

LEMMA RestartsKeep == ASSUME PInv, Restarts PROVE PInv'
<1>1. /\ lines' = <<>> /\ staged' = Blank /\ writing' = NoSlot /\ tls' = "unset" /\ ram' = nvs
      /\ UNCHANGED <<tool, nvs>> /\ Arrives(Announcement(nvs))
  BY DEF Restarts, Boots
<1>2. Announcement(nvs) \in Answer /\ Announcement(nvs).is # "OK"
  BY DEF Announcement, Answer
<1> DEFINE r == Announcement(nvs)
<1> HIDE DEF r
<1>3. /\ replies' \in Seq(Answer) /\ Len(replies') <= 1
      /\ replies' = replies \/ (replies' = <<r>> /\ Head(replies') = r)
  BY <1>1, <1>2, ReplyIs DEF PInv, r
<1>4. UNCHANGED <<Cmd, Place, Active, Waiting>>
  BY <1>1, SamePlace
<1>5. Typed'
  BY <1>1, <1>3, BlankIs DEF PInv, Typed
<1>6. EndIsLast' /\ WritesStaged' /\ InStep' /\ Early'
  BY <1>1 DEF EndIsLast, WritesStaged, InStep, Early
<1>7. StagesPlace' /\ SoFarStored' /\ DoneIsStored'
  BY <1>1, <1>4, BlankIs DEF PInv, StagesPlace, SoFarStored, DoneIsStored
<1>8. OKIsStored'
  BY <1>1, <1>2, <1>3, <1>4 DEF PInv, OKIsStored, r
<1> QED
  BY <1>5, <1>6, <1>7, <1>8 DEF PInv

LEMMA OpensKeeps == ASSUME PInv, Opens PROVE PInv'
<1>1. /\ lines' = <<>> /\ staged' = Blank /\ writing' = NoSlot /\ tls' = "unset" /\ ram' = nvs
      /\ UNCHANGED nvs /\ replies' = <<>>
  BY DEF Opens, Boots
<1>2. PICK first \in {1, 2} : tool' = [phase |-> "ready", at |-> first]
  BY DEF Opens
<1>3. first \in 1 .. Last /\ Cur(first) = 1
  BY ScriptWalks
<1>4. tool'.at = first /\ tool'.phase = "ready" /\ Place' = 1
  BY <1>2, <1>3 DEF Place
<1>5. Typed'
  BY <1>1, <1>2, <1>3, BlankIs DEF PInv, Typed
<1>6. EndIsLast' /\ WritesStaged' /\ InStep' /\ Early'
  BY <1>1 DEF EndIsLast, WritesStaged, InStep, Early
<1>7. StagesPlace' /\ OKIsStored' /\ DoneIsStored'
  BY <1>1, <1>4, BlankIs DEF PInv, StagesPlace, OKIsStored, DoneIsStored, Waiting
<1>8. SoFarStored'
  BY <1>4, SlotsAre DEF SoFarStored
<1> QED
  BY <1>5, <1>6, <1>7, <1>8 DEF PInv

LEMMA SendsKeeps == ASSUME PInv, Sends PROVE PInv'
<1>1. /\ tool.phase = "ready" /\ tool' = [tool EXCEPT !.phase = "waiting"] /\ replies' = <<>>
      /\ UNCHANGED <<staged, nvs, ram, writing, tls, runs>>
  BY DEF Sends
<1>2. /\ tool' \in [phase : {"off", "ready", "waiting", "failed", "done"}, at : 1 .. Last]
      /\ tool'.at = tool.at /\ tool'.phase = "waiting"
  BY <1>1 DEF PInv, Typed
<1>3. Cmd' = Cmd /\ Place' = Place /\ Active /\ Active' /\ ~ Waiting /\ Waiting'
  BY <1>1, <1>2 DEF Cmd, Place, Active, Waiting
<1>4. PICK c \in {Cmd, Garbled(Cmd)} : lines' = Append(lines, c) \/ lines' = lines
  BY DEF Sends, Cmd
<1>5. /\ c \in Command /\ (c.op = "END" => Cmd.op = "END") /\ (c.op = "ERASE" => Place = 1)
      /\ c.op = "BEGIN" => Cmd.op = "BEGIN" /\ c.slot \in {NoSlot, Slots[Place]}
  BY CmdIs, GarbledIs DEF PInv
<1>6. /\ lines' \in Seq(Command) /\ Len(lines') \in Nat
      /\ \A i \in DOMAIN lines' : (i \in DOMAIN lines /\ lines'[i] = lines[i])
                                    \/ (i = Len(lines') /\ lines'[i] = c)
  <2>1. lines \in Seq(Command) /\ Len(lines) \in Nat
    BY DEF PInv, Typed
  <2>2. CASE lines' = lines
    BY <2>1, <2>2
  <2>3. CASE lines' = Append(lines, c)
    BY <1>5, <2>1, <2>3
  <2> QED
    BY <1>4, <2>2, <2>3
<1>7. Typed'
  BY <1>1, <1>2, <1>6, BlankIs DEF PInv, Typed
<1>8. \A i \in DOMAIN lines : lines[i].op # "END"
  BY <1>3 DEF PInv, EndIsLast
<1>9. EndIsLast' /\ WritesStaged'
  <2>1. Decoded' = Decoded
    BY <1>1 DEF Decoded
  <2>2. writing = NoSlot
    BY <1>3 DEF PInv, EndIsLast
  <2> QED
    BY <1>1, <1>3, <1>5, <1>6, <1>8, <2>1, <2>2 DEF EndIsLast, WritesStaged
<1>10. InStep'
  <2> SUFFICES ASSUME Place > 1 PROVE lines' = <<>> \/ \E d \in {Cmd, Garbled(Cmd)} : lines' = <<d>>
    BY <1>1, <1>2, <1>3 DEF InStep
  <2>1. lines = <<>>
    BY <1>1, <1>3 DEF PInv, InStep
  <2> QED
    BY <1>4, <2>1
<1>11. Early'
  BY <1>3, <1>5, <1>6 DEF PInv, Early
<1>12. StagesPlace' /\ OKIsStored' /\ SoFarStored' /\ DoneIsStored'
  BY <1>1, <1>2, <1>3 DEF PInv, StagesPlace, OKIsStored, SoFarStored, DoneIsStored
<1> QED
  BY <1>7, <1>9, <1>10, <1>11, <1>12 DEF PInv

\* The tool gives up.
LEMMA FailsKeeps ==
  ASSUME PInv, tool' = [tool EXCEPT !.phase = "failed"],
         UNCHANGED <<lines, staged, nvs, ram, writing, tls>>, replies' \in {replies, <<>>}
  PROVE  PInv'
<1>1. /\ tool' \in [phase : {"off", "ready", "waiting", "failed", "done"}, at : 1 .. Last]
      /\ tool'.phase = "failed"
  BY DEF PInv, Typed
<1>2. Typed'
  <2>1. replies' \in Seq(Answer) /\ Len(replies') <= 1
    <3>1. CASE replies' = replies
      BY <3>1 DEF PInv, Typed
    <3>2. CASE replies' = <<>>
      BY <3>2, BlankIs DEF PInv
    <3> QED
      BY <3>1, <3>2
  <2> QED
    BY <1>1, <2>1 DEF PInv, Typed
<1>3. Decoded' = Decoded
  BY DEF Decoded
<1>4. ~ Active' /\ ~ Waiting'
  BY <1>1 DEF Active, Waiting
<1> QED
  BY <1>1, <1>2, <1>3, <1>4 DEF PInv, EndIsLast, WritesStaged, InStep, Early, StagesPlace, OKIsStored,
     SoFarStored, DoneIsStored

\* The tool goes on.
LEMMA GoesOn ==
  ASSUME PInv, Waiting, tool.at # Last, tool' = [phase |-> "ready", at |-> tool.at + 1],
         UNCHANGED <<lines, staged, nvs, ram, writing, tls>>, replies' = <<>>,
         Cmd.op = "ERASE" \/ (replies # <<>> /\ Head(replies).is = "OK"
                                /\ (Cmd.op = "END" => Head(replies).says = Cmd.slot))
  PROVE  PInv'
<1>1. tool.at \in 1 .. Last /\ tool'.at = tool.at + 1 /\ tool'.phase = "ready"
  BY DEF PInv, Typed
<1>2. /\ tool'.at \in 1 .. Last
      /\ Cmd.op = "END" => Place' = Place + 1 /\ Cmd'.op \in {"BEGIN", "STATUS"}
      /\ Cmd.op # "END" => Place' = Place
      /\ Cmd'.op \in {"C", "END"} => Cmd.op \in {"BEGIN", "C"}
  BY <1>1, CommandAfter DEF Cmd, Place
<1>3. Active /\ Active' /\ ~ Waiting'
  BY <1>1 DEF Active, Waiting
<1>4. Cmd.op = "END" => lines = <<>> /\ writing = NoSlot /\ nvs[Cmd.slot] = "new"
  BY DEF PInv, OKIsStored
<1>5. Place > 1 => lines = <<>>
  BY <1>3, CmdIs DEF PInv, InStep
<1>6. Place \in 1 .. Len(Slots) + 1 /\ Len(Slots) \in Nat
  BY CmdIs, SlotsAre DEF PInv
<1>7. writing = NoSlot /\ \A i \in DOMAIN lines : lines[i].op # "END"
  BY <1>3, <1>4 DEF PInv, EndIsLast
<1>8. Typed'
  BY <1>1, <1>2, BlankIs DEF PInv, Typed
<1>9. EndIsLast' /\ WritesStaged' /\ OKIsStored' /\ DoneIsStored'
  BY <1>1, <1>3, <1>7 DEF EndIsLast, WritesStaged, OKIsStored, DoneIsStored
<1>10. InStep'
  BY <1>2, <1>3, <1>4, <1>5 DEF InStep
<1>11. Early'
  <2>1. Place' > 1 => lines = <<>>
    BY <1>2, <1>4, <1>5
  <2>2. Place' = 1 => Place = 1
    BY <1>2, <1>6
  <2>3. Place' = 1 \/ Place' > 1
    BY <1>2, <1>6
  <2> QED
    BY <1>3, <2>1, <2>2, <2>3 DEF PInv, Early
<1>12. StagesPlace'
  <2> SUFFICES ASSUME Place' = 1 \/ Cmd'.op \in {"C", "END"}
               PROVE  staged.slot \in {NoSlot, Slots[Place']}
    BY <1>3 DEF StagesPlace
  <2>1. Cmd.op # "END" /\ Place' = Place
    BY <1>2, <1>6
  <2>2. Place = 1 \/ (Place > 1 /\ Cmd.op \in {"BEGIN", "C"})
    BY <1>2, <1>6, <2>1
  <2>3. Cmd.op # "ERASE" \/ Place = 1
    BY CmdIs DEF PInv
  <2> QED
    BY <1>3, <2>1, <2>2, <2>3 DEF PInv, StagesPlace
<1>13. SoFarStored'
  <2> SUFFICES ASSUME NEW i \in 1 .. Len(Slots), i < Place' PROVE nvs[Slots[i]] = "new"
    BY DEF SoFarStored
  <2>1. CASE i < Place
    BY <1>3, <2>1 DEF PInv, SoFarStored
  <2>2. CASE ~ (i < Place)
    <3>1. Cmd.op = "END" /\ i = Place
      BY <1>2, <1>6, <2>2
    <3>2. Cmd.slot = Slots[i]
      BY <3>1, CmdIs DEF PInv
    <3> QED
      BY <1>4, <3>1, <3>2
  <2> QED
    BY <2>1, <2>2
<1> QED
  BY <1>8, <1>9, <1>10, <1>11, <1>12, <1>13 DEF PInv

LEMMA ReceivesKeeps == ASSUME PInv, Receives PROVE PInv'
<1> DEFINE r == Head(replies)
<1>1. /\ Waiting /\ replies # <<>> /\ replies' = <<>>
      /\ tool' = After(Accepted(Cmd, r))
      /\ UNCHANGED <<lines, staged, nvs, ram, writing, tls, runs, faults>>
  BY DEF Receives, Waiting, Cmd
<1> HIDE DEF r
<1>2. CASE ~ Accepted(Cmd, r)
  <2>1. tool' = [tool EXCEPT !.phase = "failed"]
    BY <1>1, <1>2 DEF After
  <2> QED
    BY <1>1, <2>1, FailsKeeps
<1>3. CASE Accepted(Cmd, r) /\ tool.at # Last
  <2>1. tool' = [phase |-> "ready", at |-> tool.at + 1]
    BY <1>1, <1>3 DEF After
  <2>2. Cmd.op \in {"ERASE", "BEGIN", "C", "END"}
    BY <1>3, CmdIs DEF PInv, Command
  <2>3. Cmd.op = "ERASE" \/ (r.is = "OK" /\ (Cmd.op = "END" => r.says = Cmd.slot))
    BY <1>3, <2>2 DEF Accepted, LengthMatches
  <2> QED
    BY <1>1, <1>3, <2>1, <2>3, GoesOn DEF r
<1>4. CASE Accepted(Cmd, r) /\ tool.at = Last
  <2>1. tool' = [tool EXCEPT !.phase = "done"]
    BY <1>1, <1>4 DEF After
  <2>2. /\ tool' \in [phase : {"off", "ready", "waiting", "failed", "done"}, at : 1 .. Last]
        /\ tool'.phase = "done"
    BY <2>1 DEF PInv, Typed
  <2>3. Active /\ ~ Active' /\ ~ Waiting'
    BY <1>1, <2>2 DEF Active, Waiting
  <2>4. Cmd.op = "STATUS" /\ Place = Len(Slots) + 1 /\ Len(Slots) \in Nat \ {0}
    BY <1>4, CmdIs, SlotsAre DEF PInv
  <2>5. lines = <<>> /\ writing = NoSlot
    BY <1>1, <2>3, <2>4 DEF PInv, InStep, EndIsLast
  <2>6. \A s \in Slot : nvs[s] = "new"
    <3>1. \A i \in 1 .. Len(Slots) : nvs[Slots[i]] = "new"
      BY <2>3, <2>4 DEF PInv, SoFarStored
    <3> QED
      BY <3>1, SlotsAre
  <2>7. Typed'
    BY <1>1, <2>2, BlankIs DEF PInv, Typed
  <2> QED
    BY <1>1, <2>3, <2>5, <2>6, <2>7 DEF PInv, EndIsLast, WritesStaged, InStep, Early, StagesPlace,
       OKIsStored, SoFarStored, DoneIsStored
<1> QED
  BY <1>2, <1>3, <1>4

LEMMA TimesOutKeeps == ASSUME PInv, TimesOut PROVE PInv'
<1>1. /\ Waiting /\ replies = <<>> /\ replies' = <<>>
      /\ tool' = After(Cmd.op = "ERASE")
      /\ UNCHANGED <<lines, staged, nvs, ram, writing, tls, runs, faults>>
  BY DEF TimesOut, Waiting, Cmd
<1>2. CASE Cmd.op = "ERASE"
  <2>1. tool.at # Last
    BY <1>2, CmdIs, ScriptWalks DEF PInv
  <2>2. tool' = [phase |-> "ready", at |-> tool.at + 1]
    BY <1>1, <1>2, <2>1 DEF After
  <2> QED
    BY <1>1, <1>2, <2>1, <2>2, GoesOn
<1>3. CASE Cmd.op # "ERASE"
  <2>1. tool' = [tool EXCEPT !.phase = "failed"]
    BY <1>1, <1>3 DEF After
  <2> QED
    BY <1>1, <2>1, FailsKeeps
<1> QED
  BY <1>2, <1>3

\* What touches neither tool, cable, flash nor what is staged.
LEMMA ApartKeeps ==
  ASSUME PInv, UNCHANGED <<tool, lines, replies, staged, nvs, ram, writing>>,
         tls' \in {"unset", "held", "freed"}
  PROVE  PInv'
<1>1. UNCHANGED <<Cmd, Place, Active, Waiting>> /\ Decoded' = Decoded
  BY SamePlace DEF Decoded
<1>2. Typed'
  BY DEF PInv, Typed
<1> QED
  BY <1>1, <1>2 DEF PInv, EndIsLast, WritesStaged, InStep, Early, StagesPlace, OKIsStored,
     SoFarStored, DoneIsStored

-----------------------------------------------------------------------------
(* Update.                                                                 *)

Wholes == { Whole(b) : b \in Builds }

UTyped ==
  /\ files \in [Version -> Seq(Builds)]
  /\ manifest = NoManifest \/ manifest \in [version : Version, sha256 : Wholes]
  /\ publish \in [step : {"none", "image", "half", "manifest", "torn"},
                  build : Builds, version : Version \cup {0}]
  /\ ota \in [step : {"idle", "offered", "loading"}, version : Version \cup {0},
              sha256 : Wholes \cup {<<>>}, size : Nat, got : Seq(Builds)]

\* A file is as long as the release that writes it has come.
Lengths ==
  /\ \A v \in Version : Len(files[v]) <= 2
  /\ publish.step # "none" => publish.version \in Version
  /\ publish.step = "image" => Len(files[publish.version]) = 0
  /\ publish.step = "half" => Len(files[publish.version]) = 1

\* A manifest has the digest of one build, as has what is downloaded for it.
OneDigest ==
  /\ running \in Wholes
  /\ ota.step # "idle" => ota.sha256 \in Wholes /\ ota.version \in Version

UInv == UTyped /\ Lengths /\ OneDigest

LEMMA QuietIs ==
  Quiet \in [step : {"idle", "offered", "loading"}, version : Version \cup {0},
             sha256 : Wholes \cup {<<>>}, size : Nat, got : Seq(Builds)]
<1>1. <<>> \in Seq(Builds)
  OBVIOUS
<1> QED
  BY <1>1 DEF Quiet

LEMMA UInitIs == UInit => UInv
<1> SUFFICES ASSUME UInit PROVE UInv
  OBVIOUS
<1>1. First \in Builds /\ <<>> \in Seq(Builds) /\ Len(<<>>) = 0
  BY UpdateAssumption
<1>2. UTyped
  BY <1>1, QuietIs DEF UInit, UTyped, NoRelease
<1>3. Lengths /\ OneDigest
  BY <1>1 DEF UInit, Lengths, OneDigest, NoRelease, Quiet, Wholes
<1> QED
  BY <1>2, <1>3 DEF UInv

LEMMA ReleaseKeeps == ASSUME UInv, ReleaseStep PROVE UInv'
<1>1. ASSUME NEW b \in Builds, NEW v \in Labels[b], Release(b, v) PROVE UInv'
  <2>1. v \in Version
    BY UpdateAssumption DEF Version
  <2>2. /\ publish' = [step |-> "image", build |-> b, version |-> v]
        /\ files' = [files EXCEPT ![v] = <<>>] /\ UNCHANGED <<manifest, running, ota, drops>>
    BY <1>1 DEF Release, node
  <2>3. <<>> \in Seq(Builds) /\ Len(<<>>) = 0 /\ files \in [Version -> Seq(Builds)]
    BY DEF UInv, UTyped
  <2>4. /\ files' \in [Version -> Seq(Builds)] /\ Len(files'[v]) = 0
        /\ \A w \in Version : files'[w] = files[w] \/ Len(files'[w]) = 0
    BY <2>1, <2>2, <2>3
  <2>5. UTyped'
    BY <2>1, <2>2, <2>4 DEF UInv, UTyped
  <2>6. Lengths'
    BY <2>1, <2>2, <2>4 DEF UInv, Lengths
  <2>7. OneDigest'
    BY <2>2 DEF UInv, OneDigest
  <2> QED
    BY <2>5, <2>6, <2>7 DEF UInv
<1>2. CASE Writes
  <2> DEFINE v == publish.version
             image == files[v]
             step == IF publish.step = "image" THEN "half" ELSE "manifest"
  <2>1. /\ v \in Version /\ image \in Seq(Builds) /\ publish.build \in Builds
        /\ Len(image) = IF publish.step = "image" THEN 0 ELSE 1
    BY <1>2 DEF Writes, UInv, UTyped, Lengths
  <2>2. /\ files' = [files EXCEPT ![v] = Append(image, publish.build)]
        /\ UNCHANGED <<manifest, running, ota, drops>>
    BY <1>2 DEF Writes, node
  <2>3. publish' = [publish EXCEPT !.step = step]
    BY <1>2 DEF Writes
  <2>4. publish' = [step |-> step, build |-> publish.build, version |-> v]
    BY <2>3 DEF UInv, UTyped
  <2>5. Append(image, publish.build) \in Seq(Builds) /\ Len(Append(image, publish.build)) = Len(image) + 1
    BY <2>1
  <2> HIDE DEF v, image
  <2>6. /\ files' \in [Version -> Seq(Builds)] /\ Len(files'[v]) = Len(image) + 1
        /\ \A w \in Version : w # v => files'[w] = files[w]
    BY <2>1, <2>2, <2>5 DEF UInv, UTyped
  <2>7. UTyped'
    BY <2>1, <2>2, <2>4, <2>6 DEF UInv, UTyped
  <2>8. Lengths'
    <3>1. publish'.step = step /\ publish'.version = v
      BY <2>4
    <3>2. step = "half" => Len(files'[v]) = 1
      BY <2>1, <2>6
    <3>3. Len(files'[v]) <= 2
      BY <2>1, <2>6
    <3> QED
      BY <2>1, <2>6, <3>1, <3>2, <3>3 DEF UInv, Lengths
  <2>9. OneDigest'
    BY <2>2 DEF UInv, OneDigest
  <2> QED
    BY <2>7, <2>8, <2>9 DEF UInv
<1>3. CASE Tears
  <2>1. publish' = [step |-> "torn", build |-> publish.build, version |-> publish.version]
    BY <1>3 DEF Tears, UInv, UTyped
  <2>2. publish.step = "manifest" /\ manifest' = NoManifest /\ UNCHANGED <<files, running, ota, drops>>
    BY <1>3 DEF Tears, node
  <2> QED
    BY <2>1, <2>2 DEF UInv, UTyped, Lengths, OneDigest
<1>4. CASE Publishes
  <2>1. publish.version \in Version /\ Whole(publish.build) \in Wholes
    BY <1>4 DEF Publishes, UInv, UTyped, Lengths, Wholes
  <2>2. /\ manifest' = [version |-> publish.version, sha256 |-> Whole(publish.build)]
        /\ publish' = NoRelease /\ UNCHANGED <<files, running, ota, drops>>
    BY <1>4 DEF Publishes, node
  <2>3. manifest' \in [version : Version, sha256 : Wholes]
    <3> HIDE DEF Wholes
    <3> QED
      BY <2>1, <2>2
  <2>4. NoRelease.step = "none" /\ NoRelease \in
          [step : {"none", "image", "half", "manifest", "torn"}, build : Builds, version : Version \cup {0}]
    BY UpdateAssumption DEF NoRelease
  <2> QED
    BY <2>2, <2>3, <2>4 DEF UInv, UTyped, Lengths, OneDigest
<1> QED
  BY <1>1, <1>2, <1>3, <1>4 DEF ReleaseStep

\* Whatever happens to a download, the server's files stay as they are.
LEMMA OtaKeeps ==
  ASSUME UInv, UNCHANGED <<files, manifest, publish>>, running' \in Wholes,
         ota' \in [step : {"idle", "offered", "loading"}, version : Version \cup {0},
                   sha256 : Wholes \cup {<<>>}, size : Nat, got : Seq(Builds)],
         ota'.step # "idle" => ota'.sha256 \in Wholes /\ ota'.version \in Version
  PROVE  UInv'
BY DEF UInv, UTyped, Lengths, OneDigest

LEMMA QuietKeeps ==
  ASSUME UInv, ota' = Quiet, UNCHANGED server, running' \in Wholes
  PROVE  UInv'
<1>1. Quiet.step = "idle"
  BY DEF Quiet
<1> QED
  BY <1>1, QuietIs, OtaKeeps DEF server

LEMMA UpdateKeeps ==
  ASSUME UInv, Polls \/ Requests \/ Reads \/ Drops \/ Refuses \/ Commits \/ Abandons
  PROVE  UInv'
<1>1. running \in Wholes
  BY DEF UInv, OneDigest
<1>2. CASE Polls
  <2>1. manifest \in [version : Version, sha256 : Wholes]
    BY <1>2 DEF Polls, UInv, UTyped
  <2>2. ota' = [step |-> "offered", version |-> manifest.version, sha256 |-> manifest.sha256,
                size |-> 0, got |-> <<>>]
    BY <1>2 DEF Polls, Quiet
  <2>3. <<>> \in Seq(Builds) /\ manifest.version \in Version /\ manifest.sha256 \in Wholes
    BY <2>1
  <2>4. UNCHANGED <<files, manifest, publish, running>>
    BY <1>2 DEF Polls, server
  <2> HIDE DEF Wholes
  <2> QED
    BY <1>1, <2>2, <2>3, <2>4, OtaKeeps
<1>3. CASE Requests
  <2>1. CASE ota' = Quiet
    BY <1>1, <1>3, <2>1, QuietKeeps DEF Requests
  <2>2. CASE ota' # Quiet
    <3>1. ota.step = "offered" /\ ota' = [ota EXCEPT !.step = "loading", !.size = 2]
      BY <1>3, <2>2 DEF Requests
    <3>2. ota' = [step |-> "loading", version |-> ota.version, sha256 |-> ota.sha256,
                  size |-> 2, got |-> ota.got]
      BY <3>1 DEF UInv, UTyped
    <3>3. UNCHANGED <<files, manifest, publish, running>>
      BY <1>3 DEF Requests, server
    <3>4. ota.sha256 \in Wholes /\ ota.version \in Version /\ ota.got \in Seq(Builds)
      BY <3>1 DEF UInv, UTyped, OneDigest
    <3> HIDE DEF Wholes
    <3> QED
      BY <1>1, <3>2, <3>3, <3>4, OtaKeeps
  <2> QED
    BY <2>1, <2>2
<1>4. CASE Reads
  <2> DEFINE image == files[ota.version]
             next == Len(ota.got) + 1
  <2>1. CASE ota' = Quiet
    BY <1>1, <1>4, <2>1, QuietKeeps DEF Reads
  <2>2. CASE ota' # Quiet
    <3>1. ota.step = "loading" /\ next \in DOMAIN image
          /\ ota' = [ota EXCEPT !.got = Append(ota.got, image[next])]
      BY <1>4, <2>2 DEF Reads
    <3>2. ota' = [step |-> "loading", version |-> ota.version, sha256 |-> ota.sha256,
                  size |-> ota.size, got |-> Append(ota.got, image[next])]
      BY <3>1 DEF UInv, UTyped
    <3>3. UNCHANGED <<files, manifest, publish, running>>
      BY <1>4 DEF Reads, server
    <3>4. /\ ota.sha256 \in Wholes /\ ota.version \in Version /\ ota.got \in Seq(Builds)
          /\ ota.size \in Nat /\ image \in Seq(Builds)
      BY <3>1 DEF UInv, UTyped, OneDigest
    <3>5. Append(ota.got, image[next]) \in Seq(Builds)
      <4> HIDE DEF image, next
      <4> QED
        BY <3>1, <3>4
    <3> HIDE DEF Wholes, image, next
    <3> QED
      BY <1>1, <3>2, <3>3, <3>4, <3>5, OtaKeeps
  <2> QED
    BY <2>1, <2>2
<1>5. CASE Drops
  BY <1>1, <1>5, QuietKeeps DEF Drops
<1>6. CASE Refuses
  BY <1>1, <1>6, QuietKeeps DEF Refuses
<1>7. CASE Commits
  <2>1. running' \in Wholes /\ ota' = Quiet /\ UNCHANGED server
    BY <1>7 DEF Commits, Matches, UInv, OneDigest
  <2> QED
    BY <2>1, QuietKeeps
<1>8. CASE Abandons
  BY <1>1, <1>8, QuietKeeps DEF Abandons
<1> QED
  BY <1>2, <1>3, <1>4, <1>5, <1>6, <1>7, <1>8

LEMMA ServerKept ==
  ASSUME UInv, UNCHANGED uvars
  PROVE  UInv'
BY DEF UInv, UTyped, Lengths, OneDigest, uvars

-----------------------------------------------------------------------------
(* The node looked after.                                                  *)

IInv == PInv /\ UInv /\ restarts \in 0 .. MaxRestarts

LEMMA PInitIs == PInit => PInv
<1> SUFFICES ASSUME PInit PROVE PInv
  OBVIOUS
<1>1. /\ tool = [phase |-> "off", at |-> 1] /\ lines = <<>> /\ replies = <<>> /\ staged = Blank
      /\ writing = NoSlot /\ tls = "unset" /\ ram = nvs
  BY DEF PInit
<1>2. nvs \in [Slot -> Stored]
  <2>1. PICK c \in {"none", "old"} : nvs = [s \in Slot |-> c]
    BY DEF PInit
  <2> QED
    BY <2>1 DEF Stored
<1>3. 1 \in 1 .. Last
  BY ScriptWalks
<1>4. /\ tool \in [phase : {"off", "ready", "waiting", "failed", "done"}, at : 1 .. Last]
      /\ tool.phase = "off"
  BY <1>1, <1>3
<1>5. Typed
  <2>1. lines \in Seq(Command) /\ replies \in Seq(Answer) /\ Len(replies) <= 1
    BY <1>1
  <2>2. staged \in Staging
    <3> DEFINE T == (Slot \cup {NoSlot}) \X (0 .. Chunks)
    <3> HIDE DEF T
    <3>1. Blank \in [slot : Slot \cup {NoSlot}, chunks : Seq(T)]
      BY DEF Blank
    <3> QED
      BY <1>1, <3>1 DEF Staging, T
  <2> QED
    BY <1>1, <1>2, <1>4, <2>1, <2>2 DEF Typed
<1>6. ~ Active /\ ~ Waiting
  BY <1>4 DEF Active, Waiting
<1> QED
  BY <1>1, <1>4, <1>5, <1>6 DEF PInv, EndIsLast, WritesStaged, InStep, Early, StagesPlace, OKIsStored,
     SoFarStored, DoneIsStored

LEMMA InitIs == Init => IInv
BY PInitIs, UInitIs, UpkeepAssumption DEF Init, IInv

\* What the update part does alone leaves the provisioning part as it is.
LEMMA UntouchedKeeps == ASSUME PInv, UNCHANGED pvars PROVE PInv'
BY ApartKeeps DEF pvars, PInv, Typed

\* Each step of the node, the tool and the server.
LEMMA NextKeeps == ASSUME IInv, [Next]_vars PROVE IInv'
<1> USE DEF IInv
<1>1. CASE Provision
  <2>1. UInv' /\ UNCHANGED restarts
    BY <1>1, ServerKept DEF Provision
  <2>2. CASE HandleLine
    BY <2>1, <2>2, LineKeeps
  <2>3. CASE StoreEnds
    BY <2>1, <2>3, StoreEndsKeeps
  <2>4. CASE Configures
    BY <2>1, <2>4, ApartKeeps DEF Configures
  <2>5. CASE Sends
    BY <2>1, <2>5, SendsKeeps
  <2>6. CASE Receives
    BY <2>1, <2>6, ReceivesKeeps
  <2>7. CASE TimesOut
    BY <2>1, <2>7, TimesOutKeeps
  <2> QED
    BY <1>1, <2>2, <2>3, <2>4, <2>5, <2>6, <2>7 DEF Provision
<1>2. CASE Attach
  BY <1>2, OpensKeeps, UpdateKeeps DEF Attach
<1>3. CASE Publish
  BY <1>3, UntouchedKeeps, ReleaseKeeps DEF Publish
<1>4. CASE Poll
  BY <1>4, UntouchedKeeps, UpdateKeeps DEF Poll
<1>5. CASE Download
  BY <1>5, UntouchedKeeps, UpdateKeeps DEF Download
<1>6. CASE Install
  BY <1>6, RestartsKeep, UpdateKeeps DEF Install
<1>7. CASE PowerCut
  <2>1. restarts' \in 0 .. MaxRestarts
    BY <1>7, UpkeepAssumption DEF PowerCut
  <2> QED
    BY <1>7, <2>1, RestartsKeep, UpdateKeeps DEF PowerCut
<1>8. CASE UNCHANGED vars
  BY <1>8, UntouchedKeeps, ServerKept DEF vars
<1> QED
  BY <1>1, <1>2, <1>3, <1>4, <1>5, <1>6, <1>7, <1>8 DEF Next

LEMMA IInvHolds == Spec => []IInv
<1>1. IInv /\ [Next]_vars => IInv'
  BY NextKeeps
<1> QED
  BY <1>1, InitIs, PTL DEF Spec

LEMMA TypesFollow == IInv => TypeOK
<1> SUFFICES ASSUME IInv PROVE TypeOK
  OBVIOUS
<1>1. PTypeOK
  BY DEF IInv, PInv, Typed, Staging, PTypeOK
<1>2. running \in Builds \X Builds
  BY DEF IInv, UInv, OneDigest, Wholes, Whole
<1>3. UTypeOK
  BY <1>2 DEF IInv, UInv, UTyped, Lengths, UTypeOK
<1> QED
  BY <1>1, <1>3 DEF IInv, TypeOK

\* Every variable of tool, node and server has its type in every state; so no file
\* is ever longer than an image, whatever is released while it is downloaded.
THEOREM UpkeepTypeCorrect == Spec => []TypeOK
BY IInvHolds, TypesFollow, PTL

\* "Provisioned." is said only of a node with every credential whole in flash, for any
\* number of slots and chunks and however many characters and lines are lost, replies are
\* lost or late, restarts come in between or stores fail (provision.py main(),
\* handle_line()).  A line changed at equal length is not among the faults.
THEOREM ProvisionedMeansStored == Spec => []SuccessMeansStored
<1>1. IInv => SuccessMeansStored
  BY DEF IInv, PInv, DoneIsStored, SuccessMeansStored
<1> QED
  BY <1>1, IInvHolds, PTL

\* The image a node boots is one build from end to end, for any builds and versions,
\* however often images are replaced under a download (ota.cpp download()).
THEOREM BootsWholeBuilds == Spec => []RunsOneBuild
<1>1. IInv => RunsOneBuild
  BY DEF IInv, UInv, OneDigest, Wholes, RunsOneBuild
<1> QED
  BY <1>1, IInvHolds, PTL

-----------------------------------------------------------------------------
(* The migration of an old ring (RingMigration), for every size of ring and *)
(* file, every backlog and any number of cuts and failures.                 *)

\* Whatever a boot did, a slot holds its own reading or zeroes.
InPlace == \A s \in NewSlots : slot[s] \in {s + 1, Zeroes}

\* Without a failure a header counts the whole backlog, in its order, or nothing.
Sound(h) ==
  fails = 0 /\ h.count > 0 =>
    h.count = old.count /\ \A k \in 0 .. (old.count - 1) : slot[k] = k + 1

\* What is carried and not in the block any more is in its slots; the block holds
\* the rest and zeroes behind it.
Flushed == carried - (carried % PerFile)

Copying ==
  pc = "copy" =>
    /\ carried = nextOld /\ nextOld < old.count
    /\ block = [j \in 0 .. (PerFile - 1) |->
                  IF j < carried % PerFile THEN Flushed + j + 1 ELSE Zeroes]
    /\ fails = 0 => \A s \in 0 .. (Flushed - 1) : slot[s] = s + 1

Copied ==
  pc \in {"remove", "commit"} /\ fails = 0 /\ carried > 0 =>
    carried = old.count /\ \A s \in 0 .. (carried - 1) : slot[s] = s + 1

\* The ring is created over no header and filled behind an empty one.
HeadersAt ==
  /\ pc \in {"create", "createHeader"} => header = NoHeader
  /\ pc \in {"open", "copy", "remove", "commit"} => header = EmptyRing
  /\ pc # "up" => hdr = EmptyRing
  /\ header = NoHeader \/ header.count >= 0
  /\ pc \in {"off", "create", "createHeader", "open"} =>
       nextOld = 0 /\ carried = 0 /\ block = ZeroBlock

MInv ==
  MTypeOK /\ InPlace /\ Sound(header) /\ Sound(hdr) /\ Copying /\ Copied /\ HeadersAt

LEMMA DivFile ==
  ASSUME NEW x \in Nat
  PROVE  /\ x \div PerFile \in Nat /\ x % PerFile \in 0 .. (PerFile - 1)
         /\ x = PerFile * (x \div PerFile) + (x % PerFile)
         /\ PerFile * (x \div PerFile) \in Nat
<1>1. PerFile \in Nat /\ PerFile > 0
  BY MigrationAssumption
<1> QED
  BY <1>1

\* A number is in the file that begins at or before it and ends behind it.
LEMMA InFile ==
  ASSUME NEW x \in Nat, NEW q \in Nat, NEW r \in 0 .. (PerFile - 1),
         x = PerFile * q + r
  PROVE  x \div PerFile = q /\ x % PerFile = r
<1>1. PerFile \in Nat /\ PerFile > 0
  BY MigrationAssumption
<1> DEFINE d == x \div PerFile
           m == x % PerFile
<1>2. d \in Nat /\ m \in 0 .. (PerFile - 1) /\ x = PerFile * d + m
  BY DivFile
<1> HIDE DEF d, m
<1>3. ~ (d < q)
  <2> SUFFICES ASSUME d < q PROVE FALSE
    OBVIOUS
  <2>1. PICK e \in Nat : q = d + 1 + e
    <3>1. q - d - 1 \in Nat /\ q = d + 1 + (q - d - 1)
      BY <1>2
    <3> QED
      BY <3>1
  <2>2. PerFile * q = PerFile * d + PerFile + PerFile * e
    BY <1>1, <1>2, <2>1
  <2>3. PerFile * e \in Nat /\ PerFile * d \in Nat
    BY <1>1, <1>2
  <2> QED
    BY <1>1, <1>2, <2>2, <2>3
<1>4. ~ (q < d)
  <2> SUFFICES ASSUME q < d PROVE FALSE
    OBVIOUS
  <2>1. PICK e \in Nat : d = q + 1 + e
    <3>1. d - q - 1 \in Nat /\ d = q + 1 + (d - q - 1)
      BY <1>2
    <3> QED
      BY <3>1
  <2>2. PerFile * d = PerFile * q + PerFile + PerFile * e
    BY <1>1, <1>2, <2>1
  <2>3. PerFile * e \in Nat /\ PerFile * q \in Nat
    BY <1>1, <1>2
  <2> QED
    BY <1>1, <1>2, <2>2, <2>3
<1>5. d = q
  BY <1>2, <1>3, <1>4
<1>6. m = r
  BY <1>1, <1>2, <1>5
<1> QED
  BY <1>5, <1>6 DEF d, m

\* The ring fits the files.
LEMMA RingFits ==
  /\ Capacity \in Nat /\ Capacity > 0 /\ PerFile \in Nat /\ PerFile > 0 /\ Files \in Nat
  /\ 0 .. (Capacity - 1) \subseteq NewSlots /\ NewSlots \subseteq Nat
<1>1. Capacity \in Nat /\ Capacity > 0 /\ PerFile \in Nat /\ PerFile > 0
  BY MigrationAssumption
<1> DEFINE x == Capacity + PerFile - 1
           m == x % PerFile
           n == Files * PerFile
<1>2. x \in Nat
  BY <1>1
<1>3. m \in 0 .. (PerFile - 1) /\ Files \in Nat /\ x = PerFile * Files + m
  BY <1>2, DivFile DEF Files
<1>4. n \in Nat /\ n = PerFile * Files
  BY <1>1, <1>3
<1> HIDE DEF m, n
<1>5. n >= Capacity
  BY <1>1, <1>3, <1>4
<1> QED
  BY <1>1, <1>3, <1>4, <1>5 DEF NewSlots, n

\* migrateLegacy() reads the old ring from its tail around its end.
LEMMA LegacyInOrder ==
  ASSUME MTypeOK, NEW n \in Nat, n < old.count
  PROVE  LegacyAt((old.tail + n) % Capacity) = n + 1
<1>1. /\ Capacity \in Nat /\ old.tail \in Nat /\ old.tail < Capacity
      /\ old.count \in Nat /\ old.count <= Capacity
  BY RingFits DEF MTypeOK
<1>2. CASE old.tail + n < Capacity
  <2>1. (old.tail + n) % Capacity = old.tail + n
    BY <1>1, <1>2
  <2>2. ((old.tail + n) - old.tail + Capacity) % Capacity = n
    <3>1. (old.tail + n) - old.tail + Capacity = n + Capacity
      BY <1>1
    <3>2. (n + Capacity) % Capacity = n
      BY <1>1, SMTT(30)
    <3> QED
      BY <3>1, <3>2
  <2> QED
    BY <2>1, <2>2 DEF LegacyAt
<1>3. CASE old.tail + n >= Capacity
  <2>1. (old.tail + n) % Capacity = old.tail + n - Capacity
    BY <1>1, <1>3
  <2>2. ((old.tail + n - Capacity) - old.tail + Capacity) % Capacity = n
    BY <1>1
  <2> QED
    BY <2>1, <2>2 DEF LegacyAt
<1> QED
  BY <1>1, <1>2, <1>3

LEMMA Divided ==
  ASSUME MInv, pc = "copy"
  PROVE  /\ carried \in Nat /\ carried < old.count /\ carried < Capacity
         /\ old.count \in Nat /\ old.count <= Capacity
         /\ carried % PerFile \in 0 .. (PerFile - 1)
         /\ carried \div PerFile \in Nat
         /\ Flushed = PerFile * (carried \div PerFile) /\ Flushed \in Nat
         /\ carried = Flushed + (carried % PerFile)
<1>1. carried \in Nat /\ carried < old.count /\ old.count \in Nat /\ old.count <= Capacity
  BY RingFits DEF MInv, MTypeOK, Copying
<1> QED
  BY <1>1, DivFile, RingFits DEF Flushed

LEMMA BlockFilled ==
  ASSUME MInv, pc = "copy"
  PROVE  /\ FilledBlock \in [0 .. (PerFile - 1) -> 0 .. Capacity]
         /\ \A j \in 0 .. (PerFile - 1) :
              FilledBlock[j] = IF j <= carried % PerFile THEN Flushed + j + 1 ELSE Zeroes
<1> DEFINE r == carried % PerFile
<1>1. r \in 0 .. (PerFile - 1) /\ carried = Flushed + r /\ Flushed \in Nat
  BY Divided
<1>2. LegacyAt((old.tail + nextOld) % Capacity) = Flushed + r + 1
  <2>1. carried = nextOld /\ carried < old.count /\ carried \in Nat
    BY Divided DEF MInv, Copying
  <2>2. MTypeOK
    BY DEF MInv
  <2>3. LegacyAt((old.tail + carried) % Capacity) = carried + 1
    BY <2>1, <2>2, LegacyInOrder
  <2> QED
    BY <1>1, <2>1, <2>3
<1>3. block = [j \in 0 .. (PerFile - 1) |-> IF j < r THEN Flushed + j + 1 ELSE Zeroes]
  BY DEF MInv, Copying
<1>4. FilledBlock = [block EXCEPT ![r] = Flushed + r + 1]
  BY <1>2 DEF FilledBlock
<1> HIDE DEF r
<1>5. \A j \in 0 .. (PerFile - 1) :
        FilledBlock[j] = IF j <= r THEN Flushed + j + 1 ELSE Zeroes
  BY <1>1, <1>3, <1>4
<1>6. DOMAIN FilledBlock = 0 .. (PerFile - 1) /\ FilledBlock = [j \in 0 .. (PerFile - 1) |-> FilledBlock[j]]
  BY <1>3, <1>4
<1>7. \A j \in 0 .. (PerFile - 1) : FilledBlock[j] \in 0 .. Capacity
  BY <1>1, <1>5, Divided, RingFits DEF Zeroes
<1> QED
  BY <1>5, <1>6, <1>7 DEF r

\* Counting one more either fills the block or leaves it begun.
LEMMA OneMore ==
  ASSUME MInv, pc = "copy"
  PROVE  \/ (carried + 1) % PerFile = 0
         \/ /\ (carried + 1) % PerFile = (carried % PerFile) + 1
            /\ (carried % PerFile) + 1 <= PerFile - 1
<1> DEFINE r == carried % PerFile
           q == carried \div PerFile
<1>1. r \in 0 .. (PerFile - 1) /\ q \in Nat /\ carried = PerFile * q + r /\ carried \in Nat
  BY Divided
<1> HIDE DEF r, q
<1>2. PerFile \in Nat /\ PerFile > 0 /\ PerFile * q \in Nat
  BY <1>1, RingFits
<1>3. CASE r = PerFile - 1
  <2>1. carried + 1 = PerFile * (q + 1) + 0
    <3>1. PerFile * (q + 1) = PerFile * q + PerFile
      BY <1>1, <1>2
    <3> QED
      BY <1>1, <1>2, <1>3, <3>1
  <2>2. q + 1 \in Nat /\ 0 \in 0 .. (PerFile - 1) /\ carried + 1 \in Nat
    BY <1>1, <1>2
  <2> QED
    BY <2>1, <2>2, InFile
<1>4. CASE r # PerFile - 1
  <2>1. carried + 1 = PerFile * q + (r + 1) /\ r + 1 \in 0 .. (PerFile - 1) /\ carried + 1 \in Nat
    BY <1>1, <1>2, <1>4
  <2>2. (carried + 1) % PerFile = r + 1
    BY <1>1, <2>1, InFile
  <2> QED
    BY <2>1, <2>2 DEF r
<1> QED
  BY <1>3, <1>4

\* A block that is written puts each reading in its place and completes what is
\* carried.
LEMMA BlockWritten ==
  ASSUME MInv, pc = "copy",
         slot' = [s \in NewSlots |-> IF s \div PerFile = carried \div PerFile
                                       THEN FilledBlock[s % PerFile] ELSE slot[s]]
  PROVE  /\ slot' \in [NewSlots -> 0 .. Capacity]
         /\ InPlace'
         /\ fails = 0 => \A s \in 0 .. carried : slot'[s] = s + 1
<1> DEFINE q == carried \div PerFile
<1>1. slot \in [NewSlots -> 0 .. Capacity] /\ InPlace
  BY DEF MInv, MTypeOK
<1>2. /\ carried \in Nat /\ q \in Nat /\ carried % PerFile \in 0 .. (PerFile - 1)
      /\ Flushed = PerFile * q /\ Flushed \in Nat /\ carried = Flushed + (carried % PerFile)
      /\ carried < Capacity
  BY Divided
<1>3. ASSUME NEW s \in NewSlots, s \div PerFile = q
      PROVE  /\ s >= Flushed /\ slot'[s] \in {s + 1, Zeroes} /\ slot'[s] \in 0 .. Capacity
             /\ s <= carried => slot'[s] = s + 1
  <2>1. s \in Nat /\ s % PerFile \in 0 .. (PerFile - 1) /\ s = PerFile * q + (s % PerFile)
    BY <1>3, DivFile, RingFits
  <2>2. slot'[s] = FilledBlock[s % PerFile]
    BY <1>3
  <2>3. /\ FilledBlock[s % PerFile] \in 0 .. Capacity
        /\ FilledBlock[s % PerFile] =
             IF s % PerFile <= carried % PerFile THEN Flushed + (s % PerFile) + 1 ELSE Zeroes
    BY <2>1, BlockFilled
  <2> HIDE DEF q
  <2>4. s = Flushed + (s % PerFile)
    BY <1>2, <2>1
  <2> QED
    BY <1>2, <2>1, <2>2, <2>3, <2>4
<1>4. ASSUME NEW s \in NewSlots, s \div PerFile # q
      PROVE  /\ slot'[s] = slot[s] /\ slot'[s] \in {s + 1, Zeroes} /\ slot'[s] \in 0 .. Capacity
             /\ s <= carried => s < Flushed
  <2>1. slot'[s] = slot[s]
    BY <1>4
  <2>2. slot[s] \in {s + 1, Zeroes} /\ slot[s] \in 0 .. Capacity
    BY <1>1 DEF InPlace
  <2>3. ASSUME s <= carried, s >= Flushed PROVE FALSE
    <3>1. s \in Nat
      BY RingFits
    <3>2. s - Flushed \in 0 .. (PerFile - 1) /\ s = PerFile * q + (s - Flushed)
      <4> DEFINE r == carried % PerFile
      <4>1. r \in Int /\ 0 <= r /\ r <= PerFile - 1 /\ carried = Flushed + r /\ PerFile \in Nat
        BY <1>2, RingFits
      <4> HIDE DEF q, r
      <4>2. s - Flushed \in 0 .. (PerFile - 1) /\ s = Flushed + (s - Flushed)
        BY <1>2, <2>3, <3>1, <4>1
      <4> QED
        BY <1>2, <4>2
    <3>3. s \div PerFile = q
      <4> HIDE DEF q
      <4> QED
        BY <1>2, <3>1, <3>2, InFile
    <3> QED
      BY <1>4, <3>3
  <2> QED
    BY <1>2, <2>1, <2>2, <2>3, RingFits
<1>5. slot' \in [NewSlots -> 0 .. Capacity]
  <2>1. \A s \in NewSlots : slot'[s] \in 0 .. Capacity
    BY <1>3, <1>4
  <2> QED
    BY <2>1
<1>6. InPlace'
  <2>1. \A s \in NewSlots : slot'[s] \in {s + 1, Zeroes}
    BY <1>3, <1>4
  <2> QED
    BY <2>1 DEF InPlace, NewSlots
<1>7. ASSUME fails = 0, NEW s \in 0 .. carried PROVE slot'[s] = s + 1
  <2>1. s \in NewSlots /\ s \in Nat
    BY <1>2, RingFits
  <2>2. CASE s \div PerFile = q
    BY <1>3, <2>1, <2>2
  <2>3. CASE s \div PerFile # q
    <3>1. slot'[s] = slot[s] /\ s \in 0 .. (Flushed - 1)
      <4>1. slot'[s] = slot[s] /\ s < Flushed
        BY <1>2, <1>4, <2>1, <2>3
      <4> QED
        BY <1>2, <2>1, <4>1
    <3>2. slot[s] = s + 1
      BY <1>7, <3>1 DEF MInv, Copying
    <3> QED
      BY <3>1, <3>2
  <2> QED
    BY <2>2, <2>3
<1> QED
  BY <1>5, <1>6, <1>7

LEMMA MInitSound == MInit => MInv
<1> SUFFICES ASSUME MInit PROVE MInv
  OBVIOUS
<1> USE RingFits
<1>2. block \in [0 .. (PerFile - 1) -> 0 .. Capacity] /\ slot \in [NewSlots -> 0 .. Capacity]
  BY DEF MInit, ZeroBlock, Zeroes
<1>3. MTypeOK
  BY <1>2, MigrationAssumption DEF MInit, MTypeOK, NoHeader, EmptyRing
<1>4. InPlace /\ Sound(header) /\ Sound(hdr) /\ Copying /\ Copied /\ HeadersAt
  BY DEF MInit, InPlace, Sound, Copying, Copied, HeadersAt, NoHeader, EmptyRing, Zeroes
<1> QED
  BY <1>3, <1>4 DEF MInv

LEMMA MigrationKept == MInv /\ [MNext]_mvars => MInv'
<1> SUFFICES ASSUME MInv, [MNext]_mvars PROVE MInv'
  OBVIOUS
<1> USE RingFits, MigrationAssumption DEF MInv
<1>1. CASE Begin
  <2>1. UNCHANGED <<legacy, old, slot, header, file, nextOld, carried, block, cuts, fails>>
    BY <1>1 DEF Begin
  <2>2. \/ header = NoHeader /\ pc' = "create" /\ hdr' = hdr
        \/ header # NoHeader /\ pc' = "up" /\ hdr' = header
    BY <1>1 DEF Begin
  <2>3. /\ hdr'.count \in 0 .. Capacity /\ hdr'.head \in 0 .. (Capacity - 1) /\ hdr'.tail = 0
    <3>1. header # NoHeader => header.count \in 0 .. Capacity
      BY DEF MTypeOK, HeadersAt
    <3> QED
      BY <2>2, <3>1 DEF MTypeOK
  <2>4. MTypeOK'
    BY <2>1, <2>2, <2>3 DEF MTypeOK
  <2>5. InPlace' /\ Sound(header)' /\ Sound(hdr)'
    BY <2>1, <2>2 DEF InPlace, Sound
  <2>6. Copying' /\ Copied' /\ HeadersAt'
    BY <1>1, <2>1, <2>2 DEF Copying, Copied, HeadersAt, Begin
  <2> QED
    BY <2>4, <2>5, <2>6
<1>2. CASE CreateFile
  <2>1. /\ pc = "create" /\ pc' \in {"create", "createHeader"} /\ file' \in 0 .. Files
        /\ UNCHANGED <<legacy, old, header, nextOld, carried, block, hdr, cuts, fails>>
        /\ slot' = [s \in NewSlots |-> IF s \div PerFile = file THEN Zeroes ELSE slot[s]]
    <3>1. file \in 0 .. Files /\ file < Files /\ file' = file + 1
      BY <1>2 DEF CreateFile, MTypeOK
    <3> QED
      BY <1>2, <3>1 DEF CreateFile
  <2>2. slot' \in [NewSlots -> 0 .. Capacity]
    <3>1. slot \in [NewSlots -> 0 .. Capacity]
      BY DEF MTypeOK
    <3>2. \A s \in NewSlots : slot'[s] \in 0 .. Capacity
      BY <2>1, <3>1 DEF Zeroes
    <3> QED
      BY <2>1, <3>2
  <2>3. MTypeOK'
    BY <2>1, <2>2 DEF MTypeOK
  <2>4. InPlace'
    BY <2>1 DEF InPlace, NewSlots, Zeroes
  <2>5. Sound(header)' /\ Sound(hdr)'
    BY <2>1 DEF Sound, HeadersAt, NoHeader, EmptyRing
  <2>6. Copying' /\ Copied' /\ HeadersAt'
    BY <2>1 DEF Copying, Copied, HeadersAt
  <2> QED
    BY <2>3, <2>4, <2>5, <2>6
<1>3. CASE CreateHeader
  <2>1. MTypeOK' /\ InPlace'
    BY <1>3 DEF CreateHeader, MTypeOK, InPlace, EmptyRing
  <2>2. Sound(header)' /\ Sound(hdr)'
    BY <1>3 DEF CreateHeader, Sound, EmptyRing
  <2>3. Copying' /\ Copied' /\ HeadersAt'
    BY <1>3 DEF CreateHeader, Copying, Copied, HeadersAt, EmptyRing
  <2> QED
    BY <2>1, <2>2, <2>3
<1>4. CASE CreateFails
  <2>1. fails \in Nat /\ fails' = fails + 1 /\ fails' \in 0 .. MaxFails
    BY <1>4 DEF CreateFails, Fails, MTypeOK
  <2>2. MTypeOK' /\ InPlace'
    BY <1>4, <2>1 DEF CreateFails, MTypeOK, InPlace
  <2>3. Sound(header)' /\ Sound(hdr)'
    BY <2>1 DEF Sound
  <2>4. Copying' /\ Copied' /\ HeadersAt'
    BY <1>4 DEF CreateFails, Copying, Copied, HeadersAt
  <2> QED
    BY <2>2, <2>3, <2>4
<1>5. CASE OpenLegacy
  <2>1. /\ pc = "open" /\ pc' \in {"up", "copy", "remove"}
        /\ UNCHANGED <<legacy, old, slot, header, file, nextOld, carried, block, hdr, cuts, fails>>
        /\ pc' = "copy" => old.count > 0
    BY <1>5 DEF OpenLegacy
  <2>2. MTypeOK' /\ InPlace'
    BY <2>1 DEF MTypeOK, InPlace
  <2>3. Sound(header)' /\ Sound(hdr)'
    BY <2>1 DEF Sound
  <2>4. Copied' /\ HeadersAt'
    BY <2>1 DEF Copied, HeadersAt
  <2>5. Copying'
    <3>1. 0 % PerFile = 0
      OBVIOUS
    <3>2. nextOld = 0 /\ carried = 0 /\ block = ZeroBlock /\ Flushed' = 0
      BY <2>1, <3>1 DEF HeadersAt, Flushed
    <3> QED
      BY <2>1, <3>1, <3>2 DEF Copying, ZeroBlock
  <2> QED
    BY <2>2, <2>3, <2>4, <2>5
<1>6. CASE CopyRecord
  <2> DEFINE r == carried % PerFile
  <2>0. /\ pc = "copy" /\ nextOld' = carried + 1 /\ carried' = carried + 1 /\ nextOld = carried
        /\ UNCHANGED <<legacy, old, header, file, hdr, cuts>>
        /\ pc' = IF carried + 1 = old.count THEN "remove" ELSE "copy"
        /\ block' = IF BlockDone THEN ZeroBlock ELSE FilledBlock
        /\ header = EmptyRing /\ hdr = EmptyRing
    BY <1>6 DEF CopyRecord, Copying, HeadersAt
  <2>1. /\ carried \in Nat /\ carried < old.count /\ carried < Capacity
        /\ old.count \in Nat /\ old.count <= Capacity
        /\ r \in 0 .. (PerFile - 1) /\ Flushed \in Nat /\ carried = Flushed + r
    BY <2>0, Divided
  <2>2. \/ (carried + 1) % PerFile = 0
        \/ (carried + 1) % PerFile = r + 1 /\ r + 1 <= PerFile - 1
    BY <2>0, OneMore
  <2> HIDE DEF r
  <2>3. /\ FilledBlock \in [0 .. (PerFile - 1) -> 0 .. Capacity]
        /\ \A j \in 0 .. (PerFile - 1) :
             FilledBlock[j] = IF j <= r THEN Flushed + j + 1 ELSE Zeroes
    BY <2>0, BlockFilled DEF r
  <2>4. /\ slot' \in [NewSlots -> 0 .. Capacity] /\ InPlace'
        /\ fails' \in 0 .. MaxFails
        /\ fails' = 0 => fails = 0
        /\ fails' = 0 /\ BlockDone => \A s \in 0 .. carried : slot'[s] = s + 1
        /\ fails' = 0 /\ ~ BlockDone => slot' = slot
    <3>0. fails \in 0 .. MaxFails /\ slot \in [NewSlots -> 0 .. Capacity] /\ InPlace
      BY DEF MTypeOK
    <3>1. CASE /\ BlockDone /\ UNCHANGED fails
               /\ slot' = [s \in NewSlots |-> IF s \div PerFile = carried \div PerFile
                                                THEN FilledBlock[s % PerFile] ELSE slot[s]]
      <4>1. /\ slot' \in [NewSlots -> 0 .. Capacity] /\ InPlace'
            /\ fails = 0 => \A s \in 0 .. carried : slot'[s] = s + 1
        BY <2>0, <3>1, BlockWritten
      <4> QED
        BY <3>0, <3>1, <4>1
    <3>2. CASE ~ BlockDone /\ UNCHANGED <<slot, fails>>
      BY <3>0, <3>2 DEF InPlace
    <3>3. CASE BlockDone /\ Fails /\ UNCHANGED slot
      BY <3>0, <3>3 DEF InPlace, Fails
    <3> QED
      BY <1>6, <3>1, <3>2, <3>3 DEF CopyRecord
  <2>5. block' \in [0 .. (PerFile - 1) -> 0 .. Capacity]
    BY <2>0, <2>3 DEF ZeroBlock, Zeroes
  <2>6. MTypeOK'
    <3>1. nextOld' \in 0 .. Capacity /\ carried' \in 0 .. Capacity
      BY <2>0, <2>1
    <3>2. pc' \in {"remove", "copy"} /\ UNCHANGED <<legacy, old, header, file, hdr, cuts>>
      BY <2>0
    <3> QED
      BY <2>4, <2>5, <3>1, <3>2 DEF MTypeOK
  <2>7. Sound(header)' /\ Sound(hdr)'
    BY <2>0 DEF Sound, EmptyRing
  <2>8. HeadersAt'
    BY <2>0 DEF HeadersAt
  <2>9. Copied'
    <3>1. pc' = "remove" => carried' = old.count /\ BlockDone
      BY <2>0 DEF BlockDone
    <3>2. pc' # "commit"
      BY <2>0
    <3> QED
      BY <2>0, <2>1, <2>4, <3>1, <3>2 DEF Copied
  <2>10. ASSUME pc' = "copy" PROVE Copying'
    <3>1. carried' = nextOld' /\ nextOld' < old'.count
      BY <2>0, <2>1, <2>10
    <3>2. CASE (carried + 1) % PerFile = 0
      <4>1. BlockDone /\ block' = ZeroBlock
        BY <2>0, <3>2 DEF BlockDone
      <4>2. Flushed' = carried + 1 /\ carried' % PerFile = 0
        BY <2>0, <2>1, <3>2 DEF Flushed
      <4>3. block' = [j \in 0 .. (PerFile - 1) |->
                        IF j < carried' % PerFile THEN Flushed' + j + 1 ELSE Zeroes]
        BY <4>1, <4>2 DEF ZeroBlock
      <4>4. fails' = 0 => \A s \in 0 .. (Flushed' - 1) : slot'[s] = s + 1
        BY <2>1, <2>4, <4>1, <4>2
      <4> QED
        BY <3>1, <4>3, <4>4 DEF Copying
    <3>3. CASE (carried + 1) % PerFile = r + 1 /\ r + 1 <= PerFile - 1
      <4>1. ~ BlockDone /\ block' = FilledBlock
        <5>1. carried + 1 # old.count /\ r + 1 # 0
          BY <2>0, <2>1, <2>10
        <5> QED
          BY <2>0, <3>3, <5>1 DEF BlockDone
      <4>2. Flushed' = Flushed /\ carried' % PerFile = r + 1
        BY <2>0, <2>1, <3>3 DEF Flushed
      <4>3. block' = [j \in 0 .. (PerFile - 1) |->
                        IF j < carried' % PerFile THEN Flushed' + j + 1 ELSE Zeroes]
        <5>1. block' = [j \in 0 .. (PerFile - 1) |-> FilledBlock[j]]
          BY <2>3, <4>1
        <5>2. \A j \in 0 .. (PerFile - 1) : (j < r + 1) = (j <= r)
          BY <2>1
        <5> QED
          BY <2>3, <4>2, <5>1, <5>2
      <4>4. fails' = 0 => \A s \in 0 .. (Flushed' - 1) : slot'[s] = s + 1
        BY <2>0, <2>4, <4>1, <4>2 DEF Copying
      <4> QED
        BY <3>1, <4>3, <4>4 DEF Copying
    <3> QED
      BY <2>2, <3>2, <3>3
  <2> QED
    BY <2>4, <2>6, <2>7, <2>8, <2>9, <2>10 DEF Copying
<1>7. CASE CopyBreaks
  <2>1. fails \in Nat /\ fails' = fails + 1 /\ fails' \in 0 .. MaxFails
    BY <1>7 DEF CopyBreaks, Fails, MTypeOK
  <2>2. MTypeOK' /\ InPlace'
    BY <1>7, <2>1 DEF CopyBreaks, MTypeOK, InPlace
  <2>3. Sound(header)' /\ Sound(hdr)'
    BY <2>1 DEF Sound
  <2>4. Copying' /\ Copied' /\ HeadersAt'
    BY <1>7, <2>1 DEF CopyBreaks, Copying, Copied, HeadersAt
  <2> QED
    BY <2>2, <2>3, <2>4
<1>8. CASE RemoveLegacy
  <2>1. MTypeOK' /\ InPlace'
    BY <1>8 DEF RemoveLegacy, MTypeOK, InPlace
  <2>2. Sound(header)' /\ Sound(hdr)'
    BY <1>8 DEF RemoveLegacy, Sound
  <2>3. Copying' /\ Copied' /\ HeadersAt'
    BY <1>8 DEF RemoveLegacy, Copying, Copied, HeadersAt
  <2> QED
    BY <2>1, <2>2, <2>3
<1>9. CASE CommitMigrated
  <2>1. /\ pc = "commit" /\ pc' = "up"
        /\ hdr' = [head |-> carried % Capacity, tail |-> 0, count |-> carried]
        /\ header = EmptyRing
        /\ UNCHANGED <<legacy, old, slot, file, nextOld, carried, block, cuts>>
        /\ \/ header' = hdr' /\ fails' = fails
           \/ fails' = fails + 1 /\ fails < MaxFails /\ header' = header
    BY <1>9 DEF CommitMigrated, Fails, HeadersAt
  <2>2. carried \in 0 .. Capacity /\ carried % Capacity \in 0 .. (Capacity - 1) /\ fails \in 0 .. MaxFails
    <3>1. carried \in 0 .. Capacity /\ fails \in 0 .. MaxFails
      BY DEF MTypeOK
    <3> QED
      BY <3>1
  <2>3. header'.count \in -1 .. Capacity /\ header'.head \in 0 .. (Capacity - 1) /\ header'.tail = 0
        /\ header'.count >= 0
    BY <2>1, <2>2 DEF EmptyRing
  <2>4. fails' \in 0 .. MaxFails /\ (fails' = 0 => fails = 0)
    BY <2>1, <2>2
  <2>5. MTypeOK' /\ InPlace'
    BY <2>1, <2>2, <2>3, <2>4 DEF MTypeOK, InPlace
  <2>6. fails' = 0 /\ carried > 0 =>
          carried = old.count /\ \A k \in 0 .. (old.count - 1) : slot[k] = k + 1
    BY <2>1, <2>4 DEF Copied
  <2>7. Sound(hdr)'
    BY <2>1, <2>6 DEF Sound
  <2>8. Sound(header)'
    BY <2>1, <2>6 DEF Sound, EmptyRing
  <2>9. Copying' /\ Copied' /\ HeadersAt'
    BY <2>1, <2>3 DEF Copying, Copied, HeadersAt
  <2> QED
    BY <2>5, <2>7, <2>8, <2>9
<1>10. CASE Unplugged
  <2>1. /\ pc' = "off" /\ hdr' = EmptyRing /\ file' = 0 /\ nextOld' = 0 /\ carried' = 0
        /\ block' = ZeroBlock /\ cuts' \in 0 .. MaxCuts
        /\ UNCHANGED <<legacy, old, slot, header, fails>>
    BY <1>10 DEF Unplugged, MTypeOK
  <2>2. 0 \in 0 .. Files
    OBVIOUS
  <2>3. block' \in [0 .. (PerFile - 1) -> 0 .. Capacity]
    BY <2>1 DEF ZeroBlock, Zeroes
  <2>4. MTypeOK' /\ InPlace'
    <3>1. InPlace'
      BY <2>1 DEF InPlace
    <3>2. /\ hdr'.count \in 0 .. Capacity /\ hdr'.head \in 0 .. (Capacity - 1) /\ hdr'.tail = 0
          /\ nextOld' \in 0 .. Capacity /\ carried' \in 0 .. Capacity
      BY <2>1 DEF EmptyRing
    <3> QED
      BY <2>1, <2>2, <2>3, <3>1, <3>2 DEF MTypeOK
  <2>5. Sound(header)' /\ Sound(hdr)'
    BY <2>1 DEF Sound, EmptyRing
  <2>6. Copying' /\ Copied' /\ HeadersAt'
    BY <2>1 DEF Copying, Copied, HeadersAt
  <2> QED
    BY <2>4, <2>5, <2>6
<1>11. CASE UNCHANGED mvars
  <2>1. MTypeOK' /\ InPlace' /\ Sound(header)' /\ Sound(hdr)'
    BY <1>11 DEF mvars, MTypeOK, InPlace, Sound
  <2>2. Copying' /\ Copied' /\ HeadersAt'
    BY <1>11 DEF mvars, Copying, Copied, HeadersAt, Flushed
  <2> QED
    BY <2>1, <2>2
<1> QED
  BY <1>1, <1>2, <1>3, <1>4, <1>5, <1>6, <1>7, <1>8, <1>9, <1>10, <1>11 DEF MNext

\* Whatever the old tail, the sizes, the cuts and the blocks that fail: a boot ends with
\* a ring whose slots hold their own readings or zeroes, and without a failed access
\* the ring is the whole backlog in its order, or empty (store.cpp:121-186).
THEOREM MigrationIsWhole == MSpec => []MigratedOrEmpty
<1>1. MInv => MigratedOrEmpty
  <2> SUFFICES ASSUME MInv PROVE MigratedOrEmpty
    OBVIOUS
  <2>1. SlotHoldsItsReading
    <3> SUFFICES ASSUME NEW k \in 0 .. (hdr.count - 1) PROVE slot[k] \in {k + 1, Zeroes}
      BY DEF SlotHoldsItsReading
    <3>1. k \in NewSlots
      BY RingFits DEF MInv, MTypeOK
    <3> QED
      BY <3>1 DEF MInv, InPlace
  <2>2. WholeOrNothing
    BY DEF MInv, Sound, WholeOrNothing
  <2> QED
    BY <2>1, <2>2 DEF MigratedOrEmpty
<1> QED
  BY <1>1, MInitSound, MigrationKept, PTL DEF MSpec

=============================================================================
