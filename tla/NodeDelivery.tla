----------------------------- MODULE NodeDelivery -----------------------------
(***************************************************************************)
(* The main loop of the ESP32 node and its path to the broker              *)
(* (firmware/psychron_node/psychron_node.ino, inflight.h, netlink.cpp).    *)
(*                                                                         *)
(* A reading is published at QoS 0: "sent" means the bytes are in the TCP  *)
(* buffer.  It is remembered in a window until it is old enough to have    *)
(* arrived or to have been noticed lost, and goes back to the flash store  *)
(* when the session it went out on ends.  What makes it safe to forget an  *)
(* old entry is a race against time: the keepalive must notice a dead      *)
(* stream before the entry passes the horizon.  Time is therefore part of  *)
(* the model.  It is kept as ages (time since an event, up to the largest  *)
(* value a comparison tells apart), so behaviours need no end.             *)
(*                                                                         *)
(* One action is one step of a pass of loop(): the link, the reclaim (one  *)
(* record at a time), the drain (one record at a time), the reading, its   *)
(* first publish or its slot in the flash, the header that makes the slot  *)
(* count.  Between any two of them the stream may die, the broker may      *)
(* read, or the power may fail; it may also fail inside a push, between    *)
(* the write of the slot and the move of the header in RAM.  The store is  *)
(* the bounded queue of ReadingQueue, which RingStore implements (and with *)
(* it slots that are torn); PubSubClient, TCP and WiFi are external.       *)
(***************************************************************************)
EXTENDS Integers, Sequences, FiniteSets

CONSTANTS
  MaxReadings,   \* bound of the model: readings taken
  MaxCuts,       \* bound of the model: power cuts and restarts
  StoreCapacity, \* STORE_CAPACITY
  WindowCapacity,\* inflight::CAPACITY
  Headroom,      \* LIVE_HEADROOM
  SendBuffer,    \* writes the TCP send buffer takes before a publish fails
  DrainBatch,    \* records one pass of drainStore() may send (20)
  KeepAlive,     \* MQTT_KEEPALIVE_S
  Horizon,       \* UNCONFIRMED_HORIZON_MS
  ReadPeriod,    \* READ_PERIOD_MS
  RoundTrip,     \* the longest a live stream takes to answer a ping
  MaxPass,       \* the longest a pass of loop() takes, ota::poll() included
  MaxFails       \* bound of the model: flash accesses that fail

ASSUME BoundsAssumption ==
  MaxReadings \in Nat /\ MaxCuts \in Nat /\ MaxFails \in Nat
ASSUME SizesAssumption ==
  /\ StoreCapacity \in Nat \ {0} /\ WindowCapacity \in Nat \ {0}
  /\ Headroom \in 0 .. (WindowCapacity - 1) /\ DrainBatch \in Nat \ {0}
  /\ SendBuffer \in Nat \ {0}
ASSUME TimesAssumption ==
  /\ KeepAlive \in Nat /\ Horizon \in Nat /\ ReadPeriod \in Nat
  /\ RoundTrip \in Nat /\ MaxPass \in Nat \ {0}

Reading == 1 .. MaxReadings
Ping    == 0

VARIABLES
  \* the node, in RAM
  pc,        \* "off", or the step of loop() that is next
  window,    \* unconfirmed: <<[r, age]>>, oldest first
  handed,    \* entries the reclaim under way has yet to push
  queue,     \* the store, as the running node will drain it
  behind,    \* slots its tail has moved since the header was committed
  unseen,    \* netlink::session() # unconfirmedSession
  drained,   \* records sent by this pass of drainStore()
  sinceRead, \* time since the last reading
  \* the MQTT client
  wifi,      \* WiFi.status() = WL_CONNECTED
  conn,      \* mqtt.connected()
  sinceIn,   \* time since lastInActivity
  sinceOut,  \* time since lastOutActivity
  pingOut,   \* pingOutstanding
  \* outside the node
  alive,     \* the stream still carries bytes
  wire,      \* bytes written and not yet read by the broker: readings, pings
  answer,    \* a PINGRESP waits in the node's receive buffer
  image,     \* flash: the store a restart would find
  fails,     \* flash accesses that failed so far
  sincePass, \* time since the last pass began
  cuts,      \* power cuts so far
  \* history
  taken,     \* readings taken: 1 .. taken
  published, \* readings ever handed to a stream
  delivered, \* readings the broker has read
  counted,   \* readings counted as lost: lostReadings, and evicted by the store
  exposed,   \* readings overwritten in the window (overwritten_)
  cutLost,   \* readings a power cut left neither in the flash nor counted
  misplaced  \* readings a power cut left in a slot the header gave to another

node   == <<pc, window, handed, queue, behind, unseen, drained, sinceRead>>
client == <<wifi, conn, sinceIn, sinceOut, pingOut>>
net    == <<alive, wire, answer>>
ghost  == <<taken, published, delivered, counted, exposed, cutLost, misplaced>>
flash  == <<image, fails>>
vars   == <<node, client, net, flash, sincePass, cuts, ghost>>

Elements(s) == { s[i] : i \in DOMAIN s }
Readings(w) == { w[i].r : i \in DOMAIN w }

Up == wifi /\ conn

\* An age, one unit later: no comparison tells ages past its limit apart.
Older(age, limit) == IF age > limit THEN age ELSE age + 1

TypeOK ==
  /\ pc \in {"off", "net", "reclaim", "requeue", "drain", "draining", "sample", "handoff",
             "commit"}
  /\ window \in Seq([r : Reading, age : 0 .. (Horizon + 1)])
  /\ handed \in Seq(Reading) /\ queue \in Seq(Reading) /\ image \in Seq(Reading)
  /\ Len(window) <= WindowCapacity /\ Len(queue) <= StoreCapacity
  /\ unseen \in BOOLEAN /\ drained \in 0 .. DrainBatch
  /\ behind \in 0 .. (StoreCapacity - 1)
  /\ sinceRead \in 0 .. ReadPeriod
  /\ wifi \in BOOLEAN /\ conn \in BOOLEAN /\ pingOut \in BOOLEAN
  /\ sinceIn \in 0 .. (KeepAlive + 1) /\ sinceOut \in 0 .. (KeepAlive + 1)
  /\ alive \in BOOLEAN /\ answer \in BOOLEAN
  /\ wire \in Seq(Reading \cup {Ping})
  /\ sincePass \in 0 .. MaxPass /\ cuts \in 0 .. MaxCuts /\ fails \in 0 .. MaxFails
  /\ taken \in 0 .. MaxReadings
  /\ published \subseteq Reading /\ delivered \subseteq Reading
  /\ counted \subseteq Reading /\ exposed \subseteq Reading
  /\ cutLost \subseteq Reading /\ misplaced \subseteq Reading

Init ==
  /\ pc = "off" /\ window = <<>> /\ handed = <<>> /\ queue = <<>>
  /\ behind = 0 /\ unseen = FALSE /\ drained = 0 /\ sinceRead = ReadPeriod
  /\ wifi = FALSE /\ conn = FALSE /\ pingOut = FALSE
  /\ sinceIn = 0 /\ sinceOut = 0
  /\ alive = FALSE /\ wire = <<>> /\ answer = FALSE
  /\ image = <<>> /\ fails = 0 /\ sincePass = 0 /\ cuts = 0
  /\ taken = 0 /\ published = {} /\ delivered = {} /\ counted = {}
  /\ exposed = {} /\ cutLost = {} /\ misplaced = {}

-----------------------------------------------------------------------------
(* The unconfirmed window (inflight.h).                                    *)

\* expire(): entries past the horizon are forgotten, oldest first, up to the
\* first one still inside it.
Expired(w) ==
  LET inside == { i \in DOMAIN w : w[i].age <= Horizon }
  IN  IF inside = {} THEN <<>>
      ELSE SubSeq(w, CHOOSE i \in inside : \A j \in inside : i <= j, Len(w))

\* sent(): a full window overwrites its oldest entry.
Overwritten(w) == IF Len(w) = WindowCapacity THEN {w[1].r} ELSE {}
Remembered(w, r) ==
  Append(IF Len(w) = WindowCapacity THEN Tail(w) ELSE w, [r |-> r, age |-> 0])

\* publishRecord(): the client takes the bytes, and the window the reading.
CanPublish == conn /\ Len(wire) < SendBuffer

Publish(r) ==
  /\ CanPublish
  /\ LET w == Expired(window) IN
       /\ window' = Remembered(w, r)
       /\ exposed' = exposed \cup Overwritten(w)
  /\ wire' = IF alive THEN Append(wire, r) ELSE wire
  /\ sinceOut' = 0
  /\ published' = published \cup {r}

-----------------------------------------------------------------------------
(* The store, as RingStore implements it: push, and the commit of flush(). *)

Evicted     == IF Len(queue) = StoreCapacity THEN {Head(queue)} ELSE {}

Pushed(r)   == Append(IF Len(queue) = StoreCapacity THEN Tail(queue) ELSE queue, r)

\* What the slot at head holds in flash is overwritten, committed or not.
HeadSlot    == (behind + Len(queue)) % StoreCapacity
Overlaid(r) == [i \in DOMAIN image |-> IF i - 1 = HeadSlot THEN r ELSE image[i]]

TailMoves == behind' = (behind + 1) % StoreCapacity

StoreFails == fails < MaxFails /\ fails' = fails + 1
StoreWorks == fails' = fails

PushRefused(r) ==
  /\ StoreFails
  /\ counted' = counted \cup {r}
  /\ UNCHANGED <<queue, behind, image>>

PushUncommitted(r) ==
  /\ queue' = Pushed(r)
  /\ image' = Overlaid(r)
  /\ IF Evicted = {} THEN behind' = behind ELSE TailMoves

\* push(r, false).
PushDeferred(r) ==
  \/ /\ StoreWorks
     /\ PushUncommitted(r)
     /\ counted' = counted \cup Evicted
  \/ PushRefused(r)

FlushStore ==
  \/ StoreWorks /\ image' = queue /\ behind' = 0
  \/ StoreFails /\ UNCHANGED <<image, behind>>

-----------------------------------------------------------------------------
(* loop().                                                                 *)

\* netlink::loop(), with no session: serviceMqtt() may open one.
Connect ==
  /\ pc = "net" /\ ~ conn /\ wifi
  /\ pc' = "reclaim" /\ sincePass' = 0
  /\ conn' = TRUE /\ alive' = TRUE /\ unseen' = TRUE
  /\ sinceIn' = 0 /\ sinceOut' = 0 /\ pingOut' = FALSE
  /\ wire' = <<>> /\ answer' = FALSE
  /\ UNCHANGED <<window, handed, queue, behind, drained, sinceRead, wifi, flash, cuts, ghost>>

NoConnect ==
  /\ pc = "net" /\ ~ conn
  /\ pc' = "reclaim" /\ sincePass' = 0
  /\ UNCHANGED <<window, handed, queue, behind, unseen, drained, sinceRead, client, net,
                 flash, cuts, ghost>>

StreamClosed ==
  /\ conn' = FALSE /\ alive' = FALSE /\ pingOut' = FALSE
  /\ sinceIn' = 0 /\ sinceOut' = 0
  /\ wire' = <<>> /\ answer' = FALSE

\* mqtt.loop(): the keepalive, then what the broker has sent.
PingDue == sinceIn > KeepAlive \/ sinceOut > KeepAlive

KeepAliveLost ==
  /\ pc = "net" /\ conn /\ PingDue /\ pingOut
  /\ pc' = "reclaim" /\ sincePass' = 0
  /\ StreamClosed
  /\ UNCHANGED <<window, handed, queue, behind, unseen, drained, sinceRead, wifi,
                 flash, cuts, ghost>>

SendPing ==
  /\ pc = "net" /\ conn /\ PingDue /\ ~ pingOut
  /\ pc' = "reclaim" /\ sincePass' = 0
  /\ pingOut' = TRUE /\ sinceIn' = 0 /\ sinceOut' = 0
  /\ wire' = IF alive THEN Append(wire, Ping) ELSE wire
  /\ UNCHANGED <<window, handed, queue, behind, unseen, drained, sinceRead, wifi, conn,
                 alive, answer, flash, cuts, ghost>>

ReadAnswer ==
  /\ pc = "net" /\ conn /\ ~ PingDue
  /\ pc' = "reclaim" /\ sincePass' = 0
  /\ answer' = FALSE
  /\ pingOut' = (pingOut /\ ~ answer)
  /\ sinceIn' = IF answer THEN 0 ELSE sinceIn
  /\ UNCHANGED <<window, handed, queue, behind, unseen, drained, sinceRead, wifi, conn,
                 sinceOut, alive, wire, flash, cuts, ghost>>

\* reclaimUnconfirmed(): the session the window went out on is over.
SessionHolds ==
  /\ pc = "reclaim" /\ Up /\ ~ unseen
  /\ pc' = "drain"
  /\ UNCHANGED <<window, handed, queue, behind, unseen, drained, sinceRead, client, net,
                 flash, sincePass, cuts, ghost>>

Reclaim ==
  /\ pc = "reclaim" /\ ~ (Up /\ ~ unseen)
  /\ LET w == Expired(window) IN handed' = [i \in DOMAIN w |-> w[i].r]
  /\ window' = <<>>
  /\ pc' = IF window = <<>> THEN "drain" ELSE "requeue"
  /\ unseen' = (unseen /\ ~ Up)
  /\ UNCHANGED <<queue, behind, drained, sinceRead, client, net, flash, sincePass, cuts, ghost>>

Requeue ==
  /\ pc = "requeue" /\ handed # <<>>
  /\ PushDeferred(Head(handed))
  /\ handed' = Tail(handed)
  /\ UNCHANGED <<pc, window, unseen, drained, sinceRead, client, net, sincePass,
                 cuts, taken, published, delivered, exposed, cutLost, misplaced>>

RequeueEnd ==
  /\ pc = "requeue" /\ handed = <<>>
  /\ FlushStore
  /\ pc' = "drain"
  /\ UNCHANGED <<window, handed, queue, unseen, drained, sinceRead, client, net,
                 sincePass, cuts, ghost>>

\* Mutant of Drain: the window is not expired first.
DrainUnexpired ==
  /\ pc = "drain"
  /\ pc' = IF Up THEN "draining" ELSE "sample"
  /\ drained' = 0
  /\ UNCHANGED <<window, handed, queue, behind, unseen, sinceRead, client, net, flash,
                 sincePass, cuts, ghost>>

\* drainStore().
Drain ==
  /\ pc = "drain"
  /\ \/ Up /\ pc' = "draining" /\ window' = Expired(window)
     \/ ~ Up /\ pc' = "sample" /\ window' = window
  /\ drained' = 0
  /\ UNCHANGED <<handed, queue, behind, unseen, sinceRead, client, net, flash, sincePass,
                 cuts, ghost>>

\* Mutant of MayDrain: no headroom is left for live readings.
MayDrainAll ==
  /\ drained < DrainBatch
  /\ queue # <<>>
  /\ WindowCapacity - Len(window) > 0

MayDrain ==
  /\ drained < DrainBatch
  /\ queue # <<>>
  /\ WindowCapacity - Len(window) > Headroom

DrainOne ==
  /\ pc = "draining" /\ MayDrain
  /\ Publish(Head(queue))
  /\ queue' = Tail(queue) /\ TailMoves
  /\ drained' = drained + 1
  /\ UNCHANGED <<pc, handed, unseen, sinceRead, wifi, conn, sinceIn, pingOut,
                 alive, answer, flash, sincePass, cuts, taken, delivered,
                 counted, cutLost, misplaced>>

DrainEnd ==
  /\ pc = "draining"
  /\ \/ ~ (MayDrain /\ CanPublish) /\ FlushStore
     \/ MayDrain /\ StoreFails /\ image' = queue /\ behind' = 0
  /\ pc' = "sample" /\ drained' = 0
  /\ UNCHANGED <<window, handed, queue, unseen, sinceRead, client, net, sincePass,
                 cuts, ghost>>

\* The reading, when one is due.
NoReading ==
  /\ pc = "sample"
  /\ sinceRead < ReadPeriod \/ taken = MaxReadings
  /\ pc' = "net"
  /\ UNCHANGED <<window, handed, queue, behind, unseen, drained, sinceRead, client, net,
                 flash, sincePass, cuts, ghost>>

Take ==
  /\ pc = "sample" /\ sinceRead >= ReadPeriod /\ taken < MaxReadings
  /\ pc' = "handoff" /\ sinceRead' = 0
  /\ taken' = taken + 1
  /\ UNCHANGED <<window, handed, queue, behind, unseen, drained, client, net, flash,
                 sincePass, cuts, published, delivered, counted, exposed, cutLost, misplaced>>

\* handOff() of the reading just taken, which is in RAM only: live when nothing is
\* queued, else into the store.

\* Mutant of CanGoLive: a backlog does not hold a fresh reading back.
CanGoLiveIfUp == Up

CanGoLive == Up /\ queue = <<>>

GoLive ==
  /\ pc = "handoff" /\ CanGoLive
  /\ Publish(taken)
  /\ pc' = "net"
  /\ UNCHANGED <<handed, queue, behind, unseen, drained, sinceRead, wifi, conn, sinceIn,
                 pingOut, alive, answer, flash, sincePass, cuts, taken, delivered, counted,
                 cutLost, misplaced>>

Stays == ~ (CanGoLive /\ CanPublish)

\* push(r): the slot, then the header in RAM ...
Store ==
  /\ pc = "handoff" /\ Stays
  /\ \/ /\ StoreWorks
        /\ PushUncommitted(taken)
        /\ counted' = counted \cup Evicted
        /\ pc' = "commit"
     \/ PushRefused(taken) /\ pc' = "net"
  /\ UNCHANGED <<window, handed, unseen, drained, sinceRead, client, net, sincePass, cuts,
                 taken, published, delivered, exposed, cutLost, misplaced>>

\* Mutant of Commit: the header is left to the next flush.
CommitLater ==
  /\ pc = "commit" /\ pc' = "net"
  /\ UNCHANGED <<window, handed, queue, behind, unseen, drained, sinceRead, client, net,
                 flash, sincePass, cuts, ghost>>

\* ... then the header in flash, or push returns false for a reading that is in the
\* ring all the same.
Commit ==
  /\ pc = "commit" /\ pc' = "net"
  /\ \/ StoreWorks /\ image' = queue /\ behind' = 0 /\ counted' = counted
     \/ StoreFails /\ counted' = counted \cup {taken} /\ UNCHANGED <<image, behind>>
  /\ UNCHANGED <<window, handed, queue, unseen, drained, sinceRead, client, net, sincePass,
                 cuts, taken, published, delivered, exposed, cutLost, misplaced>>

-----------------------------------------------------------------------------
(* Time.  It passes between passes; a pass that blocks (a connect, an       *)
(* update check) is one that begins late, by MaxPass at most.  A stream    *)
(* that lives answers a ping in RoundTrip; one that dies does so silently. *)

Tick ==
  /\ pc = "net" /\ sincePass < MaxPass
  /\ (alive /\ wifi /\ pingOut /\ ~ answer) => sinceIn < RoundTrip
  /\ sincePass' = sincePass + 1
  /\ window' = [i \in DOMAIN window |->
                 [window[i] EXCEPT !.age = Older(@, Horizon)]]
  /\ sinceIn'  = IF conn THEN Older(sinceIn, KeepAlive) ELSE sinceIn
  /\ sinceOut' = IF conn THEN Older(sinceOut, KeepAlive) ELSE sinceOut
  /\ sinceRead' = IF sinceRead < ReadPeriod THEN sinceRead + 1 ELSE sinceRead
  /\ UNCHANGED <<pc, handed, queue, behind, unseen, drained, wifi, conn, pingOut, net,
                 flash, cuts, ghost>>

-----------------------------------------------------------------------------
(* Outside the node.                                                       *)

\* The broker reads the stream in order, and answers a ping.
Deliver ==
  /\ alive /\ wifi /\ wire # <<>>
  /\ wire' = Tail(wire)
  /\ IF Head(wire) = Ping THEN answer' = TRUE /\ delivered' = delivered
                          ELSE answer' = answer /\ delivered' = delivered \cup {Head(wire)}
  /\ UNCHANGED <<node, client, alive, flash, sincePass, cuts, taken, published,
                 counted, exposed, cutLost, misplaced>>

\* The path dies and nothing tells the node.
StreamDies ==
  /\ alive
  /\ alive' = FALSE /\ wire' = <<>>
  /\ UNCHANGED <<node, client, answer, flash, sincePass, cuts, ghost>>

\* A reset reaches the node, or a write fails and the client closes.
StreamReset ==
  /\ pc # "off" /\ conn
  /\ StreamClosed
  /\ UNCHANGED <<node, wifi, flash, sincePass, cuts, ghost>>

WifiUp ==
  /\ pc # "off" /\ ~ wifi /\ wifi' = TRUE
  /\ UNCHANGED <<node, conn, sinceIn, sinceOut, pingOut, net, flash, sincePass, cuts, ghost>>

WifiDown ==
  /\ wifi /\ wifi' = FALSE
  /\ UNCHANGED <<node, conn, sinceIn, sinceOut, pingOut, net, flash, sincePass, cuts, ghost>>

\* The reading a push is about to write, if one is.
Pushing == IF pc = "requeue" /\ handed # <<>> THEN {Head(handed)}
           ELSE IF pc = "handoff" /\ Stays THEN {taken} ELSE {}

\* The reading whose header is not in flash yet.
Handing == IF pc \in {"handoff", "commit"} THEN {taken} ELSE {}

\* A power cut, or the restart into a new firmware.  It may strike a push behind its
\* first flash access: the slot is written, and neither head, tail, count nor evicted
\* has moved, in RAM or in flash.
PowerCut ==
  /\ pc # "off" /\ cuts < MaxCuts
  /\ cuts' = cuts + 1
  /\ pc' = "off"
  /\ window' = <<>> /\ handed' = <<>> /\ queue' = <<>> /\ behind' = 0
  /\ unseen' = FALSE /\ drained' = 0 /\ sinceRead' = ReadPeriod
  /\ sincePass' = 0 /\ wifi' = FALSE
  /\ StreamClosed
  /\ image' \in {image} \cup { Overlaid(r) : r \in Pushing }
  /\ misplaced' = misplaced \cup (Handing \cap Elements(image'))
  /\ cutLost' = cutLost \cup
       ((1 .. taken) \ (delivered \cup counted \cup exposed \cup Elements(image')))
  /\ UNCHANGED <<fails, taken, published, delivered, counted, exposed>>

\* Mutant of Boot: the store starts empty.
BootEmpty ==
  /\ pc = "off"
  /\ pc' = "net"
  /\ queue' = <<>>
  /\ UNCHANGED <<window, handed, behind, unseen, drained, sinceRead, client, net, flash,
                 sincePass, cuts, ghost>>

Boot ==
  /\ pc = "off"
  /\ pc' = "net"
  /\ queue' = image
  /\ UNCHANGED <<window, handed, behind, unseen, drained, sinceRead, client, net, flash,
                 sincePass, cuts, ghost>>

NetStep == Connect \/ NoConnect \/ KeepAliveLost \/ SendPing \/ ReadAnswer
ReclaimStep == SessionHolds \/ Reclaim \/ Requeue \/ RequeueEnd
DrainStep == Drain \/ DrainOne \/ DrainEnd
SampleStep == NoReading \/ Take \/ GoLive \/ Store \/ Commit
Pass == NetStep \/ ReclaimStep \/ DrainStep \/ SampleStep
Environment == StreamDies \/ StreamReset \/ WifiUp \/ WifiDown \/ PowerCut

Next == Pass \/ Tick \/ Deliver \/ Boot \/ Environment

Spec == Init /\ [][Next]_vars

\* The loop runs for ever (the Arduino core calls it in a loop), time passes,
\* and the broker reads what a live stream brings.
FairSpec ==
  /\ Spec
  /\ WF_vars(Pass) /\ WF_vars(Boot) /\ SF_vars(Tick) /\ WF_vars(Deliver)

-----------------------------------------------------------------------------
(* Properties.                                                             *)

\* The reading in hand, between sensor::read() and its first publish or its slot.
InHand == IF pc = "handoff" THEN {taken} ELSE {}

\* No reading vanishes silently: each one taken has been read by the broker, is
\* held by the node, or is in a loss that is counted (psychron_node.ino:109-110,
\* inflight.h:29-37) or that a power cut caused.
Accounted ==
  1 .. taken \subseteq
    delivered \cup Readings(window) \cup Elements(handed) \cup InHand \cup
    (IF pc = "off" THEN Elements(image) ELSE Elements(queue)) \cup
    counted \cup exposed \cup cutLost

\* A reading is in the store or in the window, never in both and never twice:
\* the reclaim does not put back what the drain has yet to send.
HeldOnce ==
  LET held == [i \in DOMAIN window |-> window[i].r] \o handed \o queue
  IN  \A i, j \in DOMAIN held : held[i] = held[j] => i = j

\* "An outage costs latency rather than data" (psychron_node.ino:5-6): a power cut costs
\* at most one of the readings that were never sent.  It is the reading in hand, whose
\* slot or header is not in flash yet, or, when the ring is full, the oldest one, whose
\* slot is overwritten before the ring gives it up and counts it (store.cpp:193-206).
CutCostsOne == Cardinality(cutLost \ published) <= cuts

\* Every reading the node took is accounted for, held once, and a power cut costs at most
\* one of those that were never sent.
NothingVanishes == Accounted /\ HeldOnce /\ CutCostsOne

\* Replay cannot push a fresh reading out of the window (config.h:73-75), as
\* long as the readings of one horizon fit in the headroom.
HeadroomSuffices == exposed = {}

\* A reading is not published for the first time while an older one that never
\* was waits in the store (psychron_node.ino:81-82, 103-105), but for one that a power
\* cut left in the oldest slot of a full ring, whose header it did not live to move.
FirstSentInOrder ==
  [][ \A r \in published' \ published :
        \A x \in Elements(queue) : x < r => x \in published \/ r \in misplaced ]_vars

\* The loop uses the store only as the contract of the store allows, power cuts
\* in the middle of a reclaim or of a drain included.
Whole(s) == [i \in DOMAIN s |-> [id |-> s[i], ok |-> TRUE]]

StoreContract == INSTANCE ReadingQueue WITH
  Capacity   <- StoreCapacity,
  Entry      <- [id : Reading, ok : {TRUE}],
  MayLoseAll <- FALSE,
  running    <- pc # "off",
  queue      <- Whole(queue),
  image      <- Whole(image)

KeepsStoreContract == StoreContract!Spec

\* Once the path to the broker holds, every reading is delivered or in a loss
\* that was counted.
LinkHolds == wifi /\ conn /\ alive

EventuallyDelivered ==
  <>[]LinkHolds =>
    \A r \in Reading :
      taken >= r ~> r \in delivered \cup counted \cup exposed \cup cutLost
=============================================================================
