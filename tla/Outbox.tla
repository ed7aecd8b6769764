-------------------------------- MODULE Outbox --------------------------------
(***************************************************************************)
(* The phone's outbox (android Outbox.kt) and the three threads that touch *)
(* it: the sampling thread adds a message (NodeService.kt flush(), through *)
(* MqttLink.offer()), the link's worker sends the oldest and removes what  *)
(* the broker has acknowledged (MqttLink.kt loop(), send()), and the main  *)
(* thread closes it when the service stops (NodeService.kt onDestroy()).   *)
(*                                                                         *)
(* A step is one SQL statement or one operation on the AtomicInteger: that *)
(* is the grain at which the threads interleave.  A message is the number  *)
(* of its add(); ids are AUTOINCREMENT, so their order is the order of     *)
(* insertion.  SQLite, Paho and the broker are external.                   *)
(***************************************************************************)
EXTENDS Integers, Sequences, FiniteSets, Ordering

CONSTANTS
  MaxMessages, \* bound of the model: messages added
  MaxKills,    \* bound of the model: process deaths and service stops
  Capacity,    \* capacity (DAY_OF_WINDOWS)
  BatchLimit,  \* BATCH_LIMIT
  MaxAcks,     \* removes the link may complete while one add() is under way
  DiskFills,   \* whether an insert may fail
  ServiceStops \* whether the service may be stopped

ASSUME OutboxBoundsAssumption == MaxMessages \in Nat /\ MaxKills \in Nat
ASSUME OutboxSizesAssumption ==
  Capacity \in Nat \ {0} /\ BatchLimit \in Nat \ {0} /\ MaxAcks \in Nat
ASSUME OutboxFaultsAssumption == DiskFills \in BOOLEAN /\ ServiceStops \in BOOLEAN

Message == 1 .. MaxMessages

VARIABLES
  rows,      \* the table: survives the process
  process,   \* "dead", "up", "stopping", "closed"
  size,      \* the AtomicInteger
  wpc,       \* the sampling thread's next step inside offer() and add()
  excess,    \* add()'s local
  found,     \* what countRows() returned
  acks,      \* removes completed since this add() began
  lpc,       \* the worker's next step inside the send loop
  batch,     \* messages oldest() returned, still to send
  kills,     \* process deaths and stops so far
  offered,   \* history: messages add() was called with: 1 .. offered
  written,   \* history: those that were inserted
  unwritten, \* history: those whose insert failed
  received,  \* history: messages the broker has
  evicted,   \* history: rows deleted by add(), ever
  dropped,   \* the count the screen shows: what add() returned
  baseline   \* history: evicted when this process started
             \* (the count shown starts over with the process)

db     == <<rows>>
writer == <<wpc, excess, found, acks>>
worker == <<lpc, batch>>
ghost  == <<offered, written, unwritten, received, evicted, baseline>>
vars   == <<rows, process, size, writer, worker, kills, ghost, dropped>>

TypeOK ==
  /\ rows \subseteq Message
  /\ process \in {"dead", "up", "stopping", "closed"}
  /\ size \in Int /\ excess \in Int /\ dropped \in Int
  /\ found \in 0 .. MaxMessages
  /\ wpc \in {"idle", "insert", "increment", "excess", "evict", "count", "set"}
  /\ acks \in 0 .. MaxAcks
  /\ lpc \in {"idle", "send", "acked", "decrement"}
  /\ batch \in Seq(Message) /\ Len(batch) <= BatchLimit
  /\ kills \in 0 .. MaxKills
  /\ offered \in 0 .. MaxMessages
  /\ written \subseteq Message /\ unwritten \subseteq Message /\ received \subseteq Message
  /\ evicted \subseteq Message /\ baseline \subseteq Message

Init ==
  /\ rows = {} /\ process = "dead" /\ size = 0
  /\ wpc = "idle" /\ excess = 0 /\ found = 0 /\ acks = 0
  /\ lpc = "idle" /\ batch = <<>>
  /\ kills = 0 /\ offered = 0 /\ written = {} /\ unwritten = {} /\ received = {}
  /\ evicted = {} /\ dropped = 0 /\ baseline = {}

\* Mutant of Oldest: ORDER BY id DESC.
Newest(n) ==
  IF n < 0 THEN rows
  ELSE { id \in rows : Cardinality({ k \in rows : k > id }) < n }

\* ... ORDER BY id LIMIT n: a negative limit is no limit.
Oldest(n) ==
  IF n < 0 THEN rows
  ELSE { id \in rows : Cardinality({ k \in rows : k < id }) < n }

Open == process \in {"up", "stopping"}

-----------------------------------------------------------------------------
(* The sampling thread.                                                    *)

\* link?.offer(): the field is read while it still holds the link.
Offer ==
  /\ process \in {"up", "stopping"} /\ wpc = "idle" /\ offered < MaxMessages
  /\ wpc' = "insert" /\ acks' = 0
  /\ offered' = offered + 1
  /\ UNCHANGED <<rows, process, size, excess, found, worker, kills, written,
                 unwritten, received, evicted, dropped, baseline>>

\* db.insert(): a full disk is reported by a result add() does not look at.
Insert ==
  /\ wpc = "insert" /\ Open
  /\ wpc' = "increment"
  /\ \/ /\ rows' = rows \cup {offered} /\ written' = written \cup {offered}
        /\ unwritten' = unwritten
     \/ /\ DiskFills /\ unwritten' = unwritten \cup {offered}
        /\ UNCHANGED <<rows, written>>
  /\ UNCHANGED <<process, size, excess, found, acks, worker, kills, offered,
                 received, evicted, dropped, baseline>>

Increment ==
  /\ wpc = "increment"
  /\ size' = size + 1
  /\ wpc' = IF size' <= Capacity THEN "idle" ELSE "excess"
  /\ UNCHANGED <<rows, process, excess, found, acks, worker, kills, ghost, dropped>>

\* size.get() again, which need not be what incrementAndGet() returned.
ReadExcess ==
  /\ wpc = "excess"
  /\ excess' = size - Capacity
  /\ wpc' = "evict"
  /\ UNCHANGED <<rows, process, size, found, acks, worker, kills, ghost, dropped>>

\* Mutant of Evict: one row too few.
EvictOneFewer ==
  /\ wpc = "evict" /\ Open
  /\ rows' = rows \ Oldest(excess - 1)
  /\ evicted' = evicted \cup Oldest(excess - 1)
  /\ wpc' = "count"
  /\ UNCHANGED <<process, size, excess, found, acks, worker, kills, offered, written,
                 unwritten, received, dropped, baseline>>

Evict ==
  /\ wpc = "evict" /\ Open
  /\ rows' = rows \ Oldest(excess)
  /\ evicted' = evicted \cup Oldest(excess)
  /\ wpc' = "count"
  /\ UNCHANGED <<process, size, excess, found, acks, worker, kills, offered, written,
                 unwritten, received, dropped, baseline>>

CountRows ==
  /\ wpc = "count" /\ Open
  /\ found' = Cardinality(rows)
  /\ wpc' = "set"
  /\ UNCHANGED <<rows, process, size, excess, acks, worker, kills, ghost, dropped>>

\* Mutant of SetSize: the loss is not returned.
SetSizeSilently ==
  /\ wpc = "set"
  /\ size' = found
  /\ wpc' = "idle"
  /\ UNCHANGED <<rows, process, excess, found, acks, worker, kills, ghost, dropped>>

SetSize ==
  /\ wpc = "set"
  /\ size' = found
  /\ dropped' = dropped + excess
  /\ wpc' = "idle"
  /\ UNCHANGED <<rows, process, excess, found, acks, worker, kills, ghost>>

Add == Insert \/ Increment \/ ReadExcess \/ Evict \/ CountRows \/ SetSize

-----------------------------------------------------------------------------
(* The worker.                                                             *)

\* Mutant of Fetch: asks the counter whether anything waits, not the table.
FetchIfCounted ==
  /\ process = "up" /\ lpc = "idle" /\ size > 0 /\ rows # {}
  /\ batch' = InOrder(Oldest(BatchLimit))
  /\ lpc' = "send"
  /\ UNCHANGED <<rows, process, size, writer, kills, ghost, dropped>>

\* oldest(BATCH_LIMIT), and the loop over it.
Fetch ==
  /\ process = "up" /\ lpc = "idle" /\ rows # {}
  /\ batch' = InOrder(Oldest(BatchLimit))
  /\ lpc' = "send"
  /\ UNCHANGED <<rows, process, size, writer, kills, ghost, dropped>>

Published == received' = received \cup {Head(batch)}

\* Mutant of PublishFails: the loop goes on with the next message, and what
\* failed is removed.
PublishFailsRemoved ==
  /\ lpc = "send" /\ batch # <<>>
  /\ lpc' = "acked"
  /\ UNCHANGED <<rows, process, size, writer, batch, kills, ghost, dropped>>

\* publish() returns once the broker has acknowledged the message ...
PublishAcked ==
  /\ lpc = "send" /\ batch # <<>> /\ process # "dead"
  /\ Published
  /\ lpc' = "acked"
  /\ UNCHANGED <<rows, process, size, writer, batch, kills, offered, written,
                 unwritten, evicted, dropped, baseline>>

\* ... or throws, whether or not the broker has it; the batch is given up.
PublishFails ==
  /\ lpc = "send" /\ batch # <<>>
  /\ Published \/ received' = received
  /\ lpc' = "idle" /\ batch' = <<>>
  /\ UNCHANGED <<rows, process, size, writer, kills, offered, written,
                 unwritten, evicted, dropped, baseline>>

\* The batch is sent, or running is FALSE before the next message.
BatchEnds ==
  /\ lpc = "send" /\ (batch = <<>> \/ process # "up")
  /\ lpc' = "idle" /\ batch' = <<>>
  /\ UNCHANGED <<rows, process, size, writer, kills, ghost, dropped>>

\* remove(): the row, and the count if there was one.  A sampling thread that
\* is inside add() sees at most MaxAcks of them.
RemoveRow ==
  /\ lpc = "acked" /\ Open
  /\ rows' = rows \ {Head(batch)}
  /\ IF Head(batch) \in rows THEN lpc' = "decrement" /\ batch' = batch
                             ELSE lpc' = "send" /\ batch' = Tail(batch)
  /\ UNCHANGED <<process, size, writer, kills, ghost, dropped>>

\* The outbox is closed: the delete throws, and the message stays.
RemoveThrows ==
  /\ lpc = "acked" /\ process = "closed"
  /\ lpc' = "idle" /\ batch' = <<>>
  /\ UNCHANGED <<rows, process, size, writer, kills, ghost, dropped>>

Decrement ==
  /\ lpc = "decrement"
  /\ wpc # "idle" => acks < MaxAcks
  /\ size' = size - 1
  /\ acks' = IF wpc = "idle" THEN acks ELSE acks + 1
  /\ lpc' = "send" /\ batch' = Tail(batch)
  /\ UNCHANGED <<rows, process, wpc, excess, found, kills, ghost, dropped>>

Send == Fetch \/ PublishAcked \/ PublishFails \/ BatchEnds \/ RemoveRow
          \/ RemoveThrows \/ Decrement

-----------------------------------------------------------------------------
(* The service and its process.                                            *)

\* onStartCommand(): a new Outbox counts its rows.
Start ==
  /\ process = "dead"
  /\ process' = "up"
  /\ size' = Cardinality(rows)
  /\ dropped' = 0 /\ baseline' = evicted
  /\ UNCHANGED <<rows, writer, worker, kills, offered, written,
                 unwritten, received, evicted>>

Gone ==
  /\ process' = "dead" /\ size' = 0
  /\ wpc' = "idle" /\ excess' = 0 /\ found' = 0 /\ acks' = 0
  /\ lpc' = "idle" /\ batch' = <<>>
  /\ UNCHANGED <<rows, ghost, dropped>>

\* The process is killed, at any point.
Kill ==
  /\ process # "dead" /\ kills < MaxKills
  /\ kills' = kills + 1
  /\ Gone

\* onDestroy(): link.stop() clears running and waits for the worker, a second
\* at most, and the outbox is closed; the sampling thread is not waited for.
StopLink ==
  /\ ServiceStops /\ process = "up" /\ kills < MaxKills
  /\ process' = "stopping" /\ kills' = kills + 1
  /\ UNCHANGED <<rows, size, writer, worker, ghost, dropped>>

CloseOutbox ==
  /\ process = "stopping"
  /\ process' = "closed"
  /\ UNCHANGED <<rows, size, writer, worker, kills, ghost, dropped>>

\* The statement of an add() under way meets a closed database and throws: on
\* the sampling thread that ends the process.
AddThrows == process = "closed" /\ wpc \in {"insert", "evict", "count"}

Crash ==
  /\ AddThrows
  /\ UNCHANGED kills
  /\ Gone

\* The stop is over: no thread of the session is left.
Stopped ==
  /\ process = "closed" /\ wpc = "idle" /\ lpc = "idle"
  /\ UNCHANGED kills
  /\ Gone

Next ==
  \/ Offer \/ Add \/ Send
  \/ Start \/ Kill \/ StopLink \/ CloseOutbox \/ Crash \/ Stopped

Spec == Init /\ [][Next]_vars

\* Threads run; a broker that is reached again and again acknowledges in the
\* end; Android starts the sticky service again.
FairSpec ==
  /\ Spec
  /\ WF_vars(Add) /\ WF_vars(Start) /\ WF_vars(CloseOutbox)
  /\ WF_vars(Fetch) /\ WF_vars(BatchEnds) /\ WF_vars(RemoveRow) /\ WF_vars(Decrement)
  /\ WF_vars(RemoveThrows) /\ WF_vars(Crash) /\ WF_vars(Stopped)
  /\ SF_vars(PublishAcked)

-----------------------------------------------------------------------------
(* Properties.                                                             *)

\* "Removed only once the broker has acknowledged it" (MqttLink.kt:19-21): a
\* message that was written is on disk, with the broker, or was evicted, whatever
\* thread the process dies in.
AtLeastOnce ==
  written \subseteq rows \cup received \cup evicted

\* What add() evicts is counted "where it can be seen" (Outbox.kt:51-55): when
\* it has returned, the count covers every message this process deleted that the
\* broker does not have.
LossIsCounted ==
  wpc = "idle" /\ process = "up" =>
    dropped >= Cardinality((evicted \ baseline) \ received)

\* The table outgrows its capacity by two rows at most, the one being added and
\* one that a removal between two reads of the counter makes add() miss; and by
\* one more for each death between an insert and its eviction (Outbox.kt:62-65).
StaysBounded == Cardinality(rows) <= Capacity + 2 + kills

\* The oldest go first, to the broker and out of the table (Outbox.kt:52 and 69): a
\* message is received for the first time only after every older one that waits, and
\* an eviction leaves no older message.
OldestFirst ==
  [][ /\ \A m \in received' \ received :
           \A k \in rows : k < m => k \in received'
      /\ \A m \in evicted' \ evicted : \A k \in rows' : k > m ]_vars

\* Whatever is written is received in the end, or evicted.
EventuallyReceived ==
  \A m \in Message : m \in rows ~> m \in received \cup evicted

-----------------------------------------------------------------------------
(* Expected by the sources and not so: no run checks these, the README says *)
(* what a run that did would show.                                          *)

\* A message handed to add() is on disk or counted, never neither.
WrittenOrCounted == wpc = "idle" => Cardinality(unwritten) <= dropped

\* A stop does not crash the node on its way out (NodeService.kt:155-157).
StopsCleanly == ~ AddThrows
=============================================================================
