-------------------------------- MODULE Ingest --------------------------------
(***************************************************************************)
(* Ingestion: a message off the broker becomes a row (backend ingest.py,   *)
(* domain/telemetry.py resolve_instant() and BootAnchors, adapters         *)
(* postgres.py and mqtt.py, cli.py cmd_run()).                             *)
(*                                                                         *)
(* One device takes readings, with an uptime that is always right and a    *)
(* clock that may be absent or wrong; its messages reach the broker late,  *)
(* again, or marked replayed.  Each ingestion process handles a message in *)
(* two steps, as two SQL statements: the lookup of its identity, with the  *)
(* instant already resolved, and the insert.  The anchors are in the       *)
(* process's memory and are reloaded from the table when it starts.        *)
(*                                                                         *)
(* A message carries what the resolution reads; the rest is one of the     *)
(* messages of Contract, and what it is stands for it here: good,          *)
(* malformed, one whose parsing throws, or one its table refuses.  Time is *)
(* a count of units, the same for device and server; CLOCK_TOLERANCE is    *)
(* Tolerance units.  Broker, Paho and PostgreSQL are external.  Messages   *)
(* on other topics, and boot announcements, which only add a row, are left *)
(* out.                                                                    *)
(***************************************************************************)
EXTENDS Integers, FiniteSets, Contract

CONSTANTS
  Process,     \* ingestion processes
  Kinds,       \* tables in use: subset of {"reading", "sample", "event"}
  Boots,       \* bound of the model: boots of the device are 1 .. Boots
  MaxTaken,    \* bound of the model: messages taken
  MaxHanded,   \* bound of the model: deliveries
  MaxTime,     \* bound of the model: the clock
  MaxCrashes,  \* bound of the model: crashes
  Tolerance,   \* CLOCK_TOLERANCE
  ClockErrors, \* what the device's clock may be off by, at any message
  MaxStrange   \* bound of the model: messages malformed or out of range

ASSUME IngestBoundsAssumption ==
  /\ Boots \in Nat /\ MaxTaken \in Nat /\ MaxHanded \in Nat
  /\ MaxTime \in Nat /\ MaxCrashes \in Nat /\ MaxStrange \in Nat
ASSUME IngestDataAssumption ==
  /\ Kinds \subseteq {"reading", "sample", "event"} /\ Tolerance \in Nat
  /\ ClockErrors \subseteq Int /\ IsFiniteSet(ClockErrors)

Boot    == 1 .. Boots
Time    == 0 .. MaxTime
Instant == Time \cup UNION { { t + e : e \in ClockErrors } : t \in Time }

Message ==
  [boot : Boot, kind : Kinds, seq : 1 .. MaxTaken, up : Time, claimed : BOOLEAN,
   ts : Instant, shape : {"good", "malformed", "throws", "refused"}]

Row ==
  [boot : Boot, kind : Kinds, seq : 1 .. MaxTaken, up : Time, ts : Instant,
   claimed : BOOLEAN, time : Instant, from : {"clock", "anchor", "arrival"}]

VARIABLES
  now,       \* the clock of the server
  boot,      \* the device's boot: 0 before the first
  start,     \* when each boot began
  taken,     \* messages the device took
  handed,    \* deliveries so far
  crashes,   \* crashes so far
  up,        \* which processes run
  anchors,   \* each process's BootAnchors: a function of the boots anchored
  pending,   \* the row each process is between lookup and insert with
  rows,      \* the tables
  rejected,  \* rejected_message
  handled,   \* history: messages whose handling came to its end
  restarted  \* history: whether a process ever reloaded its anchors

device == <<boot, start, taken>>
vars == <<now, device, handed, crashes, up, anchors, pending, rows, rejected,
          handled, restarted>>

TypeOK ==
  /\ now \in Time /\ boot \in 0 .. Boots /\ start \in [Boot -> Time]
  /\ \A m \in taken : m \in Message
  /\ handed \in 0 .. MaxHanded /\ crashes \in 0 .. MaxCrashes
  /\ up \subseteq Process
  /\ \A p \in Process :
       /\ DOMAIN anchors[p] \subseteq Boot
       /\ \A b \in DOMAIN anchors[p] : anchors[p][b] \in Instant
       /\ Cardinality(pending[p]) <= 1
       /\ \A w \in pending[p] : w.m \in taken /\ w.row \in Row
  /\ \A r \in rows : r \in Row
  /\ rejected \subseteq taken /\ handled \subseteq taken
  /\ restarted \in BOOLEAN

None == [b \in {} |-> 0]

Init ==
  /\ now = 0 /\ boot = 0 /\ start = [b \in Boot |-> 0]
  /\ taken = {} /\ handed = 0 /\ crashes = 0
  /\ up = Process
  /\ anchors = [p \in Process |-> None] /\ pending = [p \in Process |-> {}]
  /\ rows = {} /\ rejected = {} /\ handled = {}
  /\ restarted = FALSE

-----------------------------------------------------------------------------
(* The device and time.                                                    *)

server == <<handed, crashes, up, anchors, pending, rows, rejected, handled, restarted>>

Tick ==
  /\ now < MaxTime
  /\ now' = now + 1
  /\ UNCHANGED <<device, server>>

DeviceBoots ==
  /\ boot < Boots
  /\ boot' = boot + 1
  /\ start' = [start EXCEPT ![boot + 1] = now]
  /\ UNCHANGED <<now, taken, server>>

\* seq counts within a boot, and an event's within its own table.
NextSeq(kind) == 1 + Cardinality({ m \in taken : m.boot = boot /\ m.kind = kind })

Strange == Cardinality({ m \in taken : m.shape # "good" })

Take(kind) ==
  /\ boot > 0 /\ Cardinality(taken) < MaxTaken
  /\ \E claimed \in BOOLEAN : \E err \in ClockErrors :
     \E shape \in {"good"} \cup IF Strange < MaxStrange THEN Fates[kind] ELSE {} :
       taken' = taken \cup
         {[boot |-> boot, kind |-> kind, seq |-> NextSeq(kind),
           up |-> now - start[boot], claimed |-> claimed,
           ts |-> IF claimed THEN now + err ELSE 0, shape |-> shape]}
  /\ UNCHANGED <<now, boot, start, server>>

-----------------------------------------------------------------------------
(* The instant of a message: telemetry.py.                                 *)

AbsDrift(d) == IF d < 0 THEN -d ELSE d

\* _clock_survives_arrival()
ClockSurvives(m, replayed) ==
  LET drift == m.ts - now
  IN  IF replayed THEN drift <= Tolerance ELSE AbsDrift(drift) <= Tolerance

\* BootAnchors.observe(): the first one stays.
Observed(known, m) ==
  [b \in DOMAIN known \cup {m.boot} |->
     IF b \in DOMAIN known THEN known[b] ELSE m.ts - m.up]

\* Mutant of Placed: the uptime is left out.
PlacedAtBoot(known, m) == known[m.boot]

\* instant_for()
Placed(known, m) == known[m.boot] + m.up

Believed(m, replayed) == m.claimed /\ ClockSurvives(m, replayed)

\* resolve_instant(): the clock, else the anchor, else the arrival.
Origin(known, m, replayed) ==
  IF Believed(m, replayed) THEN "clock"
  ELSE IF m.boot \in DOMAIN known THEN "anchor" ELSE "arrival"

Resolved(known, m, replayed) ==
  LET from == Origin(known, m, replayed)
  IN  [boot |-> m.boot, kind |-> m.kind, seq |-> m.seq, up |-> m.up, ts |-> m.ts,
       claimed |-> m.claimed, from |-> from,
       time |-> IF from = "clock" THEN m.ts
                ELSE IF from = "anchor" THEN Placed(known, m) ELSE now]

-----------------------------------------------------------------------------
(* A process: Ingestor.handle() on Paho's callback thread.                 *)

\* The identity of a row is looked up, and the unique index adds the instant.
SameIdentity(r, m) == r.kind = m.kind /\ r.boot = m.boot /\ r.seq = m.seq

Conflicts(r) == \E x \in rows : SameIdentity(x, r) /\ x.time = r.time

\* Mutant of Stored: identity left to the unique index.
NeverStored(m) == FALSE

Stored(m) == \E r \in rows : SameIdentity(r, m)

Ready(p) == p \in up /\ pending[p] = {} /\ handed < MaxHanded

Reject(p, m) ==
  /\ Ready(p) /\ m \in taken /\ m.shape = "malformed"
  /\ handed' = handed + 1
  /\ rejected' = rejected \cup {m} /\ handled' = handled \cup {m}
  /\ UNCHANGED <<now, device, crashes, up, anchors, pending, rows, restarted>>

\* resolve(), which observes the clock it believes, and the SELECT.
Handle(p, m, replayed) ==
  /\ Ready(p) /\ m \in taken /\ m.shape \in {"good", "refused"}
  /\ handed' = handed + 1
  /\ anchors' = IF Believed(m, replayed)
                THEN [anchors EXCEPT ![p] = Observed(@, m)] ELSE anchors
  /\ IF Stored(m)
     THEN handled' = handled \cup {m} /\ UNCHANGED pending
     ELSE /\ pending' = [pending EXCEPT ![p] =
                           {[m |-> m, row |-> Resolved(anchors[p], m, replayed)]}]
          /\ UNCHANGED handled
  /\ UNCHANGED <<now, device, crashes, up, rows, rejected, restarted>>

\* INSERT ... ON CONFLICT DO NOTHING.
Insert(p) ==
  /\ p \in up
  /\ \E w \in pending[p] :
       /\ w.m.shape = "good"
       /\ rows' = IF Conflicts(w.row) THEN rows ELSE rows \cup {w.row}
       /\ handled' = handled \cup {w.m}
  /\ pending' = [pending EXCEPT ![p] = {}]
  /\ UNCHANGED <<now, device, handed, crashes, up, anchors, rejected, restarted>>

Down(p) ==
  /\ up' = up \ {p}
  /\ anchors' = [anchors EXCEPT ![p] = None]
  /\ pending' = [pending EXCEPT ![p] = {}]

\* An exception of the callback ends loop_forever() and the process: one that is
\* no InvalidMessage while the message is parsed or its instant computed,
HandleThrows(p, m) ==
  /\ Ready(p) /\ m \in taken /\ m.shape = "throws"
  /\ handed' = handed + 1
  /\ Down(p)
  /\ UNCHANGED <<now, device, crashes, rows, rejected, handled, restarted>>

\* or a CHECK constraint that refuses the row.
InsertThrows(p) ==
  /\ p \in up
  /\ \E w \in pending[p] : w.m.shape = "refused"
  /\ Down(p)
  /\ UNCHANGED <<now, device, handed, crashes, rows, rejected, handled, restarted>>

Crash(p) ==
  /\ p \in up /\ crashes < MaxCrashes
  /\ crashes' = crashes + 1
  /\ Down(p)
  /\ UNCHANGED <<now, device, handed, rows, rejected, handled, restarted>>

\* known_boot_anchors(): the believed rows of two of the tables ...
Anchoring == { r \in rows : r.kind # "event" /\ r.claimed /\ r.from = "clock" }

\* ... the earliest of each boot.
Reloaded ==
  LET of(b)    == { r \in Anchoring : r.boot = b }
      first(b) == CHOOSE r \in of(b) : \A x \in of(b) : r.time <= x.time
  IN  [b \in { r.boot : r \in Anchoring } |-> first(b).time - first(b).up]

\* Mutant of Start: the anchors are not reloaded.
StartBlank(p) ==
  /\ p \notin up
  /\ up' = up \cup {p} /\ restarted' = TRUE
  /\ UNCHANGED <<now, device, handed, crashes, anchors, pending, rows, rejected,
                 handled>>

\* cmd_run(): load_anchors(), then connect.
Start(p) ==
  /\ p \notin up
  /\ up' = up \cup {p} /\ restarted' = TRUE
  /\ anchors' = [anchors EXCEPT ![p] = Reloaded]
  /\ UNCHANGED <<now, device, handed, crashes, pending, rows, rejected, handled>>

Serve(p) ==
  \/ \E m \in taken : Reject(p, m) \/ HandleThrows(p, m) \/ \E replayed \in BOOLEAN : Handle(p, m, replayed)
  \/ Insert(p) \/ InsertThrows(p) \/ Crash(p) \/ Start(p)

Next ==
  \/ Tick \/ DeviceBoots
  \/ \E kind \in Kinds : Take(kind)
  \/ \E p \in Process : Serve(p)

Spec == Init /\ [][Next]_vars

-----------------------------------------------------------------------------
(* Properties.                                                             *)

\* (device, boot, seq) is the identity of a reading: however often a message is
\* delivered, at whatever instants it resolves to, it is one row
\* (docs/CONTRACT.md:59-63, postgres.py:46-49).
OneRowPerIdentity == \A r, x \in rows : SameIdentity(r, x) => r = x

\* Arrival is the last resort: it is not used for a boot one of whose messages
\* was believed and stored, restarts included (README.md:232, ports.py:39-43).
ArrivalIsLastResort ==
  [][ \A r \in rows' \ rows :
        r.from = "arrival" =>
          ~ \E x \in rows : x.boot = r.boot /\ x.from = "clock" ]_vars

\* The device's clock has been off by the same all through a boot.
Steady(b) ==
  \A m, k \in taken : m.boot = b /\ k.boot = b /\ m.claimed /\ k.claimed =>
                       m.ts - m.up = k.ts - k.up

\* Rows placed by the anchor keep the distances between their uptimes: an outage
\* keeps its shape (README.md:200-202).  With a steady clock over restarts too.
AnchoredShape ==
  \A r, x \in rows :
    /\ r.from = "anchor" /\ x.from = "anchor" /\ r.boot = x.boot
    /\ restarted => Steady(r.boot)
    => r.time - x.time = r.up - x.up

\* Nothing is dropped silently (docs/CONTRACT.md:112-114): a message that was
\* handled to the end has its own row, or is in rejected_message.
HandledIsKept ==
  \A m \in handled :
    m \in rejected \/ \E r \in rows : r.kind = m.kind /\ r.boot = m.boot
                                        /\ r.seq = m.seq /\ r.up = m.up

\* However often it is delivered and whatever fails, a message is kept, and once.
KeptOnce == HandledIsKept /\ OneRowPerIdentity

\* The parsers of samples and events let no message through that their tables
\* refuse, so none of these ends ingestion at the insert (samples.py:47-48).
ParsedIsTaken ==
  /\ RangesAgree
  /\ \A m \in taken : m.shape = "refused" => m.kind = "reading"

-----------------------------------------------------------------------------
(* Expected by the sources and not so: no run checks these, the README says *)
(* what a run that did would show.                                          *)

\* "Ingestion anchors each boot to real time once" (README.md:202): the same over
\* restarts, whatever the clock does.
AnchoredOnce ==
  \A r, x \in rows :
    r.from = "anchor" /\ x.from = "anchor" /\ r.boot = x.boot =>
      r.time - x.time = r.up - x.up
=============================================================================
