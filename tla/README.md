# A specification of Psychron

Psychron records room climate. An ESP32 node and an Android phone take readings
and publish them over MQTT; a Python backend places each in time and stores it in
PostgreSQL, raises alerts, and serves a dashboard. Most of its code is about one
promise: *a reading that was taken is stored once, at the right instant, or is in
a loss that somebody counted*, through power cuts, dead connections, killed
processes and changes of network.

This directory holds TLA+ modules translated from that code, the TLC
configurations that check them on small instances, and proofs that TLAPS checks
for every value of the constants. Paths below are relative to the repository.

    tlc -workers 2 -config MCRingStore.cfg MCRingStore      # any run of the table
    tlapm RingStoreProofs.tla                               # any module of proofs

## 1. Inventory

| component | state it keeps | operations | what is hard |
|---|---|---|---|
| flash ring, `firmware/psychron_node/store.cpp` | header (head, tail, count) in RAM and in flash, slots with a CRC, `dirty`, `evicted` | `begin push peek pop flush` | power cuts inside a call, failing writes, a header that lags the slots |
| legacy migration, `store.cpp:121-160` | the old single file, the block being filled | part of `begin` | order of removal and commit, the partial last block, a cut between two writes |
| unconfirmed window, `inflight.h` | a ring of sent readings with their times | `sent expire reclaim room` | forgets by age alone |
| node loop, `psychron_node.ino` | pass position, `seq`, `unconfirmedSession`, `lostReadings` | `reclaimUnconfirmed drainStore handOff loop` | sessions replaced inside a pass, order of backlog and live readings, cuts |
| node link, `netlink.cpp` | WiFi, MQTT client, session number | `loop state session publish` | streams that die silently |
| node update, `ota.cpp`; `backend/.../release.py` | the running image; images and manifest on the server | `poll`, download, verify, commit; release | an image replaced while it is downloaded, rollbacks, restarts half way |
| node provisioning, `provisioning.cpp`, `certstore.cpp`, `backend/.../provision.py` | staging buffer, credentials in flash and in memory | `BEGIN C END STATUS ERASE`; the tool's script | lost characters, late replies taken for the next answer, a restart amid a session |
| sensor, payload, panel | none that outlives a call | reads, formats, draws | - |
| phone outbox, `Outbox.kt` | SQLite table, an atomic counter | `add oldest remove close` | three threads, process death, a counter that drifts from its table |
| phone link, `MqttLink.kt`, `NetworkWatch.kt`, `Endpoints.kt` | `client endpoint lastWorked wake`, backoff, networks seen | `loop connect send onNetworkChange offer` | callbacks against the worker at every shared access |
| phone service and sensors, `NodeService.kt`, `SensorWindow.kt`, `Sntp.kt`, ... | windows, clock offset, detector state | sampling, `flush`, start, stop | stop against a sample under way |
| ingestion, `ingest.py`, `domain/telemetry.py`, `adapters/postgres.py`, `adapters/mqtt.py` | boot anchors in memory; `reading sample event rejected_message` | `handle`, resolve, store | duplicates, order, wrong clocks, crash, two processes |
| alerting, `alerting.py`, `domain/alerts.py`, `adapters/alerts_pg.py`; `AlertNotifier.kt` | table `alert`, retained messages, notifications | `tick`: observe, decide, apply, publish | two processes, a crash or a failure between two statements |
| wire contracts, `domain/telemetry.py`, `samples.py`, `events.py`; the CHECKs of the tables | none | three parsers | ranges written twice, bounds, exceptions that are not rejections |
| identity, `domain/identity.py`, `adapters/identity_pg.py`, `api/routes_auth.py`, `admin.py` | accounts, codes, invitations, sessions, attempts | invite, enrol, sign in, second factor, sign out, reissue | concurrent requests over one row, a handler that ends half way |
| read side, `adapters/queries.py`, `api/app.py`, `002_aggregates.sql`; `frontend/src/App.tsx` | a pool of connections, each socket's last instant, the aggregate, the reading a panel shows | latest, health, series, gaps, export, live socket, `load` | rows that arrive late and out of order, a refresh that reaches back only so far, snapshots, a socket that ends and is not reopened |
| simulator, the rest of the dashboard, deployment | none at run time | - | - |

How they interact: the node loop calls the window, the store and the link in one
thread; only the network and the power are concurrent with it. The phone's
sampling thread, link worker, watch thread and main thread share the outbox and
the link's fields. Node and phone reach ingestion only through the broker, at
QoS 0 and QoS 1. Ingestion and alerting share the database, not their
connection; alerting reaches the phone through retained messages. The panel's
process only reads what ingestion writes; its handlers run in threads over one
autocommit pool. Provisioning and updates reach the node over the cable and over
HTTPS, both from `loop()`.

What makes each component correct: the ring keeps what it committed, oldest first, and
counts what it drops; the loop never forgets a reading that nobody has; the outbox
removes only what is acknowledged or evicted, and counts evictions; the link gives up a
stream that a change of network silenced, and sleeps through no change; ingestion stores
each identity once and places it by the best source there is; an alert is open at most
once and the screen agrees with the table; what the panel shows is what the rows say;
nobody is signed in without a second factor or after a session's end; a node runs one
whole build, in the end the one released. `PROJECT.json` lists each hazard at its line,
with the property that covers it or the reason why none does.

## 2. Modules

| module | models | composed from |
|---|---|---|
| `ReadingQueue` | abstract: what `store.h` promises, a bounded queue and the image of it that a restart finds | - |
| `RingStore` | `store.cpp`, every call and every cut inside one | implements `ReadingQueue` |
| `RingMigration` | `createRing()` and `migrateLegacy()`, one flash write a step | - |
| `NodeDelivery` | the loop, the window, the MQTT keepalive, time | uses the store as `ReadingQueue` allows |
| `Outbox` | `Outbox.kt` against sampler, worker, main thread and process death | - |
| `Ordering` | a set of integers as a sequence, for `ORDER BY` and `filter{}` | used by `Outbox` and `Endpoints` |
| `Endpoints` | `isLocal()` and `order()` as operators | used by `PhoneLink` |
| `PhoneLink` | `MqttLink.kt` worker against `NetworkWatch.kt` callbacks | extends `Endpoints` |
| `Contract` | the three parsers and the CHECKs of their tables, as operators | used by `Ingest` |
| `Ingest` | a message from the broker to a row, with anchors, crash and restart | extends `Contract` |
| `Alerts` | alert loop, table, broker, phone | - |
| `Identity` | requests of several people against the tables of accounts, one statement a step | - |
| `ReadSide` | queries, aggregate, exports and a panel with its live socket over a table that fills | - |
| `Provisioning` | tool, cable, the node's commands and its store of credentials | - |
| `Update` | release, poll, download, commit | - |
| `NodeUpkeep` | one node under both, with restarts | extends `Provisioning` and `Update` |
| `RingStoreProofs`, `NodeDeliveryProofs`, `OutboxProofs`, `PhoneLinkProofs`, `IngestProofs`, `IdentityProofs` | theorems (section 5) | each extends the module it is named for |
| `ReadersProofs` | theorems on alerts and the read side | extends `Alerts` and `ReadSide` |
| `UpkeepProofs` | theorems on provisioning, update and migration | extends `NodeUpkeep` and `RingMigration` |

`MC<name>` instantiates each for TLC. A definition whose comment says *Mutant of*
is a plausible bug, kept to show that the property named with it in
`PROJECT.json` would see it; no specification uses one.

### Flash ring (`RingStore`, `ReadingQueue`)

`hdr`, `dirty`, `power` are the RAM state (`store.cpp:42-45`); `slot` and
`committed` are the flash. A record is its identity and whether its CRC holds.
`Push`, `Peek`, `Pop`, `Flush` and `Begin` are the functions, with one disjunct
for each early return or failing write. `PowerCut` outside a call drops RAM;
inside a call (`CutInPush`, `CutInHeader`) it leaves the slot untouched, torn or
written, and the header old, new or, if the file system lets a truncated file be
seen (`FsMayTear`), gone. History: `pushed` numbers the readings, `kept` are
those the ring promised to keep.

`ReadingQueue` says the same without slots: an entry is in `queue` and in
`image`; a put over a full queue loses the oldest; after a cut the queue is the
image. `ImplementsQueue` is the refinement, with both read off the header.

### Migration (`RingMigration`)

The first boot over an old `ring.bin` of any tail and count. A step is one flash
access; each may fail (`MaxFails`) and the power may be cut between any two.

### Node (`NodeDelivery`)

One action is one step of a pass: link, reclaim (record by record), drain (record by
record), reading (`Take`), its hand-over (`GoLive`, or the slot a push writes, `Store`)
and the commit of the header (`Commit`). Between any two of them the stream may die
without notice, be reset or replaced, WiFi may go and return, the broker may read, or
the power may fail. A power cut may also strike inside a push, behind the write of its
slot and before head, tail, count and `evicted` move (`Pushing`, `store.cpp:193-206`):
the slot then holds the pushed reading and nothing has been counted. What is lost that
way is `cutLost`; a reading that lands so in a slot which the header gives to the oldest
is `misplaced`. Ages stand for times, so behaviours are infinite and the state finite.
The store is the bounded queue of `ReadingQueue` with the lag between its RAM header and
the committed one (`behind`), so that a power cut finds the slots the ring would;
`KeepsStoreContract` checks that the loop uses it only as the contract allows. A failing
write leaves the slot as it was here; damaged slots are `RingStore`'s subject.
PubSubClient's keepalive is modelled from its use: a ping after `KeepAlive` of silence,
a close when the next one is due unanswered.

### Phone outbox and link (`Outbox`, `PhoneLink`, `Endpoints`)

In `Outbox` a step is one SQL statement or one atomic operation, of the sampling
thread (`add()`), of the worker (fetch, publish, remove) or of the service. Rows
survive the process, the counter does not. In `PhoneLink` a step is one access to
`client`, `endpoint`, `lastWorked` or `wake`, and the network changes first,
silently, the callbacks later. A change silences the stream wherever it stands between
its handshake and its end (`quiet`), whether `client` names it yet or not; `overlooked`
says that the callback looked at `endpoint` or `client` before `connectTo()` had set
them. Messages are a count there and identities here:
the two share only "a publish succeeds or throws".

### Ingestion (`Ingest`)

A message carries boot, sequence number, uptime, and a clock that is absent or
off by one of `ClockErrors`. It is delivered any number of times, marked
replayed or not, in any order. `Handle` resolves its instant (`resolve_instant`)
and looks its identity up; `Insert` is the second statement. Anchors are process
memory and `Start` reloads them from the table. What becomes of a message
is its `shape`, one of the fates that `Contract` finds for its kind: a malformed one
goes to `rejected_message`; one the table's CHECK refuses, or whose parsing throws
another exception, ends the process.

`Contract` writes `SCHEMA` and `KINDS` down as records of `Spec`s, the parsers as
operators from a message to a verdict, and the CHECKs as sets per column. The
messages it tries are every subset of a group's fields, every field at, inside and
beyond each bound and of each JSON type, and the faults of the envelope. Numbers are
integers, so a bound is met exactly or missed by one. `SampleIsTaken` and `EventIsTaken`
(section 5) are about every message of this form, tried or not.

### Alerts (`Alerts`)

Levels of a value stand for its numbers: unknown, below the clearing threshold,
between, beyond the raising one. A pass is as many steps as it has statements. A
failing statement ends the pass; a lost connection is never opened again; a crash
takes Paho's queue with it. The broker retains the last message per topic.

### Identity (`Identity`)

A request runs one handler of `routes_auth.py` or one command of `admin.py`, as many
steps as it has statements that matter, and may end after any (`Dies`): the
connection is autocommit. `job` is where each is; what a request creates bears
its name. Passwords, secrets and codes are named by the enrolment that made them.
Lockout counts the failures within `Lockout` of now, and `Until` is the instant a 429
announces. `Before` is an enrolment made earlier, so that sign-in starts from a panel
in use as well as from an empty one.

### Read side (`ReadSide`)

A row is when it was taken, the instant it bears and when it arrived; `Store` adds one
at any time, late or ahead by the tolerance of ingestion. `mat` and `watermark` are the
materialised part of `reading_1m` and `Refresh` its policy; what is not materialised is
read through (`004_realtime_aggregates.sql`). The queries are operators over these:
`Latest`, `DeviceReporting`, `Gaps`, `Series`. An export declares a server-side cursor
(`snapshot`) and holds a connection. The panel shows one reading (`showing`): `Poll` is
the live socket's message, which is there at once, `Load`, `Loaded` and `LoadFails` the
page's own request every minute, whose answer may come late. `SocketEnds` is any end of
`live()`: a pooled connection that is not had within psycopg's 30 s, a query that fails,
the browser's path.

### Provisioning and update (`Provisioning`, `Update`, `NodeUpkeep`)

The tool's script is a sequence of commands; `Sends` drops what was in the input buffer
and takes the first reply that comes. The cable loses characters, lines and replies
(`MaxFaults`, shared with memory that cannot be had). `store()` is two steps, flash then
memory. A credential is two chunks; what a slot holds is whole, another's, short, or from
an earlier session. An image is two halves, and a release empties the file, writes one
half after the other, then empties and writes the manifest, which a node may read at any
point. `NodeUpkeep` puts both under one `loop()`: no command is answered during a
download, an update needs complete credentials, and its restart falls into whatever
session the tool is in. `Labels` are the versions a build may be released as.

## 3. What the runs check

| run | bounds | shows |
|---|---|---|
| `ring_store` | 3 slots in files of 2, 5 pushes, torn headers | nothing blank is queued (`NoBlankQueued`), committed readings survive (`Durable`), every reading that leaves is counted (`LossIsCounted`), the contract (`ImplementsQueue`) |
| `ring_migration` | 5 slots in files of 2, 2 cuts, 2 failures, every tail and count | the migrated ring is whole or empty, a slot holds its own reading or zeroes (`MigratedOrEmpty`) |
| `node_delivery` | 3 readings, store 2, window 2 with headroom 1, 1 cut | no reading vanishes uncounted or is held twice, and a cut costs at most one that was never sent (`NothingVanishes`), `HeadroomSuffices`, `FirstSentInOrder`, `KeepsStoreContract` |
| `node_delivery_live` | 2 readings, store 2, window 1, 1 cut, 1 failing access | `EventuallyDelivered` |
| `outbox` | 5 messages, capacity 1, batch 2, 1 kill or stop | `AtLeastOnce`, `LossIsCounted`, `StaysBounded`, order of first receipt and of eviction (`OldestFirst`), `EventuallyReceived` |
| `outbox_race` (violation) | 2 removals inside one `add()` | section 7 |
| `phone_link` | a LAN and a VPN address, 1 message, 2 changes; every provisioning of up to 3 addresses | `TriedByRank`, `SilentIsOverlooked`, `ChangeEndsBackoff`, `EventuallySent` |
| `ingest` | readings and samples, 2 boots, 3 messages, 3 deliveries, 1 crash; every message of `Contract` | kept, and once (`KeptOnce`), `AnchoredShape`, `ArrivalIsLastResort`, what is parsed the table takes (`ParsedIsTaken`) |
| `alerts` | 2 processes, 2 rules, 2 changes; a failure, a drop, a crash and an absence each | the table arbitrates (`RecordComesFirst`), `ShownIsRecord`, `OnlyThresholds`, `EventuallyShown` |
| `identity` | 4 requests, 2 people, 2 codes, 2 attempts, 2 instants, 1 handler that dies | `GrantNeedsSecondFactor`, `CodeSpentOnce`, `ConsumedMeansEnrolled`, `UntilHolds`, `EndedStaysEnded` |
| `read_side` | 3 readings over 6 instants, clock errors 0 and 2, 1 download, a pool of 1; a panel while there are up to 2 readings | `ReportsTheDevice`, `GapsAreSilences`, `ChartIsWhole`, `ExportIsSnapshot`, `LiveShowsLatest` |
| `upkeep` | 2 credentials of 2 chunks, 1 session, 1 fault, 3 builds, 2 releases, 1 broken download, 1 restart | `SuccessMeansStored`, `RunsOneBuild`, `EndsUpCurrent` |

The bounds, and why they are enough to meet the interesting cases:

- *Ring.* Three slots over files of two give a partial last file, a wrap, and a
  full ring whose head is its tail; five pushes overwrite the ring and go on. The
  theorems of section 5 remove the bound for all but the refinement and the count.
- *Migration.* Every old tail and count is an initial state; two cuts reach a cut
  in the boot after a cut.
- *Node.* `KeepAlive = 1`, `MaxPass = 1`, `RoundTrip = 0`, `Horizon = 5`: the least
  horizon that holds three keepalives and two passes, which is what `Accounted`
  needs for any times (section 5). With 4 it fails. In the code 45 s, 15 s and a
  pass of normally under a second; section 7 says what is left over.
  Three readings fill the window and one
  more, and overfill the store of two under a push that a cut strikes; what several cuts
  cost together is proved (section 5), and so is every other property of this run; `ReadPeriod = 6` in `node_delivery` is a period longer than the horizon,
  what `Headroom = 1` allows for; `node_delivery_live` takes readings faster than
  that, with a window of one, so that readings are overwritten.
- *Outbox.* Five messages over a capacity of one evict three times, across a
  restart. `MaxAcks = 1` is a worker that completes one removal inside one
  `add()`, the usual case at a window every two seconds; two are `outbox_race`.
- *Link.* Two changes allow one during the handling of another. One message is
  enough to hold or empty the queue.
- *Ingest.* Three deliveries are a believed message and two placed by it, or a
  delivery, a crash and a redelivery.
- *Alerts.* Two changes raise and clear; each fault happens once, anywhere.
- *Contract.* Not a bound of behaviour but of data: a field is tried at both ends of
  its range and one beyond, which is where the two notations of a range can differ.
- *Identity.* Four requests are a link used twice, or a password, a second factor and
  two that race with them; two failures make a lockout, and requests that had passed
  the check make one more. Two instants separate every lifetime from the next.
- *Read side.* Three readings are one before a silence, one after and one that is
  replayed into it; six instants outlast the raw span, the reach of a refresh and the
  day. A pool of one makes every wait for a connection happen; the code has eight. Two
  readings (`MaxWatched`) are one shown and one that passes it on the way.
- *Upkeep.* Three builds of two versions make a second release an upgrade, a rollback,
  a replacement of the image under its name, or a mislabelled one. One session
  meets an erase or none, and a fault or a restart at any command.

Deadlock is checked in `ring_store`, `node_delivery`, `node_delivery_live` and
`phone_link`. It is off where all the bounded work may be done: the migration has
ended, all messages are sent and the service is stopped, all deliveries are made,
no change is left, every request is answered, or the node is up to date.

## 4. Fairness

- `NodeDelivery`: weak for a step of the loop and for boot (the Arduino core
  calls `loop()` in a loop) and for the broker reading a live stream; strong for
  time, which a model that can always take another pass would stop.
  `EventuallyDelivered` assumes `<>[]LinkHolds`, a path that holds in the end,
  and flash that fails finitely often.
- `Outbox`: weak for each thread's steps and for Android restarting a sticky
  service (`NodeService.kt`, `START_STICKY`); strong for an acknowledged publish:
  a broker that is reached again and again answers once.
- `PhoneLink`: weak for the worker, the callbacks and the passing of the batch
  interval; strong for a connect that succeeds, used under `<>[]Calm`, some
  address stays reachable.
- `Alerts`: weak for the thirty-second loop, Paho's sender, and the phone
  reconnecting and reading. `EventuallyShown` assumes one process that neither
  crashes nor loses its connection; a failed statement it tolerates.
- `ReadSide`: weak for a download that goes on or ends; strong for the poll, for a
  socket whose poll is not served in 30 s does not stay open; strong for the page's
  request and its answer, which are tried again every minute: assumed is that not every
  try falls into 30 s without a free connection and not every answer is lost. Nothing
  keeps the socket from ending.
- `NodeUpkeep`: weak for the loop's steps, for the tool going on and for a release
  that was begun; strong for the poll, which the serial port may keep waiting for a
  while. `EndsUpCurrent` assumes credentials that stay and a last release that is
  labelled with its own version.

No fairness is assumed of faults, cuts, deliveries or changes of network.

## 5. What is proved

For every value of the constants, under the assumptions each module states of its
constants and the hypotheses named here. Types are proved first: each module has
a theorem or an invariant `Typed`. A proof has one step or one lemma per action; no
backend but SMT, Zenon and LS4 is used.

| module | theorem | states | hypotheses |
|---|---|---|---|
| `RingStoreProofs` | `HeadersStayConsistent`, `NeverQueuesBlank`, `PromisedReadingsSurvive` | `HeadersConsistent`, `NoBlankQueued`, `Durable` | - |
| | `NoSilentLoss`, `ImplementsReadingQueue` | `LossIsCounted`, `ImplementsQueue` | - |
| `NodeDeliveryProofs` | `UnsentSurvivesCuts`, `OnlyThePushIsAtStake` | `CutCostsOne`, and which one it is | - |
| | `NothingLost`, `NothingLostToPromptBrokers` | `Accounted` | time, below |
| | `NodeLosesNothing` | `NothingVanishes` | time; the flash does not fail |
| | `OldestSentFirst`, `StoreUsedAsPromised` | `FirstSentInOrder`, `KeepsStoreContract` | the flash does not fail |
| | `HeadroomIsEnough` | `HeadroomSuffices` | `Headroom * ReadPeriod > Horizon` |
| `OutboxProofs` | `NothingRemovedUnacknowledged`, `TableStaysBounded` | `AtLeastOnce`, `StaysBounded` | - |
| | `OutboxTypeCorrect`, `OldestGoFirst` | `TypeOK`, `OldestFirst` | - |
| | `EvictionsAreCounted` | `LossIsCounted` | `MaxAcks <= 1` |
| `PhoneLinkProofs` | `SilencedStreamsGo`, `NoChangeSleptThrough` | `SilentIsOverlooked`, `ChangeEndsBackoff` | - |
| | `AddressesTriedByRank` | `TriedByRank` | - |
| | `OrderRanked` | what `order()` returns, for every list of addresses | the addresses are distinct |
| | `LocalBlocks` | what `isLocal()` answers, for every sequence of fields | - |
| `IngestProofs` | `NothingDropped` | `HandledIsKept` | - |
| | `ContractMeetsTables` | `ParsedIsTaken` | - |
| | `SampleIsTaken`, `EventIsTaken` | the CHECKs, for every accepted message | - |
| | `EachOnce`, `OutageKeepsShape` | `KeptOnce`, `AnchoredShape` | one process |
| | `ArrivalComesLast` | `ArrivalIsLastResort` | one process, no events |
| `ReadersProofs` | `TheTableArbitrates`, `OnlyCrossingsCount`, `TheScreenIsTheTable` | `RecordComesFirst`, `OnlyThresholds`, `ShownIsRecord` | - |
| | `ReportingIsReal`, `GapsAreTold`, `DownloadsAreSnapshots` | `ReportsTheDevice`, `GapsAreSilences`, `ExportIsSnapshot` | - |
| | `ChartsAreWhole` | `ChartIsWhole` | `Bucket + EndOffset + Schedule <= StartOffset + 1` |
| `IdentityProofs` | `NoGrantWithoutFactor`, `CodesWorkOnce`, `ConsumedIsWhole`, `LockoutEnds`, `EndIsFinal` | `GrantNeedsSecondFactor`, `CodeSpentOnce`, `ConsumedMeansEnrolled`, `UntilHolds`, `EndedStaysEnded` | - |
| `UpkeepProofs` | `ProvisionedMeansStored`, `BootsWholeBuilds` | `SuccessMeansStored`, `RunsOneBuild` | - |
| | `MigrationIsWhole` | `MigratedOrEmpty` | - |

*Ring.* `Durable` alone is not inductive: a push writes the slot at the head before
it moves the header, so what is needed is that this slot holds nothing promised,
which follows when each header's head is its tail plus its count
(`HeadersConsistent`), readings are in distinct slots, and whatever the ring promises
is held both by the RAM header and by the committed one. Lemmas first say what moving a
header does to the set of slots it queues (`AppendedHeader`, `AdvancedHeader`,
`KeptElsewhere`, `SkippedSlots`). What a call takes out of the promise is then confined
to the slot it overwrites or the slots it walks past, which bounds how much it may
be (`ConfinedLoss`, `WalkedSize`). For the refinement the slots are read in the order of
a header (`Ord`): walking past drops a prefix (`DropOrd`), a write changes one place at
most (`OverwriteOrd`), and a place of the image that a push overwrites is no entry
that stays queued (`ImageReplaced`), since the head slot is outside the ring once the
oldest has made room (`RoomOrd`).

*Node.* `TInv` is types, what each step of the loop leaves behind (`Phases`) and where
a reading may have been (`Known`). Five arguments go on from it:

- Nothing is forgotten too early (`AInv`). `Timely` bounds the age of an entry that the
  broker has not read, by whether a ping is out, whether its answer waits, and
  `Silence`, the time since the client last heard anything. An answer says that
  everything ahead of the ping was read (`Follows`), nothing of what went out just
  behind it; `KeepAlive` and a pass later the next ping goes out, and `KeepAlive` and a
  pass after that a dead stream is closed, and a pass later reclaimed. What is left is
  how long the first answer may be held back: up to `KeepAlive`, or the client would
  have closed. So `NothingLost` asks for `3*KeepAlive + 2*MaxPass <= Horizon`. With
  45 s and 15 s this leaves no time for a pass. `NothingLostToPromptBrokers` is the
  theorem for the node's own values: if what waits behind an unread ping is at most
  `RoundTrip + MaxPass` old (`ReadBy`), `RoundTrip + 2*KeepAlive + 4*MaxPass` is
  enough, a round trip and four passes within 15 s.
- A power cut costs at most one reading that was never sent. Outside of a push each
  reading was published or counted or is in the image, and a slot of the image holds what
  the store has there or what was sent or counted since (`Slots`, `Unsent`). In between,
  what the image may lack is the reading being handed over, and what a cut may still take
  is the oldest of a full ring, whose slot is written before the ring gives it up
  (`AtStake`); never both, since in that case the new one is in the slot (`CutCost`). It
  holds with failing flash.
- Readings are held once and in order (`HInv`): window, hand-over and store are
  disjoint, the image is the store outside a reclaim and a drain (`Committed`), and what
  was never sent waits in the order it was taken. This needs flash that does not
  fail: after a commit that failed, a slot not yet overwritten may come back beside a copy
  that was pushed again, which is the repeat that ingestion removes.
- The headroom is enough (`Spaced`): ages fall along the window, and behind the last
  replayed entry there is one entry for each period at most, so that the entry a full
  window would lose is past the horizon. On the node 32 readings of 3 s are 96 s against
  45.
- The loop uses the store as its contract allows: each of its steps is one of
  `ReadingQueue` or a stutter. `Placed` says that a reading both in the store and in its
  image is in the same slot in both, so what a push overlays is not queued
  (`HeadIsFree`).

*Outbox.* `AtLeastOnce` is strengthened by `RemovesReceived`: between the
acknowledgement and the end of `remove()` the head of the batch has been received. The
bound rests on `Drift`, how far the counter may be from the table at each step
of each thread; the count of evictions on `Counted`, the same for what was lost. That a
worker completes one removal at most inside one `add()` is what `MaxAcks <= 1` says;
`outbox_race` shows that the code does not ensure it and what follows. For the order,
what is older than a message of the batch was received already or is in the batch before
it (`OlderInBatch`, `Sorted`), and what is inserted is newer than anything before it
(`Numbered`), so neither a crash nor a row inserted meanwhile can put an older one behind.
That `LIMIT n` takes the oldest is a matter of counting: as many rows are older than a row
as its rank says, and no rank is left out (`RanksOf`).

*Link.* A change that silenced a stream is still on its way to `disconnect()`
(`QuietIsPending`), or was handled before `connectTo()` had named the stream; and one that
came while a connect failed left a permit
(`ChangeHasPermit`). `OrderRanked` first says where `order()` puts each address: the
positions a `filter{}` keeps are numbered by how many kept ones precede them
(`PlacesBefore`, `InOrderIs`); two filters of which one keeps what the other drops list
every address, those that can be reached first (`BaseLists`); and moving the one that last
worked to the front leaves the others in their order. Addresses are distinct because
`parse()` ends in `distinct()` (`Endpoints.kt:42-43`), so ranks differ and none is tried
twice (`RankedOnce`). `LocalBlocks` compares fields with the blocks they stand for by their
first 24 bits as one number (`PrefixParts`).

*Ingestion.* A row, stored or pending, carries its message's fields and is believed or
lies on a base of its boot (`Well`, `Based`); numbers of a boot and a kind are
distinct (`Unique`). `EachOnce` and the two below it are about one process, which
`infra/docker-compose.yml:91` deploys: nothing is stored between its lookup and its
insert (`Alone`), and until it restarts each anchored row lies on its anchor
(`Aligned`). The hypothesis `OnlyReloaded`, no events, is where the code reloads less
than its documents say (section 7).

*Contract.* A range is written in `SCHEMA` and again in a CHECK. Field by field they
agree (`Agrees`, one lemma per group, `SchemaAgrees`): what the one accepts, the other
holds, whatever the value. The columns of a location come from the group `loc` alone
(`OnlyLoc`), whose required fields are the ones the table wants together, so an accepted
sample has all of them or none. Bounds past a thousand have names, since a prover
lists an interval that is written out.

*Alerts.* `RecordComesFirst` counts: what was announced, with what is about to be, is
at most what was recorded (`Balanced`, `OneOpen`). `ShownIsRecord` follows each alert
along the messages: the last one on its way, or else what is retained, says what the
table says (`Carried`), and the phone shows what the last one it was sent says
(`Reaches`). Its premises, one process that has neither crashed nor lost its
connection, are part of `ShownIsRecord` itself.

*Identity.* What a handler has read lives in its `job`, so each invariant needs what the
jobs in flight still know (`FactorFirst`, `SpentIsUsed`, `LinkKnown`, `CodesInOrder`,
`UntilOutlasts`).

*Upkeep.* A late reply may be taken for the next command's, but past the first slot tool
and node are in step (`InStep`), so the `OK` that ends a slot is preceded by the store
it stands for (`OKIsStored`, `SoFarStored`). The tool's slots are the keys of a `dict`
(`provision.py`), hence distinct, none of them the name for no slot. For updates
`OneDigest`: a manifest, and what is downloaded for it, carries the digest of one whole
build.

*Migration.* Until the header is committed the ring on the flash is empty whatever its
slots hold (`Sound`), so that a cut leaves it empty or whole. The copy walks the old ring
from its tail: at each step the first `copied` slots hold the old entries in their order
(`Copied`), the block being filled the next ones (`Copying`), and each slot its own
reading or zeroes (`InPlace`).

*Read side.* Rows are told apart by when they were taken (`RowsDated`), so that `ORDER BY
time` leaves no tie (`InOrder`) and `LIMIT n` keeps what is before anything it leaves out
(`EarliestFirst`); hence downloads (`SentFirst`) and charts of rows. Two of the gaps do not
overlap (`LongApart`) and any silence of the day lies in an edge (`SilenceIsLong`); a count
of the later ones numbers them without a hole, so that as many are told as may be
(`FirstOfSet`). A chart over buckets misses a row either behind its last bucket
(`BucketedIsWhole`) or because it is not materialised yet (`HiddenIsRecent`): the watermark
stands at the end of a bucket, and the refresh that follows a reading in reach recomputes
its bucket or comes before that one's end (`Recomputed`). This is where no bucket may
leave the window between two refreshes, `RefreshReaches`; the server's policy asks for a
minute, a minute and a minute within three hours (`002_aggregates.sql:57-60`).

Left to TLC is what rests on fairness, which these backends do not reach:
`EventuallyDelivered`, `EventuallyReceived`, `EventuallySent`, `EventuallyShown`,
`LiveShowsLatest`, `EndsUpCurrent`. Every other property of a passing run is a theorem
here, some of them under the hypotheses named.

## 6. What is not modelled

The sensor driver, the node's panel, the phone's screen and what the dashboard does
besides keeping its newest reading have no state that outlives a call. Floating-point
statistics (`Noise.kt`, `weather.py`, `psychrometrics.py`) are out of TLC's reach except
for their state machines. Of the read side the statistics, the phone's tiles and the
weather page are left out, and the aggregates of ten minutes and an hour, which follow
the rule of the first. Simulator and deployment scripts are run by hand; the bearer
token of scripts and `disabled_at`, which nothing sets, are left out of `Identity`.
Within the modelled parts, these are left out: TLS and reconnection inside Paho, the
certificate and clock gates of `netlink.cpp` (a refusal to connect), a line of the cable
changed at equal length (the cable of `Provisioning` loses characters, lines and
replies, and delays replies), the boot announcement and the topic list of ingestion, the
trend and quality flags of the node.

## 7. Where the code and its documents disagree

Shown by a run:

- `outbox_race`. `Outbox.kt:63` reads the counter a second time after
  `incrementAndGet()`. Two removals in between make the excess negative; SQLite
  reads `LIMIT -1` as no limit, and the eviction deletes the whole table.

Met while modelling, each the counterexample of a formula at the end of its
module or of a change of bounds:

- `store.cpp:206`: a push whose header commit fails returns false with its record
  queued; `psychron_node.ino:109` counts it as "neither sent nor stored"
  (`RefusedIsNotStored`).
- `store.cpp:150`: a cut between removing the old file and committing the migrated
  header loses the backlog that `store.cpp:31-33` says is carried across
  (`BacklogCarried`).
- `store.cpp:193-206`: "an outage costs latency rather than data"
  (`psychron_node.ino:5-6`), and a power cut inside a push costs a reading. The one in hand
  is in RAM until its slot is written and in no header until that is committed; and over a
  full ring the slot it is written to is that of the oldest reading, which a cut before
  the commit loses, though it may never have been sent: uncounted when the cut strikes
  behind the write of the slot (`CutCostsOne` with 0 for `cuts`). The new reading is then in
  the oldest one's place and is sent first, against `psychron_node.ino:81-82`
  (`FirstSentInOrder` without `misplaced`).
- `store.cpp:198-199`: of what a full ring evicts "the count is published so the loss shows
  up in the data". `evicted` is in RAM and published in the boot announcement alone
  (`psychron_node.ino:132-138`, 184-188), once, when the link first comes up: evictions
  after that are never published, and a restart forgets the count. `lostReadings` goes to
  the serial port only. `counted` in `NodeDelivery` means counted in RAM.
- `config.h:72`: the horizon is three keepalives, and a pass has no share in it. An
  entry sent just behind a ping whose answer is held back, by WiFi that fails and returns
  between two passes, is told nothing by that answer, and may be forgotten a pass before
  the stream is found dead (`Accounted` with `KeepAlive = 2`, `Horizon = 7`).
- `inflight.h:54`: after a pass longer than the margin of the horizon (an update
  check has no total timeout, `ota.cpp:104-124`) entries are forgotten that a dead
  stream lost, which `inflight.h:29-37` excludes (`Accounted` with `MaxPass = 3`).
- `Outbox.kt:57`: an insert that fails returns -1 and is taken for stored;
  `MqttLink.kt:72` says "Written to disk now" (`WrittenOrCounted`).
- `NodeService.kt:149`: a stop closes the outbox under the sampling thread's
  `add()`, which throws; the guard at 155 covers only the next call (`StopsCleanly`).
- `MqttLink.kt:217-226`: the callback of a change looks at `client` and `endpoint`, which
  `connectTo()` sets after the handshake and the subscription. A change that comes between
  leaves a silent stream, which the worker then installs; nothing closes it until a publish
  on it fails, `timeToWait` (15 s) later, and `NetworkWatch.kt:16-19` says "about a second"
  (`NoQuietStream`: the handshake ends, the default network changes, `disconnect` finds no
  client, `client = c`).
- `MqttLink.kt:227`: a connect that ends after a network change installs
  `lastWorked` of the old network, against `Endpoints.kt:10-11` (`WorkedHere`).
- `MqttLink.kt:76`: a new window releases the semaphore the backoff waits on, so
  not only "a network change ends the wait" (`MqttLink.kt:132`,
  `OnlyChangesEndBackoff`).
- `postgres.py:51`: two ingestion processes store a message twice, at two arrival
  times; `docs/CONTRACT.md:59-63` makes the identity unique (`OneRowPerIdentity`
  with two processes).
- `postgres.py:157`: the anchor reloaded is that of the earliest row, not of the
  first message, so a boot whose clock stepped has two (`AnchoredOnce`,
  `README.md:202`).
- `001_init.sql:37`: a value outside the table's range ends ingestion and is kept
  nowhere, while `docs/CONTRACT.md:89` keeps implausible readings.
- `adapters/mqtt.py:31`: a clean session under a random identifier loses what is
  acknowledged while ingestion is down, against `README.md:414`.
- `alerting.py:47`: a crash between the row and its announcement leaves the
  retained message wrong, against `alerting.py:45`; so may two processes, whose
  messages nothing orders (`ShownIsRecord` without `Undisturbed`).
- `alerts_pg.py:19`: the connection is opened once; "retrying next pass"
  (`cli.py:154`) fails for ever after it is lost (`EventuallyShownAnyway`).
- `postgres.py:140-157`: `known_boot_anchors()` reads readings and samples, not events,
  though an event anchors a boot too (`ports.py:39-43` promises a reload). After a
  restart a message of a boot anchored by an event alone lands on its arrival time
  (`ArrivalIsLastResort` with `Kinds = {"event", "sample"}`).
- `samples.py:202`, `telemetry.py:82`: an integer too large for a float leaves the
  parser as `OverflowError`, not `InvalidMessage`, and ends ingestion with the message
  in no table, against `docs/CONTRACT.md:112-114` (the fate "throws" of `Contract`).
- `identity_pg.py:239-262`: a link is looked at before it is consumed and its mark is
  unconditional, so two requests that bring it together both enrol and one of the two
  authenticators shown is not the account's: "an invitation link that is actually single
  use" (`identity_pg.py:5-6`, `LinkIsSingleUse`).
- `identity_pg.py:245`: an enrolment adds codes and removes none, so the codes of the
  enrolment before work after a reissue, which `admin.py:94` says replaces them
  (`ReissueReplacesCodes`). Sessions opened with the old password between
  `admin.py:70` and the new enrolment stay open.
- `identity_pg.py:254`: two first enrolments both count no account and both become the
  owner (`OneOwner`, `005_identity.sql:43-44`). The count asks the pool for a second
  connection while the enrolment holds one.
- `routes_auth.py:131`: `_finish` answers that the sign-in succeeded when
  `promote_session()` found nothing to promote (`DoneGrants`).
- `002_aggregates.sql:55-56`: a refresh reaches back three hours "including replays from
  the offline buffer"; the node's ring of 5000 readings holds over four, so the oldest
  of a long outage are stored and missing from every chart of hours to days, for good
  (`ReplaysAreCharted`).
- `queries.py:405-411`: a day without one reading has no gap in it, though "a node that
  is down" is what the edges were added for (`SilentDayIsTold`).
- `app.py:411-429`: `live()` expects the end of its socket from the browser alone. A poll
  that finds no pooled connection in 30 s (`queries.py:55`, psycopg's default), or whose
  statement fails, raises out of it and the socket ends; `App.tsx:118-139` has no
  `onclose`, opens no other while the page is signed in, and goes on saying "live"
  (`RoomPanel.tsx:111`). The panel is then a minute behind or more, instead of a second
  (`SocketKeepsUp`). And an answer of `load()` that was read before a message of the socket
  and arrives after it puts the older reading back (`App.tsx:84-87`), until the next one.
- `certstore.cpp:66-79`: `store()` and `erase()` free buffers the broker's TLS client
  was given once (`netlink.cpp:80-87`) and keeps: "Held for the life of the process"
  (`certstore.cpp:11-12`, `NeverFreed`). And `provision.py:154` says the node will
  connect with what was sent; it does after a restart.
- `release.py:39`: an image released as another version than it was built with is
  installed, found to be "another version", and installed again at every poll; the
  comment at 23 has only the default in mind (`EndsUpAsPublished`).

## 8. Plan

Done: the delivery path from sensor to row, alerts, identity, the read side, and the
node's upkeep. What is left, in this order:

1. *Algorithms.* Clock offset (`Sntp.kt`), the vibration detector, payload limits.
2. *Composition.* Node and phone into ingestion over one broker: a taken reading is one
   row or a counted loss, as an abstract specification both ends refine.
