------------------------------- MODULE PhoneLink -------------------------------
(***************************************************************************)
(* The phone's link to the broker (android MqttLink.kt) and what it does   *)
(* when the phone changes network (NetworkWatch.kt).                       *)
(*                                                                         *)
(* Two threads share client, endpoint, lastWorked and the semaphore wake:  *)
(* the worker runs loop(), the watch's thread runs onNetworkChange().  One *)
(* step is one access to one of them.  The network itself changes first,   *)
(* silently, and the callback that tells the watch comes later.            *)
(*                                                                         *)
(* What the outbox does with a message is Outbox's subject: here a message *)
(* is one of a count, and a publish succeeds when its stream is alive.     *)
(* Android, TCP, TLS, Paho and the broker are external.                    *)
(***************************************************************************)
EXTENDS Integers, Sequences, Endpoints

CONSTANTS
  Hosts,       \* config.hosts
  LocalHosts,  \* those for which isLocal()
  MaxMessages, \* bound of the model: messages offered
  MaxChanges,  \* bound of the model: changes of the network
  BatchLimit   \* BATCH_LIMIT

ASSUME HostsAssumption ==
  /\ Hosts \in Seq(STRING) /\ NoHost \notin { Hosts[i] : i \in DOMAIN Hosts }
  /\ \A i, k \in DOMAIN Hosts : Hosts[i] = Hosts[k] => i = k  \* parse() ends in distinct()
  /\ LocalHosts \subseteq { Hosts[i] : i \in DOMAIN Hosts }
ASSUME LinkBoundsAssumption ==
  MaxMessages \in Nat /\ MaxChanges \in Nat /\ BatchLimit \in Nat \ {0}

Host == { Hosts[i] : i \in DOMAIN Hosts }

NoStream == [host |-> NoHost, alive |-> FALSE, open |-> FALSE]

VARIABLES
  \* the network
  default,    \* the default network: 0 for none, else its number
  lan,        \* a local network is attached
  changes,    \* changes so far
  \* the watch and its thread
  seenDefault, seenLan, \* defaultNetwork, local.isNotEmpty()
  metered,    \* network.metered
  change,     \* the change onNetworkChange() is handling, or "none"
  wpc,        \* its next step: "idle", "clear", "judge", "abandon", "release"
  abandon,    \* its local
  \* the worker
  pc,         \* the next step of loop()
  order,      \* hosts connect() has still to try
  batch,      \* messages of the batch still to send
  backoff,    \* backoffMs, in seconds
  \* shared
  stream,     \* the connection: its host, whether it carries bytes, isConnected
  client,     \* client # null
  endpoint, lastWorked,
  permits,    \* of wake
  queued,     \* messages in the outbox
  aged,       \* the oldest is older than BATCH_MS
  offered,    \* messages offered so far
  \* history
  unseen,     \* a change was released that no step of the worker followed up
  quiet,      \* a change of the network silenced the stream
  overlooked, \* the watch handled it while connectTo() had not named the stream
  workedOn    \* the networks lastWorked connected on

network == <<default, lan, changes>>
watch   == <<seenDefault, seenLan, metered, change, wpc, abandon>>
box     == <<queued, aged, offered>>
loopvars == <<pc, order, batch, backoff>>
hush == <<quiet, overlooked>>
vars == <<network, watch, loopvars, stream, client, endpoint, lastWorked, permits,
          box, unseen, hush, workedOn>>

TypeOK ==
  /\ default \in 0 .. MaxChanges + 1 /\ seenDefault \in 0 .. MaxChanges + 1
  /\ lan \in BOOLEAN /\ seenLan \in BOOLEAN /\ metered \in BOOLEAN
  /\ changes \in 0 .. MaxChanges
  /\ change \in {"none", "SWITCHED", "AVAILABLE", "LOCAL_LOST", "LOCAL_GAINED"}
  /\ wpc \in {"idle", "clear", "judge", "abandon", "release"}
  /\ abandon \in BOOLEAN
  /\ pc \in {"top", "drain", "order", "connect", "opened", "endpoint", "worked",
             "check", "wait", "send", "failed", "backoff"}
  /\ order \in Seq(Host) /\ batch \in 0 .. BatchLimit
  /\ backoff \in {1, 2, 4, 8, 10}
  /\ stream \in [host : Host \cup {NoHost}, alive : BOOLEAN, open : BOOLEAN]
  /\ client \in BOOLEAN
  /\ endpoint \in Host \cup {NoHost} /\ lastWorked \in Host \cup {NoHost}
  /\ permits \in 0 .. (MaxMessages + MaxChanges)
  /\ queued \in 0 .. MaxMessages /\ offered \in 0 .. MaxMessages
  /\ aged \in BOOLEAN /\ unseen \in BOOLEAN /\ quiet \in BOOLEAN /\ overlooked \in BOOLEAN
  /\ workedOn \in [default : 0 .. MaxChanges + 1, lan : BOOLEAN]

Init ==
  /\ default \in {0, 1} /\ lan \in BOOLEAN /\ changes = 0
  /\ seenDefault = default /\ seenLan = lan /\ metered \in BOOLEAN
  /\ change = "none" /\ wpc = "idle" /\ abandon = FALSE
  /\ pc = "top" /\ order = <<>> /\ batch = 0 /\ backoff = 1
  /\ stream = NoStream /\ client = FALSE
  /\ endpoint = NoHost /\ lastWorked = NoHost
  /\ permits = 0 /\ queued = 0 /\ aged = FALSE /\ offered = 0
  /\ unseen = FALSE /\ quiet = FALSE /\ overlooked = FALSE
  /\ workedOn = [default |-> default, lan |-> lan]

-----------------------------------------------------------------------------
(* The network changes under the phone.                                    *)

\* A stream belongs to the default network it was opened on; one to a LAN
\* address also to the LAN.  A VPN keeps its number while the LAN comes and goes.
Silent(open) == [host |-> stream.host, alive |-> FALSE, open |-> open]

Killed ==
  /\ stream' = Silent(stream.open)
  /\ quiet' = (quiet \/ stream.alive) /\ overlooked' = overlooked

DefaultChanges(n) ==
  /\ changes < MaxChanges /\ default = seenDefault
  /\ n # default
  /\ default' = n /\ changes' = changes + 1
  /\ Killed
  /\ UNCHANGED <<lan, watch, loopvars, client, endpoint, lastWorked, permits, box,
                 unseen, workedOn>>

LanLost ==
  /\ changes < MaxChanges /\ lan /\ lan = seenLan
  /\ lan' = FALSE /\ changes' = changes + 1
  /\ IF stream.host \in LocalHosts THEN Killed ELSE UNCHANGED <<stream, hush>>
  /\ UNCHANGED <<default, watch, loopvars, client, endpoint, lastWorked, permits,
                 box, unseen, workedOn>>

LanGained ==
  /\ changes < MaxChanges /\ ~ lan /\ lan = seenLan
  /\ lan' = TRUE /\ changes' = changes + 1
  /\ UNCHANGED <<default, watch, loopvars, stream, client, endpoint, lastWorked,
                 permits, box, unseen, hush, workedOn>>

\* A stream dies for a reason of its own; Paho may notice it.
StreamBreaks ==
  /\ changes < MaxChanges /\ stream.alive
  /\ changes' = changes + 1
  /\ \E noticed \in BOOLEAN : stream' = Silent(~ noticed)
  /\ UNCHANGED <<default, lan, watch, loopvars, client, endpoint, lastWorked,
                 permits, box, unseen, hush, workedOn>>

Environment ==
  \/ \E n \in {0, changes + 1} : DefaultChanges(n)
  \/ LanLost \/ LanGained \/ StreamBreaks

-----------------------------------------------------------------------------
(* The watch: its callbacks, and onNetworkChange() on the same thread.     *)

Emit(c) == change' = c /\ wpc' = "clear"

\* defaultCallback.onAvailable(), onLost(); the capabilities come with it.
DefaultSeen ==
  /\ wpc = "idle" /\ default # seenDefault
  /\ seenDefault' = default
  /\ Emit(IF seenDefault = 0 THEN "AVAILABLE" ELSE "SWITCHED")
  /\ metered' \in IF default = 0 THEN {metered} ELSE BOOLEAN
  /\ UNCHANGED <<network, seenLan, abandon, loopvars, stream, client, endpoint,
                 lastWorked, permits, box, unseen, hush, workedOn>>

\* localCallback.onAvailable(), onLost().
LanSeen ==
  /\ wpc = "idle" /\ lan # seenLan
  /\ seenLan' = lan
  /\ Emit(IF lan THEN "LOCAL_GAINED" ELSE "LOCAL_LOST")
  /\ UNCHANGED <<network, seenDefault, metered, abandon, loopvars, stream, client,
                 endpoint, lastWorked, permits, box, unseen, hush, workedOn>>

ClearLastWorked ==
  /\ wpc = "clear"
  /\ lastWorked' = NoHost
  /\ wpc' = "judge"
  /\ UNCHANGED <<network, seenDefault, seenLan, metered, change, abandon, loopvars,
                 stream, client, endpoint, permits, box, unseen, hush, workedOn>>

\* Mutant of Abandons: a switch leaves a stream to a remote host alone.
AbandonsLocal(c) == endpoint \in LocalHosts

Abandons(c) == c = "SWITCHED" \/ (c = "LOCAL_LOST" /\ endpoint \in LocalHosts)

\* connectTo() has a stream to the LAN, and endpoint does not say so yet.
LanStreamUnnamed ==
  change = "LOCAL_LOST" /\ pc \in {"opened", "endpoint"} /\ stream.host \in LocalHosts

Judge ==
  /\ wpc = "judge"
  /\ abandon' = Abandons(change)
  /\ wpc' = "abandon"
  /\ overlooked' = (overlooked \/ (quiet /\ LanStreamUnnamed))
  /\ UNCHANGED <<network, seenDefault, seenLan, metered, change, loopvars, stream,
                 client, endpoint, lastWorked, permits, box, unseen, quiet, workedOn>>

\* client?.let { it.disconnectForcibly() }: connectTo() may have a stream and no client yet.
Disconnect ==
  /\ wpc = "abandon"
  /\ stream' = IF abandon /\ client THEN Silent(FALSE) ELSE stream
  /\ overlooked' = (overlooked \/ (quiet /\ abandon /\ pc = "opened"))
  /\ wpc' = "release"
  /\ UNCHANGED <<network, seenDefault, seenLan, metered, change, abandon, loopvars,
                 client, endpoint, lastWorked, permits, box, unseen, quiet, workedOn>>

\* Mutant of ReleaseWake: the worker is woken only when a stream was given up.
ReleaseIfAbandoned ==
  /\ wpc = "release"
  /\ permits' = IF abandon THEN permits + 1 ELSE permits
  /\ unseen' = TRUE
  /\ wpc' = "idle" /\ change' = "none" /\ abandon' = FALSE
  /\ UNCHANGED <<network, seenDefault, seenLan, metered, loopvars, stream, client,
                 endpoint, lastWorked, box, hush, workedOn>>

ReleaseWake ==
  /\ wpc = "release"
  /\ permits' = permits + 1
  /\ unseen' = TRUE
  /\ wpc' = "idle" /\ change' = "none" /\ abandon' = FALSE
  /\ UNCHANGED <<network, seenDefault, seenLan, metered, loopvars, stream, client,
                 endpoint, lastWorked, box, hush, workedOn>>

WatchStep ==
  DefaultSeen \/ LanSeen \/ ClearLastWorked \/ Judge \/ Disconnect \/ ReleaseWake

-----------------------------------------------------------------------------
(* The sampling thread, and time.                                          *)

Offer ==
  /\ offered < MaxMessages
  /\ offered' = offered + 1 /\ queued' = queued + 1
  /\ permits' = permits + 1
  /\ UNCHANGED <<network, watch, loopvars, stream, client, endpoint, lastWorked,
                 aged, unseen, hush, workedOn>>

OldestAges ==
  /\ queued > 0 /\ ~ aged
  /\ aged' = TRUE
  /\ UNCHANGED <<network, watch, loopvars, stream, client, endpoint, lastWorked,
                 permits, queued, offered, unseen, hush, workedOn>>

-----------------------------------------------------------------------------
(* The worker: loop(), connect(), connectTo(), send().                     *)

still == <<network, watch, box>>

\* client?.takeIf { it.isConnected } ?: connect()
Top ==
  /\ pc = "top"
  /\ IF client /\ stream.open
     THEN /\ pc' = "check" /\ backoff' = 1
          /\ UNCHANGED <<client, stream, hush>>
     ELSE /\ pc' = "drain" /\ client' = FALSE
          /\ stream' = NoStream /\ quiet' = FALSE /\ overlooked' = FALSE
          /\ UNCHANGED backoff
  /\ UNCHANGED <<still, order, batch, endpoint, lastWorked, permits, unseen, workedOn>>

DrainWake ==
  /\ pc = "drain"
  /\ permits' = 0
  /\ pc' = "order"
  /\ UNCHANGED <<still, order, batch, backoff, stream, client, endpoint, lastWorked,
                 unseen, hush, workedOn>>

MakeOrder ==
  /\ pc = "order"
  /\ order' = Order(Hosts, LocalHosts, seenLan, lastWorked)
  /\ unseen' = FALSE
  /\ pc' = "connect"
  /\ UNCHANGED <<still, batch, backoff, stream, client, endpoint, lastWorked,
                 permits, hush, workedOn>>

Reachable(h) == default # 0 /\ (h \in LocalHosts => lan)

\* connectTo(): the handshake and the subscription succeed ...
ConnectOpens ==
  /\ pc = "connect" /\ order # <<>> /\ Reachable(Head(order))
  /\ stream' = [host |-> Head(order), alive |-> TRUE, open |-> TRUE]
  /\ workedOn' = [default |-> default, lan |-> lan]
  /\ pc' = "opened"
  /\ UNCHANGED <<still, order, batch, backoff, client, endpoint, lastWorked, permits,
                 unseen, hush>>

\* ... or the host is refused, and the next one is tried.
ConnectRefused ==
  /\ pc = "connect" /\ order # <<>>
  /\ order' = Tail(order)
  /\ pc' = IF order' = <<>> THEN "failed" ELSE "connect"
  /\ UNCHANGED <<still, batch, backoff, stream, client, endpoint, lastWorked, permits,
                 unseen, hush, workedOn>>

SetClient ==
  /\ pc = "opened"
  /\ client' = TRUE
  /\ pc' = "endpoint"
  /\ UNCHANGED <<still, order, batch, backoff, stream, endpoint, lastWorked, permits,
                 unseen, hush, workedOn>>

SetEndpoint ==
  /\ pc = "endpoint"
  /\ endpoint' = stream.host
  /\ pc' = "worked"
  /\ UNCHANGED <<still, order, batch, backoff, stream, client, lastWorked, permits,
                 unseen, hush, workedOn>>

SetLastWorked ==
  /\ pc = "worked"
  /\ lastWorked' = stream.host
  /\ order' = <<>> /\ backoff' = 1
  /\ pc' = "check"
  /\ UNCHANGED <<still, batch, stream, client, endpoint, permits, unseen, hush,
                 workedOn>>

Sendable == queued > 0 /\ (~ metered \/ queued >= BatchLimit \/ aged)

Check ==
  /\ pc = "check"
  /\ IF Sendable
     THEN pc' = "send" /\ batch' = IF queued < BatchLimit THEN queued ELSE BatchLimit
     ELSE pc' = "wait" /\ batch' = 0
  /\ UNCHANGED <<still, order, backoff, stream, client, endpoint, lastWorked, permits,
                 unseen, hush, workedOn>>

\* wake.tryAcquire(waitMs): a permit, or the time is over.
Wait ==
  /\ pc = "wait"
  /\ permits' = IF permits > 0 THEN permits - 1 ELSE 0
  /\ unseen' = (unseen /\ permits' > 0)
  /\ pc' = "top"
  /\ UNCHANGED <<still, order, batch, backoff, stream, client, endpoint, lastWorked,
                 hush, workedOn>>

Publish ==
  /\ pc = "send" /\ batch > 0 /\ stream.alive /\ stream.open
  /\ batch' = batch - 1 /\ queued' = queued - 1
  /\ aged' \in IF queued' = 0 THEN {FALSE} ELSE {aged, FALSE}
  /\ UNCHANGED <<network, watch, offered, pc, order, backoff, stream, client, endpoint,
                 lastWorked, permits, unseen, hush, workedOn>>

BatchSent ==
  /\ pc = "send" /\ batch = 0
  /\ pc' = "top"
  /\ UNCHANGED <<still, order, batch, backoff, stream, client, endpoint, lastWorked,
                 permits, unseen, hush, workedOn>>

\* The stream is closed, or no acknowledgement came in timeToWait.
PublishThrows ==
  /\ pc = "send" /\ batch > 0 /\ ~ (stream.alive /\ stream.open)
  /\ pc' = "failed" /\ batch' = 0
  /\ UNCHANGED <<still, order, backoff, stream, client, endpoint, lastWorked, permits,
                 unseen, hush, workedOn>>

\* Mutant of Failed: the client that failed is kept.
FailedKept ==
  /\ pc = "failed"
  /\ pc' = "backoff"
  /\ UNCHANGED <<still, order, batch, backoff, stream, client, endpoint, lastWorked,
                 permits, unseen, hush, workedOn>>

\* catch (e: Exception)
Failed ==
  /\ pc = "failed"
  /\ client' = FALSE /\ endpoint' = NoHost
  /\ stream' = NoStream /\ quiet' = FALSE /\ overlooked' = FALSE
  /\ pc' = "backoff"
  /\ UNCHANGED <<still, order, batch, backoff, lastWorked, permits, unseen, workedOn>>

\* The wait ends early, and the backoff starts over ...
Woken ==
  /\ pc = "backoff" /\ permits > 0
  /\ permits' = 0 /\ backoff' = 1 /\ unseen' = FALSE
  /\ pc' = "top"
  /\ UNCHANGED <<still, order, batch, stream, client, endpoint, lastWorked, hush,
                 workedOn>>

\* ... or not, and it doubles, up to ten seconds.
BackoffOver ==
  /\ pc = "backoff" /\ permits = 0
  /\ backoff' = IF backoff * 2 > 10 THEN 10 ELSE backoff * 2
  /\ pc' = "top"
  /\ UNCHANGED <<still, order, batch, stream, client, endpoint, lastWorked, permits,
                 unseen, hush, workedOn>>

Worker ==
  \/ Top \/ DrainWake \/ MakeOrder \/ ConnectOpens \/ ConnectRefused
  \/ SetClient \/ SetEndpoint \/ SetLastWorked \/ Check \/ Wait
  \/ Publish \/ BatchSent \/ PublishThrows \/ Failed \/ Woken \/ BackoffOver

Next == Worker \/ WatchStep \/ Offer \/ OldestAges \/ Environment

Spec == Init /\ [][Next]_vars

\* Threads run, callbacks come, time passes; a host that stays reachable accepts
\* in the end.
FairSpec ==
  /\ Spec
  /\ WF_vars(Worker) /\ WF_vars(WatchStep) /\ WF_vars(OldestAges)
  /\ SF_vars(ConnectOpens)

-----------------------------------------------------------------------------
(* Properties.                                                             *)

\* The watch has handled every change there was.
Caught == wpc = "idle" /\ seenDefault = default /\ seenLan = lan

\* The private addresses are told from the others, every provisioning of up to three
\* is tried in order of rank, and no address twice in one connect(), whatever
\* onNetworkChange() does to lastWorked meanwhile (Endpoints.kt:5-39).
TriedByRank ==
  /\ LocalIsPrivate /\ OrderRanks
  /\ \A i, k \in DOMAIN order : order[i] = order[k] => i = k

\* A stream that a change of network silenced is closed by the handling of that change,
\* wherever in its connect the change struck (NetworkWatch.kt:16-19, MqttLink.kt:88-102):
\* once the watch has caught up, a silent one is kept only if it was handled after the
\* handshake and before connectTo() named it (MqttLink.kt:217-226).
SilentIsOverlooked == Caught /\ quiet /\ client /\ stream.open => overlooked

\* A change reported while a connect was failing is not slept through: the
\* backoff finds a permit (MqttLink.kt:44-45, 168).
ChangeEndsBackoff == pc = "backoff" /\ unseen => permits > 0

\* Once a host stays reachable, whatever is queued is sent.
Calm == \E h \in Host : Reachable(h)

EventuallySent == <>[]Calm => []<>(queued = 0)

-----------------------------------------------------------------------------
(* Expected by the sources and not so: no run checks these, the README says *)
(* what a run that did would show.                                          *)

\* Told about a change, the link opens a new stream instead of keeping one that went
\* quiet (NetworkWatch.kt:16-19).
NoQuietStream == Caught => ~ (quiet /\ client /\ stream.open)

\* The address that last worked is preferred only "until the network changes"
\* (Endpoints.kt:10-11).
WorkedHere ==
  Caught /\ lastWorked # NoHost =>
    workedOn.default = default /\ (lastWorked \in LocalHosts => lan)

\* "A network change ends the wait early and starts the backoff over"
\* (MqttLink.kt:132): nothing else does.
OnlyChangesEndBackoff == [][ Woken => unseen ]_vars
=============================================================================
