-------------------------------- MODULE Alerts --------------------------------
(***************************************************************************)
(* Alerts: from the record to the phone's screen (backend alerting.py,     *)
(* domain/alerts.py, adapters alerts_pg.py and mqtt.py publish(), the      *)
(* alert loop of cli.py, the table alert and its partial unique index, and *)
(* the app's AlertNotifier.kt).                                            *)
(*                                                                         *)
(* A pass of the loop is as many steps as it has statements: observe(),    *)
(* open_alerts(), then apply() and publish() for each transition.  Another *)
(* process, a failed statement, a lost connection or a crash may come      *)
(* between any two.  What a rule watches is one of four levels: unknown,   *)
(* beyond the clearing threshold, between the two, beyond the raising one. *)
(* Times are left out: the CHECK that an episode clears after it is raised *)
(* refuses only when the host's clock steps back, a statement that fails.  *)
(* Broker and phone radio are external.  Paho sends in order; a message    *)
(* sent again is the same retained message.                                *)
(***************************************************************************)
EXTENDS Integers, Sequences, FiniteSets

CONSTANTS
  Process,     \* ingestion processes, each with its alert loop
  Rules,       \* the rules, in order: a sequence of (kind, device)
  MaxChanges,  \* bound of the model: changes of a level
  MaxFails,    \* bound of the model: statements that fail
  MaxDrops,    \* bound of the model: database connections lost
  MaxCrashes,  \* bound of the model: crashes
  MaxAway      \* bound of the model: times the phone disconnects

ASSUME RulesAssumption == Rules \in Seq(STRING)
ASSUME AlertsBoundsAssumption ==
  /\ MaxChanges \in Nat /\ MaxFails \in Nat /\ MaxDrops \in Nat
  /\ MaxCrashes \in Nat /\ MaxAway \in Nat

Alert == { Rules[i] : i \in DOMAIN Rules }
Level == {"unknown", "clears", "between", "raises"}
State == {"raised", "cleared"}
Transition == [alert : Alert, state : State]
Todo == UNION { [places -> State] : places \in SUBSET DOMAIN Rules }

VARIABLES
  level,     \* what the record says of each rule's value
  opened,    \* the table: episodes raised, per alert
  closed,    \* and episodes cleared
  pc,        \* where each process is in its pass
  seen,      \* the Observation of the pass
  todo,      \* its transitions still to apply: the new state, by the place of the rule
  linked,    \* processes whose database connection is alive
  ran,       \* history: processes that were ever started
  outbox,    \* messages in each process's Paho queue
  retained,  \* what the broker retains per topic
  phoneUp,   \* whether the phone is subscribed
  inbox,     \* messages on their way to it
  shown,     \* its notifications
  announced, \* history: messages handed to Paho, per alert and state
  bounds     \* counters of the model's bounds

table == <<opened, closed>>
pass == <<pc, seen, todo, linked, ran>>
phone == <<phoneUp, inbox, shown>>
vars == <<level, table, pass, outbox, retained, phone, announced, bounds>>

Pending(p) == DOMAIN todo[p] # {}

TypeOK ==
  /\ level \in [Alert -> Level]
  /\ opened \in [Alert -> Nat] /\ closed \in [Alert -> Nat]
  /\ \A k \in Alert : closed[k] <= opened[k]
  /\ pc \in [Process -> {"idle", "observed", "applying", "announcing", "down"}]
  /\ seen \in [Process -> [Alert -> Level]]
  /\ todo \in [Process -> Todo] /\ outbox \in [Process -> Seq(Transition)]
  /\ \A p \in Process : pc[p] = "announcing" => Pending(p)
  /\ linked \subseteq Process /\ ran \subseteq Process
  /\ retained \in [Alert -> State \cup {"none"}]
  /\ phoneUp \in BOOLEAN /\ inbox \in Seq(Transition) /\ shown \subseteq Alert
  /\ announced \in [Alert -> [State -> Nat]]
  /\ bounds \in [changes : 0 .. MaxChanges, fails : 0 .. MaxFails, drops : 0 .. MaxDrops,
                 crashes : 0 .. MaxCrashes, away : 0 .. MaxAway]

Unseen == [k \in Alert |-> "unknown"]

Init ==
  /\ level = Unseen
  /\ opened = [k \in Alert |-> 0] /\ closed = [k \in Alert |-> 0]
  /\ pc = [p \in Process |-> "down"] /\ seen = [p \in Process |-> Unseen]
  /\ todo = [p \in Process |-> <<>>] /\ linked = {} /\ ran = {}
  /\ outbox = [p \in Process |-> <<>>]
  /\ retained = [k \in Alert |-> "none"]
  /\ phoneUp = FALSE /\ inbox = <<>> /\ shown = {}
  /\ announced = [k \in Alert |-> [s \in State |-> 0]]
  /\ bounds = [changes |-> 0, fails |-> 0, drops |-> 0, crashes |-> 0, away |-> 0]

Open == { k \in Alert : opened[k] > closed[k] }

-----------------------------------------------------------------------------
(* The record.                                                             *)

Change(k) ==
  /\ bounds.changes < MaxChanges
  /\ level' \in { [level EXCEPT ![k] = v] : v \in Level \ {level[k]} }
  /\ bounds' = [bounds EXCEPT !.changes = @ + 1]
  /\ UNCHANGED <<table, pass, outbox, retained, phone, announced>>

-----------------------------------------------------------------------------
(* A pass: Alerter.tick() in the thread "alerts".                          *)

Queries(p, from) == pc[p] = from /\ p \in linked

Observe(p) ==
  /\ Queries(p, "idle")
  /\ pc' = [pc EXCEPT ![p] = "observed"]
  /\ seen' = [seen EXCEPT ![p] = level]
  /\ UNCHANGED <<level, table, todo, linked, ran, outbox, retained, phone, announced, bounds>>

\* Mutant of Verdict: an unknown value counts as recovered.
VerdictUnknownClears(o, open, k) ==
  IF k \notin open /\ o[k] = "raises" THEN "raised"
  ELSE IF k \in open /\ o[k] \in {"clears", "unknown"} THEN "cleared" ELSE "none"

\* The transition of one rule, if any.
Verdict(o, open, k) ==
  IF k \notin open /\ o[k] = "raises" THEN "raised"
  ELSE IF k \in open /\ o[k] = "clears" THEN "cleared" ELSE "none"

\* evaluate(): the rules whose alert changes state.
Evaluated(o, open) ==
  [i \in { i \in DOMAIN Rules : Verdict(o, open, Rules[i]) # "none" } |->
     Verdict(o, open, Rules[i])]

\* They are applied in the order of the rules.
First(p) == CHOOSE i \in DOMAIN todo[p] : \A j \in DOMAIN todo[p] : i <= j
Due(p)   == [alert |-> Rules[First(p)], state |-> todo[p][First(p)]]
Rest(p)  == [i \in DOMAIN todo[p] \ {First(p)} |-> todo[p][i]]

Decide(p) ==
  /\ Queries(p, "observed")
  /\ todo' = [todo EXCEPT ![p] = Evaluated(seen[p], Open)]
  /\ pc' = [pc EXCEPT ![p] = "applying"]
  /\ UNCHANGED <<level, table, seen, linked, ran, outbox, retained, phone, announced, bounds>>

\* Mutant of Changes: the index is missing.
ChangesUnarbited(t) == (t.state = "raised") \/ (t.alert \in Open)

\* Whether the statement changes a row: the partial unique index lets one
\* episode be open, and the update looks for one.
Changes(t) == (t.state = "raised") = (t.alert \notin Open)

Stored(t) ==
  IF t.state = "raised"
  THEN opened' = [opened EXCEPT ![t.alert] = @ + 1] /\ UNCHANGED closed
  ELSE closed' = [closed EXCEPT ![t.alert] = @ + 1] /\ UNCHANGED opened

\* apply(), and the rowcount it returns.
Apply(p) ==
  /\ Queries(p, "applying") /\ Pending(p)
  /\ IF Changes(Due(p))
     THEN /\ Stored(Due(p))
          /\ pc' = [pc EXCEPT ![p] = "announcing"]
          /\ UNCHANGED todo
     ELSE todo' = [todo EXCEPT ![p] = Rest(p)] /\ UNCHANGED <<table, pc>>
  /\ UNCHANGED <<level, seen, linked, ran, outbox, retained, phone, announced, bounds>>

\* publish(): into Paho's queue, connected or not.
Publish(p) ==
  /\ pc[p] = "announcing"
  /\ outbox' = [outbox EXCEPT ![p] = Append(@, Due(p))]
  /\ announced' = [announced EXCEPT ![Due(p).alert][Due(p).state] = @ + 1]
  /\ todo' = [todo EXCEPT ![p] = Rest(p)]
  /\ pc' = [pc EXCEPT ![p] = "applying"]
  /\ UNCHANGED <<level, table, seen, linked, ran, retained, phone, bounds>>

EndsPass(p) ==
  /\ pc' = [pc EXCEPT ![p] = "idle"]
  /\ todo' = [todo EXCEPT ![p] = <<>>]

PassDone(p) ==
  /\ pc[p] = "applying" /\ ~ Pending(p)
  /\ EndsPass(p)
  /\ UNCHANGED <<level, table, seen, linked, ran, outbox, retained, phone, announced, bounds>>

InStatement(p) ==
  pc[p] \in {"idle", "observed"} \/ (pc[p] = "applying" /\ Pending(p))

\* A statement refused: the exception ends the pass, not the loop.
Fails(p) ==
  /\ p \in linked /\ InStatement(p) /\ bounds.fails < MaxFails
  /\ bounds' = [bounds EXCEPT !.fails = @ + 1]
  /\ EndsPass(p)
  /\ UNCHANGED <<level, table, seen, linked, ran, outbox, retained, phone, announced>>

\* The connection is lost under a statement, which the server may have run.
\* Nothing opens it again: every later pass ends at its first statement.
Drop(p) ==
  /\ p \in linked /\ InStatement(p) /\ bounds.drops < MaxDrops
  /\ bounds' = [bounds EXCEPT !.drops = @ + 1]
  /\ linked' = linked \ {p}
  /\ \/ UNCHANGED table
     \/ /\ pc[p] = "applying" /\ Changes(Due(p)) /\ Stored(Due(p))
  /\ EndsPass(p)
  /\ UNCHANGED <<level, seen, ran, outbox, retained, phone, announced>>

\* The process ends, with the thread, the rest of the pass and Paho's queue.
Crash(p) ==
  /\ pc[p] # "down" /\ bounds.crashes < MaxCrashes
  /\ bounds' = [bounds EXCEPT !.crashes = @ + 1]
  /\ pc' = [pc EXCEPT ![p] = "down"]
  /\ todo' = [todo EXCEPT ![p] = <<>>]
  /\ outbox' = [outbox EXCEPT ![p] = <<>>]
  /\ UNCHANGED <<level, table, seen, linked, ran, retained, phone, announced>>

\* cmd_run(): a connection of its own, and the thread.
Start(p) ==
  /\ pc[p] = "down"
  /\ pc' = [pc EXCEPT ![p] = "idle"]
  /\ linked' = linked \cup {p} /\ ran' = ran \cup {p}
  /\ UNCHANGED <<level, table, seen, todo, outbox, retained, phone, announced, bounds>>

-----------------------------------------------------------------------------
(* The broker and the phone.                                               *)

\* Mutant of Retains: published without the retain flag.
RetainsNothing(t) == retained

Retains(t) == [retained EXCEPT ![t.alert] = t.state]

Transmit(p) ==
  /\ outbox[p] # <<>>
  /\ outbox' = [outbox EXCEPT ![p] = Tail(@)]
  /\ retained' = Retains(Head(outbox[p]))
  /\ inbox' = IF phoneUp THEN Append(inbox, Head(outbox[p])) ELSE inbox
  /\ UNCHANGED <<level, table, pass, phoneUp, shown, announced, bounds>>

Kept == { k \in Alert : retained[k] # "none" }

Orders(S) == { s \in [1 .. Cardinality(S) -> S] : \A k \in S : \E i \in DOMAIN s : s[i] = k }

\* Subscribed: what is retained arrives, topic by topic, in the broker's order.
PhoneConnects ==
  /\ ~ phoneUp
  /\ phoneUp' = TRUE
  /\ \E topics \in Orders(Kept) :
       inbox' = [i \in DOMAIN topics |-> [alert |-> topics[i], state |-> retained[topics[i]]]]
  /\ UNCHANGED <<level, table, pass, outbox, retained, shown, announced, bounds>>

PhoneLeaves ==
  /\ phoneUp /\ bounds.away < MaxAway
  /\ bounds' = [bounds EXCEPT !.away = @ + 1]
  /\ phoneUp' = FALSE /\ inbox' = <<>>
  /\ UNCHANGED <<level, table, pass, outbox, retained, shown, announced>>

\* Mutant of Notified: a cleared alert is left on the screen.
NotifiedOnly(t) == IF t.state = "raised" THEN shown \cup {t.alert} ELSE shown

\* AlertNotifier.handle()
Notified(t) ==
  IF t.state = "raised" THEN shown \cup {t.alert} ELSE shown \ {t.alert}

PhoneHears ==
  /\ inbox # <<>>
  /\ shown' = Notified(Head(inbox))
  /\ inbox' = Tail(inbox)
  /\ UNCHANGED <<level, table, pass, outbox, retained, phoneUp, announced, bounds>>

-----------------------------------------------------------------------------

Runs(p) == Observe(p) \/ Decide(p) \/ Apply(p) \/ Publish(p) \/ PassDone(p)

Next ==
  \/ \E k \in Alert : Change(k)
  \/ \E p \in Process :
       Runs(p) \/ Fails(p) \/ Drop(p) \/ Crash(p) \/ Start(p) \/ Transmit(p)
  \/ PhoneConnects \/ PhoneLeaves \/ PhoneHears

Spec == Init /\ [][Next]_vars

\* The loop runs every 30 s, Paho's thread sends, the phone reconnects and reads.
Fairness ==
  /\ \A p \in Process : WF_vars(Runs(p)) /\ WF_vars(Transmit(p))
  /\ WF_vars(PhoneConnects) /\ WF_vars(PhoneHears)

FairSpec == Spec /\ Fairness

-----------------------------------------------------------------------------
(* Properties.                                                             *)

\* However processes race, an alert has at most one open episode
\* (008_phone_revision.sql:72-74, alerts_pg.py:74-75).
OneOpen == \A k \in Alert : opened[k] - closed[k] \in {0, 1}

\* Recorded first and announced second: no message describes a transition the
\* table does not hold (alerting.py:41-43).
AnnouncedIsStored ==
  \A k \in Alert : /\ announced[k]["raised"] <= opened[k]
                   /\ announced[k]["cleared"] <= closed[k]

\* The table arbitrates: one episode at a time, announced once it is stored.
RecordComesFirst == OneOpen /\ AnnouncedIsStored

\* One process, which was never cut off from its table nor ended.
Undisturbed == Cardinality(ran) = 1 /\ bounds.crashes = 0 /\ bounds.drops = 0

Settled ==
  /\ \A p \in Process : pc[p] # "announcing" /\ outbox[p] = <<>>
  /\ phoneUp /\ inbox = <<>>

\* With nothing on its way, a subscribed phone shows the open alerts and no
\* other: retained messages bring one that was away up to date, and a cleared
\* alert leaves the screen (alerting.py:45-46, AlertNotifier.kt:11-17).
ShownIsRecord == Undisturbed /\ Settled => shown = Open

\* An unknown value, or one between the thresholds, neither opens nor closes an
\* episode: between two passes that changed an alert the value crossed both
\* (domain/alerts.py:83-87 and 1-7).
OnlyThresholds ==
  [][ \A k \in Alert :
        /\ opened'[k] # opened[k] => \E p \in Process : seen[p][k] = "raises"
        /\ closed'[k] # closed[k] => \E p \in Process : seen[p][k] = "clears" ]_vars

\* A value that stays beyond the raising level ends up on the screen, and one that
\* stays recovered off it, whatever statements failed (cli.py:148-156).
EventuallyShown ==
  \A k \in Alert :
    /\ <>[](Undisturbed /\ level[k] = "raises") => <>[](k \in shown)
    /\ <>[](Undisturbed /\ level[k] = "clears") => <>[](k \notin shown)

-----------------------------------------------------------------------------
(* Expected by the sources and not so: no run checks this, the README says  *)
(* what a run that did would show.                                          *)

\* "alert evaluation failed; retrying next pass" (cli.py:154): with one process,
\* whatever happens to its connection.
EventuallyShownAnyway ==
  \A k \in Alert :
    <>[](Cardinality(ran) = 1 /\ bounds.crashes = 0 /\ level[k] = "raises")
      => <>[](k \in shown)
=============================================================================
