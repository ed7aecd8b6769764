------------------------------- MODULE ReadSide -------------------------------
(***************************************************************************)
(* The read side (backend adapters/queries.py and api/app.py) over a table *)
(* that fills while it is read: readings arrive live or, replayed after an *)
(* outage, late and in any order; the one-minute aggregate of              *)
(* 002_aggregates.sql is recomputed behind them; a live socket polls and   *)
(* the panel that has it open asks again by itself (frontend App.tsx), and *)
(* exports hold a connection of the pool while they stream.                *)
(*                                                                         *)
(* A reading is when it was taken, the instant its row has, and when it    *)
(* arrived.  A clock that runs fast stamps ahead by one of Errors, the     *)
(* tolerance of ingestion; what a misplaced anchor does is Ingest's        *)
(* subject.  Values, the other two aggregates (the same with wider         *)
(* windows) and the phone's endpoints (the same queries on `sample`, whose *)
(* buckets are computed as they are asked for) are left out.  PostgreSQL   *)
(* and TimescaleDB are external: a query sees the rows there are, a        *)
(* server-side cursor those there were when it was declared.               *)
(***************************************************************************)
EXTENDS Integers, FiniteSets, FiniteSetsExt

CONSTANTS
  MaxTime,     \* bound of the model: the clock
  MaxRows,     \* bound of the model: readings
  MaxWatched,  \* bound of the model: readings there are while a panel is open
  Errors,      \* what the node's clock may be ahead by, at any reading
  Fresh,       \* a device whose newest row is younger than this reports
  GapLimit,    \* a silence longer than this is a gap
  Day,         \* how far back gaps are looked for
  MaxGaps,     \* gaps listed
  RawSpan,     \* the longest span answered from the rows themselves
  MaxPoints,   \* MAX_POINTS
  Bucket,      \* width of a bucket of the aggregate
  StartOffset, \* how far back a refresh reaches
  EndOffset,   \* how far behind the clock it stays
  Schedule,    \* how often it runs
  Exports,     \* downloads
  Pool,        \* connections of the pool
  Itersize     \* rows an export fetches at a time

ASSUME ReadSideBoundsAssumption == {MaxTime, MaxRows, MaxWatched} \subseteq Nat
ASSUME ReadSideTimesAssumption ==
  /\ {Fresh, GapLimit, Day, RawSpan, Bucket, Schedule} \subseteq Nat \ {0}
  /\ {StartOffset, EndOffset} \subseteq Nat /\ EndOffset < StartOffset
  /\ Errors \subseteq Nat /\ 0 \in Errors /\ IsFiniteSet(Errors)
ASSUME ReadSideLimitsAssumption ==
  {MaxGaps, MaxPoints, Pool, Itersize} \subseteq Nat \ {0}

Time     == 0 .. MaxTime
Instant  == { t + e : t \in Time, e \in Errors }
Tolerance == Max(Errors)

VARIABLES
  now,       \* the clock of the server
  rows,      \* reading
  mat,       \* the rows the materialised buckets were computed from
  watermark, \* buckets before it are read from there
  refreshed, \* when the refresh last ran
  exports,   \* each export's state, its snapshot and what it has sent
  socket,    \* the live socket: "none" while no panel is, "open" or "ended"
  lastSeen,  \* its last_seen
  reply,     \* the instant in an answer to load() that the panel has not shown yet
  showing    \* the instant of the reading the panel shows

panel == <<socket, lastSeen, reply, showing>>
rvars == <<now, rows, mat, watermark, refreshed, exports, panel>>

Row   == [at : Time, time : Instant, arrived : Time]
Never == -1

RTypeOK ==
  /\ now \in Time
  /\ rows \subseteq Row /\ mat \subseteq rows
  /\ watermark \in Nat /\ refreshed \in Time
  /\ socket \in {"none", "open", "ended"}
  /\ {lastSeen, reply, showing} \subseteq Instant \cup {Never}
  /\ \A e \in Exports :
       exports[e].phase \in {"idle", "open", "whole"} /\ exports[e].sent \subseteq rows

Idle == [phase |-> "idle", snapshot |-> {}, sent |-> {}]

RInit ==
  /\ now = 0 /\ rows = {}
  /\ mat = {} /\ watermark = 0 /\ refreshed = 0
  /\ exports = [e \in Exports |-> Idle]
  /\ socket = "none" /\ lastSeen = Never /\ reply = Never /\ showing = Never

Before(r, x) == r.time < x.time \/ (r.time = x.time /\ r.at < x.at)

\* ORDER BY time LIMIT n
Earliest(S, n) == { r \in S : Cardinality({ x \in S : Before(x, r) }) < n }

-----------------------------------------------------------------------------
(* What the queries answer.                                                *)

\* Mutant of Latest: the newest to arrive.
LatestByArrival ==
  { r \in rows : \A x \in rows : x.arrived < r.arrived \/ (x.arrived = r.arrived /\ ~ Before(r, x)) }

\* latest(): ORDER BY time DESC LIMIT 1, as a set of at most one.
Latest == { r \in rows : \A x \in rows : ~ Before(r, x) }

\* health()
DeviceReporting == \E r \in Latest : now - r.time < Fresh

Seen == { r \in rows : r.time > now - Day }

\* lag(): from each reading of the day to the next.
Lag ==
  LET times == { r.time : r \in Seen }
  IN  { g \in [from : times, to : times] :
          g.from < g.to /\ ~ \E t \in times : g.from < t /\ t < g.to }

\* Mutant of Edges: between readings only.
EdgesLagOnly == Lag

\* And the day's own edges, unless it has no reading.
Edges ==
  LET times == { r.time : r \in Seen }
  IN  Lag \cup IF times = {} THEN {}
              ELSE {[from |-> now - Day, to |-> Min(times)], [from |-> Max(times), to |-> now]}

\* device_health(): the latest MaxGaps of the gaps.
Gaps ==
  LET long == { g \in Edges : g.to - g.from > GapLimit }
  IN  { g \in long : Cardinality({ h \in long : h.to > g.to }) < MaxGaps }

BucketOf(t) == (t \div Bucket) * Bucket

\* choose_bucket()
IsRaw(start, end) == end - start <= RawSpan

\* Mutant of Visible: materialized_only.
VisibleMaterialized(r) == BucketOf(r.time) < watermark /\ r \in mat

\* Real-time aggregation: materialised buckets before the watermark, rows after.
Visible(r) == BucketOf(r.time) < watermark => r \in mat

\* series(): the rows its points stand for.  A raw point is a row, any other the
\* visible rows of a bucket that begins within the span.
Series(start, end) ==
  LET within == { r \in rows : start <= r.time /\ r.time < end }
      buckets == { BucketOf(r.time) : r \in { x \in rows : Visible(x) } } \cap start .. end - 1
      kept    == { b \in buckets : Cardinality({ c \in buckets : c < b }) < MaxPoints }
  IN  IF IsRaw(start, end)
      THEN [rows |-> Earliest(within, MaxPoints), truncated |-> Cardinality(within) > MaxPoints]
      ELSE [rows |-> { r \in rows : Visible(r) /\ BucketOf(r.time) \in kept },
            truncated |-> Cardinality(buckets) > MaxPoints]

-----------------------------------------------------------------------------
(* What fills the table.                                                   *)

\* The refresh is on time.
Tick ==
  /\ now < MaxTime /\ now < refreshed + Schedule
  /\ now' = now + 1
  /\ UNCHANGED <<rows, mat, watermark, refreshed, exports, panel>>

\* A reading arrives: at once, or after an outage.  One is taken an instant.
Store ==
  /\ Cardinality(rows) < IF socket = "none" THEN MaxRows ELSE MaxWatched
  /\ \E at \in 0 .. now, err \in Errors :
       /\ \A r \in rows : r.at # at
       /\ rows' = rows \cup {[at |-> at, time |-> at + err, arrived |-> now]}
  /\ UNCHANGED <<now, mat, watermark, refreshed, exports, panel>>

\* The buckets that lie wholly within the policy's window.
Window == { b \in 0 .. now : BucketOf(b) = b /\ now - StartOffset <= b /\ b + Bucket <= now - EndOffset }

\* What is in the window is recomputed; the watermark follows the last bucket of it
\* that holds anything.
Refresh ==
  LET new == { r \in rows : BucketOf(r.time) \in Window }
  IN  /\ refreshed < now
      /\ refreshed' = now
      /\ mat' = mat \cup new
      /\ watermark' = Max({watermark} \cup { BucketOf(r.time) + Bucket : r \in new })
      /\ UNCHANGED <<now, rows, exports, panel>>

-----------------------------------------------------------------------------
(* Connections: each query borrows one and an export keeps one.            *)

\* Mutant of Connection: one that an export is done with is not given back.
ConnectionKept == Cardinality({ e \in Exports : exports[e].phase # "idle" }) < Pool

Connection == Cardinality({ e \in Exports : exports[e].phase = "open" }) < Pool

data == <<now, rows, mat, watermark, refreshed>>

\* The panel is opened.  Opened anew it would begin as here.
Opens ==
  /\ socket = "none" /\ Cardinality(rows) <= MaxWatched
  /\ socket' = "open"
  /\ UNCHANGED <<data, exports, lastSeen, reply, showing>>

\* live(): sent when its instant is not the last one's.  It is there at once, and the
\* panel puts it in the place of a reading it has.
Poll ==
  /\ socket = "open" /\ Connection
  /\ \E r \in Latest : r.time # lastSeen /\ lastSeen' = r.time
  /\ showing' = IF showing = Never THEN Never ELSE lastSeen'
  /\ UNCHANGED <<data, exports, socket, reply>>

\* Its query waits for a connection longer than the pool lets it, or fails, or the path
\* to the panel does: the socket ends, and the panel opens no other.
SocketEnds ==
  /\ socket = "open"
  /\ socket' = "ended" /\ lastSeen' = Never
  /\ UNCHANGED <<data, exports, reply, showing>>

\* load(), which the panel runs every minute: /api/current answers,
Load ==
  /\ socket # "none" /\ Connection /\ reply = Never
  /\ \E r \in Latest : reply' = r.time
  /\ UNCHANGED <<data, exports, socket, lastSeen, showing>>

\* which is shown once all that was asked for along with it is there,
Loaded ==
  /\ reply # Never
  /\ reply' = Never /\ showing' = reply
  /\ UNCHANGED <<data, exports, socket, lastSeen>>

\* or given up when some of that failed.
LoadFails ==
  /\ reply # Never
  /\ reply' = Never
  /\ UNCHANGED <<data, exports, socket, lastSeen, showing>>

Panel == Opens \/ Poll \/ SocketEnds \/ Load \/ Loaded \/ LoadFails

\* stream_readings(): the cursor is declared,
Begin(e) ==
  /\ Connection /\ exports[e].phase = "idle" /\ rows # {}
  /\ exports' = [exports EXCEPT ![e] = [phase |-> "open", snapshot |-> rows, sent |-> {}]]
  /\ UNCHANGED <<now, rows, mat, watermark, refreshed, panel>>

\* Mutant of Unsent: each page is a query of its own.
UnsentNow(e) == rows \ exports[e].sent

Unsent(e) == exports[e].snapshot \ exports[e].sent

\* fetched from,
Fetch(e) ==
  /\ exports[e].phase = "open" /\ Unsent(e) # {}
  /\ exports' = [exports EXCEPT ![e].sent = @ \cup Earliest(Unsent(e), Itersize)]
  /\ UNCHANGED <<now, rows, mat, watermark, refreshed, panel>>

\* and closed when all is sent,
Ends(e) ==
  /\ exports[e].phase = "open" /\ Unsent(e) = {}
  /\ exports' = [exports EXCEPT ![e].phase = "whole"]
  /\ UNCHANGED <<now, rows, mat, watermark, refreshed, panel>>

\* or when the client goes.
Leaves(e) ==
  /\ exports[e].phase = "open"
  /\ exports' = [exports EXCEPT ![e] = Idle]
  /\ UNCHANGED <<now, rows, mat, watermark, refreshed, panel>>

Export(e) == Begin(e) \/ Fetch(e) \/ Ends(e) \/ Leaves(e)

RNext == Tick \/ Store \/ Refresh \/ Panel \/ \E e \in Exports : Export(e)

RSpec == RInit /\ [][RNext]_rvars

\* A socket that stays open polls every second, the panel asks every minute and some
\* wait of its is for a connection that is given back in time, no answer is lost every
\* time, and a client reads its download or leaves.
RFairSpec ==
  /\ RSpec /\ SF_rvars(Poll) /\ SF_rvars(Load) /\ SF_rvars(Loaded)
  /\ \A e \in Exports : WF_rvars(Fetch(e) \/ Ends(e))

-----------------------------------------------------------------------------
(* Properties.                                                             *)

\* A node is "up" exactly while its own clock says so, give or take the tolerance:
\* readings replayed after an outage neither make a dead node report nor hide that a
\* live one does (app.py:97-98).
ReportsTheDevice ==
  /\ DeviceReporting => \E r \in rows : now - r.at < Fresh + Tolerance
  /\ (\E r \in rows : now - r.at < Fresh) => DeviceReporting

Silent(a, b) == ~ \E r \in rows : a < r.time /\ r.time < b

\* A day with any reading in it tells every silence longer than the limit, its own
\* edges included, and tells none that was not (queries.py:403-411).  With more than
\* MaxGaps of them the latest are told.
GapsAreSilences ==
  Seen # {} =>
    /\ \A g \in Gaps : Silent(g.from, g.to) /\ g.to - g.from > GapLimit
    /\ \A a, b \in now - Day .. now :
         b - a > GapLimit /\ Silent(a, b) =>
           \/ \E g \in Gaps : g.from <= a /\ b <= g.to
           \/ Cardinality(Gaps) = MaxGaps /\ \A g \in Gaps : g.from >= b

\* The bucket of a reading was still to be recomputed when it arrived.
InReach(r) == r.arrived + Schedule <= BucketOf(r.time) + StartOffset

\* A chart holds every reading of its span that had the time to be recomputed, except
\* before its first bucket: what else is missing is its tail, and it says so
\* (app.py:148-149, 004_realtime_aggregates.sql:7-13).
Whole(start, end, excused(_)) ==
  LET s == Series(start, end)
  IN  \A r \in rows :
        start <= r.time /\ r.time < end /\ r \notin s.rows =>
          \/ s.truncated /\ \A x \in s.rows : x.time <= r.time
          \/ ~ IsRaw(start, end) /\ (BucketOf(r.time) < start \/ excused(r))

ChartIsWhole ==
  LET excused(r) == ~ InReach(r) \/ now - r.arrived <= Schedule
  IN  \A start, end \in Instant : start < end => Whole(start, end, excused)

\* A download that ended holds the rows stored when it began, whatever was replayed
\* while it streamed; one under way holds the first of them, in order.
ExportIsSnapshot ==
  \A e \in Exports :
    /\ exports[e].phase = "whole" => exports[e].sent = exports[e].snapshot
    /\ \A r \in exports[e].sent, x \in exports[e].snapshot \ exports[e].sent : Before(r, x)

\* With a connection free again and again the newest reading there is is shown again and
\* again, though the socket may end for good and an answer that comes late puts an older
\* reading over a newer one (app.py:408-429, App.tsx:82-99, 118-139); and a socket that
\* does not end has sent it.
NewestIs(t) == \A r \in rows : r.time <= t

LiveShowsLatest ==
  []<>(socket # "none" => NewestIs(showing) /\ (socket = "open" => NewestIs(lastSeen)))

-----------------------------------------------------------------------------
(* Expected by the sources and not so: no run checks these, the README says *)
(* what a run that did would show.                                          *)

\* A bucket is only recomputed once the readings that belong in it have arrived,
\* "including replays from the offline buffer" (002_aggregates.sql:55-56).
ReplaysAreCharted ==
  LET excused(r) == now - r.arrived <= Schedule
  IN  \A start, end \in Instant : start < end => Whole(start, end, excused)

\* Without a socket the panel is behind for as long as it does not ask, and says "live"
\* all the same (App.tsx:118-139 reopens nothing).
SocketKeepsUp == []<>(socket # "none" => NewestIs(lastSeen))

\* A node that was down for the whole day is the largest outage (queries.py:406-411).
SilentDayIsTold == now >= Day /\ Seen = {} => Gaps # {}
=============================================================================
