------------------------------- MODULE Contract -------------------------------
(***************************************************************************)
(* The wire contracts and the tables behind them: what parse() of          *)
(* domain/telemetry.py, samples.py and events.py makes of a message, and   *)
(* what the CHECK constraints of the tables make of its row.               *)
(*                                                                         *)
(* A JSON value is a type and, where it matters, a number or a word.       *)
(* Numbers are integers: a bound is met exactly or missed by one.  "huge"  *)
(* is an integer no float holds, "infinite" NaN or an infinity.  Of the    *)
(* envelope, what an integer field may hold is one flag, except the window *)
(* a CHECK repeats; the plausible seconds of `ts` are 1 .. 99.             *)
(* Of two faults in one group either is found.                             *)
(***************************************************************************)
EXTENDS Integers, FiniteSets, Sequences

Null == [is |-> "null"]
Int_(n) == [is |-> "int", n |-> n]
Float(n) == [is |-> "float", n |-> n]
Text(s) == [is |-> "text", s |-> s]
Bool == [is |-> "bool"]
Huge == [is |-> "huge"]
Infinite == [is |-> "infinite"]

\* The larger bounds; in lux, milliseconds and metres.
MaxLux == 200000
Minute == 60000
TenMinutes == 600000
TenKm == 10000
NineKm == 9000

(* Spec *)
Num(column, lo, hi) == [column |-> column, kind |-> "number", lo |-> lo, hi |-> hi,
                        inclusive |-> TRUE, required |-> TRUE]
Count(column, lo, hi) == [Num(column, lo, hi) EXCEPT !.kind = "integer"]
Choice(column, choices) == [column |-> column, kind |-> "choice", choices |-> choices,
                            required |-> TRUE]
Flag(column) == [column |-> column, kind |-> "flag", required |-> TRUE]
Opt(spec) == [spec EXCEPT !.required = FALSE]
Below(spec) == [spec EXCEPT !.inclusive = FALSE]

SCHEMA == [
  baro  |-> [hpa |-> Num("pressure_hpa", 300, 1100)],
  light |-> [lux |-> Num("illuminance_lux", 0, MaxLux)],
  sound |-> [rms_dbfs |-> Num("sound_rms_dbfs", -160, 0), peak_dbfs |-> Num("sound_peak_dbfs", -160, 0)],
  accel |-> [rms |-> Num("accel_rms", 0, 160), peak |-> Num("accel_peak", 0, 160)],
  gyro  |-> [rms |-> Num("gyro_rms", 0, 40), peak |-> Num("gyro_peak", 0, 40)],
  mag   |-> [ut |-> Num("magnetic_ut", 0, 2000), heading |-> Below(Num("heading_deg", 0, 360))],
  batt  |-> [c |-> Num("battery_temp_c", -40, 100)],
  loc   |-> [lat |-> Num("lat", -90, 90), lon |-> Num("lon", -180, 180),
             acc |-> Num("loc_acc_m", 0, TenKm), alt |-> Opt(Num("alt_msl_m", -500, NineKm)),
             alt_acc |-> Opt(Num("alt_acc_m", 0, TenKm)), spd |-> Opt(Num("speed_ms", 0, 350))],
  noise |-> [laeq |-> Num("noise_laeq_dbfs", -160, 0), lamax |-> Num("noise_lamax_dbfs", -160, 0),
             l10 |-> Opt(Num("noise_l10_dbfs", -160, 0)), l90 |-> Opt(Num("noise_l90_dbfs", -160, 0))],
  cell  |-> [rat |-> Choice("cell_rat", {"lte", "nr"}), rsrp |-> Num("cell_rsrp_dbm", -156, -31),
             rsrq |-> Num("cell_rsrq_db", -43, 20), sinr |-> Opt(Num("cell_sinr_db", -23, 40)),
             band |-> Opt(Count("cell_band", 1, 1024))],
  net   |-> [via |-> Choice("net_via", {"wifi", "cell", "ethernet", "other"}),
             vpn |-> Flag("net_vpn"), rtt |-> Opt(Num("net_rtt_ms", 0, Minute))] ]

KINDS == [
  vibration |-> [dur |-> Count("duration_ms", 1, TenMinutes), pga |-> Num("pga_ms2", 0, 160),
                 ratio |-> Num("sta_lta", 1, 1000), freq |-> Opt(Num("freq_hz", 0, 100))] ]

-----------------------------------------------------------------------------
(* Parsing: "accepted", "rejected" (InvalidMessage), or "throws".          *)

Verdict(ok) == IF ok THEN "accepted" ELSE "rejected"

Worst(verdicts) ==
  IF "rejected" \in verdicts THEN "rejected"
  ELSE IF "throws" \in verdicts THEN "throws" ELSE "accepted"

\* Mutant of Within: the upper bound is always met.
WithinInclusive(spec, n) == spec.lo <= n /\ n <= spec.hi

Within(spec, n) == spec.lo <= n /\ (n < spec.hi \/ (spec.inclusive /\ n = spec.hi))

\* check_value(); float() of an integer too large for it is no InvalidMessage.
CheckValue(spec, raw) ==
  IF spec.kind = "choice" THEN Verdict(raw.is = "text" /\ raw \in { Text(c) : c \in spec.choices })
  ELSE IF spec.kind = "flag" THEN Verdict(raw.is = "bool")
  ELSE IF raw.is = "huge" THEN "throws"
  ELSE Verdict(/\ raw.is = "int" \/ (raw.is = "float" /\ spec.kind = "number")
               /\ Within(spec, raw.n))

\* check_group(): a closed schema, no field null, none of the required missing.
CheckGroup(spec, body) ==
  IF \/ ~ DOMAIN body \subseteq DOMAIN spec
     \/ \E f \in DOMAIN spec : spec[f].required /\ f \notin DOMAIN body
  THEN "rejected"
  ELSE Worst({ CheckValue(spec[f], body[f]) : f \in DOMAIN body })

\* parse_device_clock()
CheckClock(ts, ms) ==
  IF ts = Null THEN Verdict(ms = Null)
  ELSE Verdict(/\ ts.is = "int" /\ ts.n \in 1 .. 99
               /\ ms = Null \/ (ms.is = "int" /\ ms.n \in 0 .. 999))

\* JSON, version, dev, fw and the integers of the envelope; and the device the
\* topic names, which the handlers of ingest.py compare.
CheckEnvelope(e) == Worst({Verdict(e.whole /\ e.named), CheckClock(e.ts, e.ms)})

\* telemetry.parse(): null, or a finite number of any size.
CheckOptional(raw) ==
  IF raw.is = "huge" THEN "throws" ELSE Verdict(raw.is \in {"null", "int", "float"})

\* The first verdict that is not to accept.
First(verdicts) ==
  LET faults == SelectSeq(verdicts, LAMBDA v : v # "accepted")
  IN  IF faults = <<>> THEN "accepted" ELSE Head(faults)

ParseReading(m) == First(<<CheckEnvelope(m.env), CheckOptional(m.t), CheckOptional(m.h)>>)

Has(groups, g, f) == g \in DOMAIN groups /\ f \in DOMAIN groups[g]

\* "loc.alt_acc without loc.alt"
Altitude(groups) == Has(groups, "loc", "alt_acc") => Has(groups, "loc", "alt")

\* samples.parse(); with no group present() is 0.
ParseSample(m) ==
  IF DOMAIN m.groups = {} \/ ~ DOMAIN m.groups \subseteq DOMAIN SCHEMA THEN "rejected"
  ELSE Worst({ CheckGroup(SCHEMA[g], m.groups[g]) : g \in DOMAIN m.groups }
               \cup {CheckEnvelope(m.env), Verdict(m.win \in 100 .. Minute /\ Altitude(m.groups))})

\* events.parse()
ParseEvent(m) ==
  IF m.kind \notin DOMAIN KINDS THEN "rejected"
  ELSE Worst({CheckEnvelope(m.env), CheckGroup(KINDS[m.kind], m.fields)})

-----------------------------------------------------------------------------
(* The tables: a row is what its columns hold, NULL where absent, each     *)
(* within its BETWEEN; a heading is a whole number below 360.              *)

SampleChecks ==
  [pressure_hpa |-> 300 .. 1100, illuminance_lux |-> 0 .. MaxLux,
   sound_rms_dbfs |-> -160 .. 0, sound_peak_dbfs |-> -160 .. 0,
   accel_rms |-> 0 .. 160, accel_peak |-> 0 .. 160,
   gyro_rms |-> 0 .. 40, gyro_peak |-> 0 .. 40,
   magnetic_ut |-> 0 .. 2000, heading_deg |-> 0 .. 359,
   battery_temp_c |-> -40 .. 100,
   lat |-> -90 .. 90, lon |-> -180 .. 180, loc_acc_m |-> 0 .. TenKm,
   alt_msl_m |-> -500 .. NineKm, alt_acc_m |-> 0 .. TenKm,
   speed_ms |-> 0 .. 350,
   noise_laeq_dbfs |-> -160 .. 0, noise_lamax_dbfs |-> -160 .. 0,
   noise_l10_dbfs |-> -160 .. 0, noise_l90_dbfs |-> -160 .. 0,
   cell_rsrp_dbm |-> -156 .. -31, cell_rsrq_db |-> -43 .. 20,
   cell_sinr_db |-> -23 .. 40, cell_band |-> 1 .. 1024,
   net_rtt_ms |-> 0 .. Minute]

EventChecks ==
  [duration_ms |-> 1 .. TenMinutes, pga_ms2 |-> 0 .. 160,
   sta_lta |-> 1 .. 1000, freq_hz |-> 0 .. 100]

Words == [cell_rat |-> {"lte", "nr"}, net_via |-> {"wifi", "cell", "ethernet", "other"}]

\* {column: value} of a group.
Columns(spec, body) == { [column |-> spec[f].column, raw |-> body[f]] : f \in DOMAIN body }

Holds(checks, cell) ==
  IF cell.column \in DOMAIN checks THEN cell.raw.n \in checks[cell.column]
  ELSE cell.column \in DOMAIN Words => cell.raw.s \in Words[cell.column]

\* sample: the ranges, sample_window_sane, sample_location_whole and
\* sample_altitude_whole.
SampleTaken(m) ==
  LET cells == UNION { Columns(SCHEMA[g], m.groups[g]) : g \in DOMAIN m.groups }
      set(column) == \E c \in cells : c.column = column
  IN  /\ \A c \in cells : Holds(SampleChecks, c)
      /\ m.win \in 100 .. Minute
      /\ set("lat") = set("lon") /\ set("lat") = set("loc_acc_m")
      /\ set("alt_acc_m") => set("alt_msl_m")

EventTaken(m) ==
  /\ m.kind = "vibration"
  /\ \A c \in Columns(KINDS[m.kind], m.fields) : Holds(EventChecks, c)
  /\ {"dur", "pga", "ratio"} \subseteq DOMAIN m.fields

\* reading_temp_sane, reading_hum_sane
ReadingTaken(m) ==
  /\ m.t = Null \/ m.t.n \in -100 .. 150
  /\ m.h = Null \/ m.h.n \in -5 .. 105

-----------------------------------------------------------------------------
(* What becomes of a message: "good", "malformed", "throws" while it is    *)
(* parsed, or "refused" by the table.                                      *)

Fate(parsed, admitted) ==
  CASE parsed = "rejected" -> "malformed"
    [] parsed = "throws" -> "throws"
    [] OTHER -> IF admitted THEN "good" ELSE "refused"

FateOf(kind, m) ==
  CASE kind = "reading" -> LET p == ParseReading(m) IN Fate(p, p = "accepted" => ReadingTaken(m))
    [] kind = "sample" -> LET p == ParseSample(m) IN Fate(p, p = "accepted" => SampleTaken(m))
    [] kind = "event" -> LET p == ParseEvent(m) IN Fate(p, p = "accepted" => EventTaken(m))

-----------------------------------------------------------------------------
(* Messages to try: every subset of a group's fields at a value each may   *)
(* have, every field at and beyond its bounds and of every type, faults of *)
(* the envelope.                                                           *)

Envelope == [whole |-> TRUE, named |-> TRUE, ts |-> Int_(1), ms |-> Null]

Envelopes ==
  {Envelope, [Envelope EXCEPT !.whole = FALSE], [Envelope EXCEPT !.named = FALSE]}
    \cup { [Envelope EXCEPT !.ts = ts, !.ms = ms] :
             ts \in {Null, Int_(0), Int_(99), Int_(100), Float(1)},
             ms \in {Null, Int_(-1), Int_(0), Int_(999), Int_(1000), Bool} }

Usual(spec) ==
  CASE spec.kind = "choice" -> Text(CHOOSE c \in spec.choices : TRUE)
    [] spec.kind = "flag" -> Bool
    [] OTHER -> Int_(spec.lo)

Tried(spec) ==
  {Null, Bool, Text("neither"), Huge, Infinite} \cup
  (IF spec.kind = "choice" THEN { Text(c) : c \in spec.choices }
   ELSE IF spec.kind = "flag" THEN {Int_(1)}
   ELSE UNION { {Int_(n), Float(n)} : n \in {spec.lo - 1, spec.lo, spec.hi - 1, spec.hi, spec.hi + 1} })

Bodies(spec) ==
  LET part(S) == [f \in S |-> Usual(spec[f])]
  IN  { part(S) : S \in SUBSET DOMAIN spec }
        \cup { [f \in DOMAIN spec \cup {"misspelt"} |-> IF f = "misspelt" THEN Bool ELSE Usual(spec[f])] }
        \cup UNION { { [part(DOMAIN spec) EXCEPT ![f] = v] : v \in Tried(spec[f]) } : f \in DOMAIN spec }

Optionals == {Null, Int_(-101), Int_(-100), Int_(-6), Int_(-5), Int_(105), Int_(106),
              Int_(150), Float(151), Bool, Text("nan"), Huge, Infinite}

Readings ==
  { [env |-> e, t |-> Int_(20), h |-> Null] : e \in Envelopes }
    \cup { [env |-> Envelope, t |-> t, h |-> h] : t, h \in Optionals }

Barometer == [baro |-> [hpa |-> Int_(1013)]]

Samples ==
  { [env |-> e, win |-> 2000, groups |-> Barometer] : e \in Envelopes }
    \cup { [env |-> Envelope, win |-> win, groups |-> Barometer] : win \in {99, 100, Minute, Minute + 1} }
    \cup { [env |-> Envelope, win |-> 2000, groups |-> g] : g \in {<< >>, [barometer |-> << >>]} }
    \cup UNION { { [env |-> Envelope, win |-> 2000, groups |-> [k \in {g} |-> b]] : b \in Bodies(SCHEMA[g]) } :
                   g \in DOMAIN SCHEMA }

Events ==
  { [env |-> e, kind |-> kind, fields |-> [f \in DOMAIN KINDS.vibration |-> Usual(KINDS.vibration[f])]] :
      e \in Envelopes, kind \in {"vibration", "impact"} }
    \cup { [env |-> Envelope, kind |-> "vibration", fields |-> b] : b \in Bodies(KINDS.vibration) }

\* The fates of the messages of each kind.
Fates == [reading |-> { FateOf("reading", m) : m \in Readings },
          sample  |-> { FateOf("sample", m) : m \in Samples },
          event   |-> { FateOf("event", m) : m \in Events }]

-----------------------------------------------------------------------------
(* Properties.                                                             *)

\* A message the second contract accepts is one its table takes, at every bound and
\* with every choice of optional fields: the ranges are written twice and agree
\* (samples.py:47-48, 007_samples.sql:27-29, 008_phone_revision.sql:4-7).
RangesAgree == \A kind \in {"sample", "event"} : "refused" \notin Fates[kind]
=============================================================================
