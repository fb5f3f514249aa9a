--------------------------- MODULE DriverVerdicts ---------------------------
(***************************************************************************)
(* The verdicts the host passes on one slug, from the generated program to  *)
(* the card a console shows: the static gate and the plausibility of the    *)
(* test reading admit a driver (bringup/loop.py, gate.py, plausibility.py), *)
(* its readings then make up a series (analytics/history.py) that the       *)
(* HealthWatcher scores on every tick, publishing what changed              *)
(* (analytics/watcher.py), and a console that connects late is handed the   *)
(* verdict of that moment (api/ws.py).                                      *)
(*                                                                          *)
(* The steps between the verdicts, the attempts and the board are           *)
(* CommissionRunner's, a commission of a slug that has a driver is          *)
(* DriverRegistry's, the queue between the bus and a console EventStream's. *)
(* Time is counted in units, rounded up: a reading comes after at least     *)
(* one, and Slack is how many more than that may pass in all.               *)
(***************************************************************************)
EXTENDS StaticGate, Plausibility, SensorHealth, FiniteSets

CONSTANTS Programs,      \* [class -> the programs a draft may be]
          Specs,         \* the specs that may be commissioned
          Readings,      \* what a test read may print
          Samples,       \* what a live sensor may read
          MaxPoints,     \* the capacity of the history, reached by no behaviour
          Slack          \* the silence there may be in all

ASSUME VerdictAssumption ==
  /\ Samples \subseteq Int /\ MaxPoints \in Nat /\ Slack \in Nat
  /\ \A s \in Specs : s.class \in Classes /\ s.min \in Int /\ s.max \in Int
  /\ \A r \in Readings : r.kind = "number" => r.value \in Int

\* An integer literal of Python has no sign.
ASSUME ProgramAssumption ==
  \A class \in Classes : \A p \in Programs[class] : \A loop \in p.loops :
    loop.literal => loop.args \in Seq(Nat)

VARIABLES stage,     \* "idle", "drafted", "deployed", "blessed", "crashed"
          spec,      \* the spec being commissioned
          program,   \* the draft
          reading,   \* what its test read printed
          record,    \* the registered record: of a sensor, of an actuator, or none
          points,    \* the series of the slug, each value with the gap before it
          silent,    \* the time since the last of them, rounded up to whole units
          scored,    \* whether the watcher has looked at the series as it is
          last,      \* the watcher's _last: the coarse verdict published last
          console    \* where a console has the verdict it shows from: its snapshot,
                     \* whatever that said, or the push of a verdict

trial == <<stage, spec, program, reading, record>>
series == <<points, silent>>
vars == <<trial, series, scored, last, console>>

None == [kind |-> "none"]

Init ==
  /\ stage = "idle" /\ spec = None /\ program = None /\ reading = None
  /\ record = "none"
  /\ points = <<>> /\ silent = 1
  /\ scored = FALSE /\ last = None /\ console = None

\* ----------------------------------------------------------- commissioning
\* The author drafts a program for the spec.
Draft ==
  /\ stage = "idle" /\ record = "none"
  /\ \E s \in Specs : spec' = s /\ program' \in Programs[s.class]
  /\ stage' = "drafted"
  /\ UNCHANGED <<reading, record, series, scored, last, console>>

\* The gate rejects the draft, for another draft, or passes it on to the board; a
\* range too long for len() is an exception and the commission's end.
Gate ==
  /\ stage = "drafted"
  /\ \/ Raises(program) /\ stage' = "crashed" /\ UNCHANGED <<spec, program>>
     \/ ~Raises(program) /\ GatePasses(program, spec.class)
        /\ stage' = "deployed" /\ UNCHANGED <<spec, program>>
     \/ ~Raises(program) /\ ~GatePasses(program, spec.class)
        /\ stage' = "idle" /\ spec' = None /\ program' = None
  /\ UNCHANGED <<reading, record, series, scored, last, console>>

\* The test read answers and is judged.
Judge ==
  /\ stage = "deployed"
  /\ \E r \in Readings :
       \/ Plausible(r, spec)
          /\ stage' = "blessed" /\ reading' = r /\ UNCHANGED <<spec, program>>
       \/ ~Plausible(r, spec)
          /\ stage' = "idle" /\ spec' = None /\ program' = None /\ UNCHANGED reading
  /\ UNCHANGED <<record, series, scored, last, console>>

\* The admission: register(), whose event has HistoryStore drop the series.
Admit ==
  /\ stage = "blessed"
  /\ record' = IF spec.class = "output" THEN "output" ELSE "sensor"
  /\ stage' = "idle" /\ spec' = None /\ program' = None /\ reading' = None
  /\ points' = <<>> /\ silent' = 1 /\ scored' = FALSE
  /\ UNCHANGED <<last, console>>

\* The code outside the gate's try takes the exception: the next commission may start.
Recover ==
  /\ stage = "crashed"
  /\ stage' = "idle" /\ spec' = None /\ program' = None
  /\ UNCHANGED <<reading, record, series, scored, last, console>>

\* --------------------------------------------------------------- the series
Live == stage = "idle" /\ record # "none"
Waited == Total([i \in DOMAIN points |-> points[i].gap - 1]) + silent - 1

\* Time passes without a reading, or with one that is not finite: HistoryStore drops
\* it and nothing else happens.
Passes ==
  /\ Live /\ points # <<>> /\ Waited < Slack
  /\ silent' = silent + 1 /\ scored' = FALSE
  /\ UNCHANGED <<trial, points, last, console>>

\* HistoryStore._on_reading
Reads ==
  /\ Live /\ record = "sensor"
  /\ Len(points) < MaxPoints
  /\ \E v \in Samples :
       points' = Append(points, [gap |-> silent, value |-> v])
  /\ silent' = 1 /\ scored' = FALSE
  /\ UNCHANGED <<trial, last, console>>

\* ------------------------------------------------------------ the verdicts
Fresh == Payload(record, points, silent)

Coarse(payload) == [kind |-> "verdict", status |-> payload.status, trend |-> payload.trend]

\* Mutant of Signature: the trend is not part of what is compared.
SignatureOfStatus(payload) ==
  [kind |-> "verdict", status |-> payload.status,
   trend |-> IF last = None THEN payload.trend ELSE last.trend,
   count |-> IF payload.status = "unknown" THEN payload.count ELSE 0]

\* _assess_once's sig: while the status is unknown the number of readings counts too.
Signature(payload) ==
  [kind |-> "verdict", status |-> payload.status, trend |-> payload.trend,
   count |-> IF payload.status = "unknown" THEN payload.count ELSE 0]

\* HealthWatcher._assess_once: the verdict is published when its signature changed; a
\* second look at one series and one silence changes nothing.
Assess ==
  /\ Live
  /\ ~scored /\ scored' = TRUE
  /\ LET sig == Signature(Fresh)
     IN /\ last' = sig
        /\ console' = IF console = None \/ last = sig THEN console
                      ELSE [from |-> "push", verdict |-> Coarse(sig)]
  /\ UNCHANGED <<trial, series>>

\* A console connects and is sent current_health().
Connect ==
  /\ Live /\ console = None
  /\ console' = [from |-> "snapshot", verdict |-> None]
  /\ UNCHANGED <<trial, series, scored, last>>

Next == Draft \/ Gate \/ Judge \/ Admit \/ Recover \/ Passes \/ Reads \/ Assess \/ Connect

Spec == Init /\ [][Next]_vars

\* -------------------------------------------------------------- properties
Statuses == {"unknown", "healthy", "degrading", "critical", "not_monitored"}
Trends == {"insufficient_data", "stable", "degrading", "critical"}

\* The shape of the state: series of samples at whole distances, verdicts of the
\* statuses and trends that payloads.py names.
TypeOK ==
  /\ stage \in {"idle", "drafted", "deployed", "blessed", "crashed"}
  /\ record \in {"none", "sensor", "output"}
  /\ points \in Seq([gap : Nat \ {0}, value : Samples]) /\ Len(points) <= MaxPoints
  /\ silent \in Nat \ {0} /\ scored \in BOOLEAN
  /\ last = None \/ (last.status \in Statuses /\ last.trend \in Trends)
  /\ console = None \/ console.from \in {"push", "snapshot"}

\* The draft under trial has passed the judges before it, only a sensor has a series,
\* and what is known of that series agrees: with the watcher's last look, and with the
\* last push to a console.
VerdictInv ==
  /\ stage \in {"drafted", "deployed", "blessed"} =>
       spec \in Specs /\ program \in Programs[spec.class]
  /\ stage \in {"deployed", "blessed"} => GatePasses(program, spec.class)
  /\ stage = "blessed" => reading \in Readings /\ Plausible(reading, spec)
  /\ points # <<>> => record = "sensor"
  /\ scored => last = Signature(Fresh)
  /\ (console # None /\ console.from = "push") => console.verdict = Coarse(last)

\* What a `for` over this range does on the board, counted one by one.
Iterations(args) ==
  LET start == IF Len(args) = 1 THEN 0 ELSE args[1]
      stop == IF Len(args) = 1 THEN args[1] ELSE args[2]
      step == IF Len(args) = 3 THEN args[3] ELSE 1
  IN Cardinality({k \in 0 .. stop : start + k * step < stop})

\* A program that reaches the registry iterates no loop more often than the cap, opens
\* the ADC on capable pins only when its class is analog, and printed in the test
\* something that float() accepts: when that is a number, it lies in the window of the
\* spec, strictly inside for an analog sensor, positive for a pulse (gate.py:145-242,
\* plausibility.py:65-117: two verdicts of two modules, over arguments and bounds
\* given in every combination).
BlessedIsSound ==
  stage = "blessed" =>
    /\ \A loop \in program.loops : Iterations(loop.args) <= MaxForRange
    /\ spec.class = "analog" => {adc.pin : adc \in program.adcs} \subseteq AdcPins
    /\ program.imports \subseteq program.declared
    /\ reading.kind # "text"
    /\ (spec.class # "output" /\ reading.kind = "number") =>
         /\ spec.hasMin => spec.min <= reading.value
         /\ spec.hasMax => reading.value <= spec.max
         /\ (spec.class = "analog" /\ spec.hasMin /\ spec.hasMax) =>
              spec.min < reading.value /\ reading.value < spec.max
         /\ spec.class = "pulse_timing" => reading.value > 0

\* With every reading: a status other than healthy is named by a signal and a named
\* signal is never scored as healthy; a trend is only as bad as the status it goes with:
\* one that degrades or is critical never comes with a healthy status, a critical one
\* only with a critical status (health.py:195-315: two functions score the same values
\* over different windows, each with a floor of its own).
VerdictsAgree ==
  [][Len(points') >= MinStatus =>
       LET h == Health(points', silent')
           t == Trend(points')
       IN /\ h.status = "healthy" <=> h.reasons = {"within range"}
          /\ t \in {"degrading", "critical"} => h.status # "healthy"
          /\ t = "critical" => h.status = "critical"]_points

\* What a series t, the values of s in a finer unit, may differ by: a drift in t where s
\* shows none, its shift being within the absolute floor there.
SameInUnit(s, t) ==
  /\ Variance(t) = Variance(s) /\ Railing(t) = Railing(s)
  /\ Drift(t) = Drift(s) \/ (Len(s) >= MinVariance /\ Negligible(s))

\* The scores of a series do not depend on the unit its driver reports in: scaling up,
\* shifting and inverting the values leave every signal as it is (health.py:13-22: "it
\* applies to any protocol class", each slug against its own observed range), but for the
\* one threshold that is absolute: a drift of at most 1e-9 in the driver's own unit is
\* taken for none, and scored when the unit is finer (:170).
UnitsDoNotMatter ==
  [][LET s == Values(points')
     IN s # <<>> => SameInUnit(s, [i \in DOMAIN s |-> 1 - 3 * s[i]])]_points

\* Once the watcher has looked, a console that was pushed a verdict since it connected
\* shows the verdict of this very series and silence (watcher.py:83-97: publishing only
\* what changed loses nothing).  A console that still shows its snapshot need not: the
\* watcher compares with what it published, never with what the console was given.
ConsoleAgrees ==
  (scored /\ console # None /\ console.from = "push") => console.verdict = Coarse(Fresh)

Gaps(s) == {s[i].gap : i \in DOMAIN s \ {1}}

\* Once three readings show a cadence, a tick during a silence of more than StaleFactor
\* times the longest gap publishes a critical verdict whatever the values were, and a
\* silence no longer than StaleFactor times the shortest gap is never called stale: the
\* cadence is the observed one, not the configured (health.py:90-113, 240-249).
SilenceIsCaught ==
  (scored /\ Len(points) >= 3 /\ Len(points) >= MinStatus) =>
    /\ (\A g \in Gaps(points) : silent > StaleFactor * g) => (last.status = "critical")
    /\ (\A g \in Gaps(points) : silent <= StaleFactor * g) => ~Stale(points, silent)
=============================================================================
