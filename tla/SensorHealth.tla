---------------------------- MODULE SensorHealth ----------------------------
(***************************************************************************)
(* Health and trend of a sensor's readings (analytics/health.py).  A series *)
(* is a sequence of points in the order of their time stamps: the value and *)
(* the time since the point before.  Risks are percents; a standard         *)
(* deviation enters comparisons squared: Spread(s) is Len(s)^2 times the    *)
(* population variance.  The windows, 10, 20 and 30 points in the code, are *)
(* constants.  Values are counted in steps fine enough for them and for the *)
(* one threshold that is absolute, DriftFloor.                              *)
(***************************************************************************)
EXTENDS Integers, Sequences, FiniteSets

CONSTANTS Recent,       \* the length of the recent window (10)
          MinStatus,    \* MIN_POINTS_FOR_STATUS (10)
          MinVariance,  \* MIN_POINTS_FOR_VARIANCE (20)
          RailCount,    \* RAIL_COUNT_THRESHOLD (6)
          DriftFloor,   \* the 1e-9 that a drift must exceed, in the steps of the values
          StaleFactor,  \* STALE_FACTOR (5)
          Interval,     \* settings.poller_interval_s
          EtaCap        \* TREND_ETA_CAP_S

ASSUME HealthAssumption ==
  /\ {Recent, MinStatus, RailCount, StaleFactor, Interval, EtaCap} \subseteq Nat \ {0}
  /\ MinVariance \in Nat /\ MinVariance > Recent /\ MinStatus <= MinVariance
  /\ DriftFloor \in Nat

MinTrend == MinVariance + Recent
Degrading == 34           \* RISK_DEGRADING
Critical == 70            \* RISK_CRITICAL

\* What counts as railed at all scores as degrading: 6 of the last 10.
ASSUME RailAssumption == 100 * RailCount >= Degrading * Recent

Total(s) == LET sum[i \in 0 .. Len(s)] == IF i = 0 THEN 0 ELSE sum[i - 1] + s[i]
            IN sum[Len(s)]
Squared(s) == Total([i \in DOMAIN s |-> s[i] * s[i]])
Spread(s) == Len(s) * Squared(s) - Total(s) * Total(s)
AtMost(a, b) == IF a < b THEN a ELSE b
Largest(S) == CHOOSE a \in S : \A b \in S : b <= a
Tallest(s) == Largest({s[i] : i \in DOMAIN s})
Lowest(s) == CHOOSE v \in {s[i] : i \in DOMAIN s} : \A i \in DOMAIN s : v <= s[i]

Earlier(s) == SubSeq(s, 1, Len(s) - Recent)
Latest(s) == SubSeq(s, Len(s) - Recent + 1, Len(s))

\* _railing_component: how many of the recent values sit within 3 % of the observed
\* minimum or maximum, as a percentage once it is enough of them.
Railing(s) ==
  LET low == Lowest(s)  high == Tallest(s)  span == high - low
      last == SubSeq(s, Len(s) - AtMost(Recent, Len(s)) + 1, Len(s))
      near == Cardinality({i \in DOMAIN last : \/ 100 * (last[i] - low) < 3 * span
                                               \/ 100 * (high - last[i]) < 3 * span})
  IN IF Len(s) >= MinStatus /\ span > 0 /\ near >= RailCount
     THEN (100 * near) \div Len(last) ELSE 0

\* _variance_component: the recent deviation is over 2.5 times the baseline's, or
\* appears where the baseline had none.  Its score is then always the full one.
Variance(s) ==
  LET b == Earlier(s)  r == Latest(s)
  IN IF /\ Len(s) >= MinVariance
        /\ 4 * Spread(r) * Len(b) * Len(b) > 25 * Spread(b) * Len(r) * Len(r)
     THEN 100 ELSE 0

\* abs(shift) / std, in hundredths, between three and six deviations.
Sigmas(shift, unit) ==
  CHOOSE k \in 300 .. 600 : /\ k * k * unit <= 10000 * shift * shift
                            /\ 10000 * shift * shift < (k + 1) * (k + 1) * unit

\* The difference between the recent and the baseline mean, times both lengths.
Shift(s) == LET b == Earlier(s)  r == Latest(s)
            IN Total(r) * Len(b) - Total(b) * Len(r)

\* Mutant of Negligible: the absolute value is forgotten.
NegligibleIfFallen(s) == Shift(s) <= DriftFloor * Len(Earlier(s)) * Len(Latest(s))

\* abs(shift) <= 1e-9, in the driver's own unit whatever that is.
Negligible(s) ==
  LET floor == DriftFloor * Len(Earlier(s)) * Len(Latest(s))
  IN Shift(s) <= floor /\ -Shift(s) <= floor

\* _drift_component: the recent mean is three baseline deviations away and holds
\* there, its own spread below half of the shift.
Drift(s) ==
  LET b == Earlier(s)  r == Latest(s)  shift == Shift(s)
      held == 4 * Spread(r) * Len(b) * Len(b) <= shift * shift
      unit == Len(r) * Len(r) * Spread(b)
  IN CASE Len(s) < MinVariance \/ Negligible(s) \/ ~held -> 0
       [] Len(s) >= MinVariance /\ ~Negligible(s) /\ held /\ unit = 0 -> 100
       [] OTHER -> CASE shift * shift < 9 * unit -> 0
                     [] shift * shift >= 36 * unit -> 100
                     [] OTHER -> Degrading + ((Sigmas(shift, unit) - 300) * 66) \div 300

\* _risk_and_reasons: every signal scored on its own; the worst wins, and each that
\* fires is named.
Signals(s) == [drift |-> Drift(s), variance |-> Variance(s), railing |-> Railing(s)]

\* Mutant of Worst: the railing is named but not among what is maximised.
WorstNoRailing(signals) == Largest({signals.drift, signals.variance})

Worst(signals) == Largest({signals.drift, signals.variance, signals.railing})
Named(signals) == {name \in DOMAIN signals : signals[name] > 0}

Values(points) == [i \in DOMAIN points |-> points[i].value]

\* The value at place k of the sorted series.
Ranked(s, k) ==
  CHOOSE v \in {s[i] : i \in DOMAIN s} :
    /\ Cardinality({i \in DOMAIN s : s[i] < v}) < k
    /\ k <= Cardinality({i \in DOMAIN s : s[i] <= v})

\* _effective_interval_s, doubled: the median of the observed gaps.
TwiceInterval(points) ==
  LET gaps == Tail([i \in DOMAIN points |-> points[i].gap])
      half == Len(gaps) \div 2
  IN CASE Len(points) < 3 -> 2 * Interval
       [] Len(points) >= 3 /\ Len(gaps) % 2 = 1 -> 2 * Ranked(gaps, half + 1)
       [] OTHER -> Ranked(gaps, half) + Ranked(gaps, half + 1)

\* Mutant of Stale: the configured interval, whatever cadence is observed.
StaleByConfig(points, silent) == silent > StaleFactor * Interval

\* _staleness_component: a silence of more than StaleFactor intervals is critical.
Stale(points, silent) == 2 * silent > StaleFactor * TwiceInterval(points)

StatusOf(score) == CASE score >= Critical -> "critical"
                     [] score < Critical /\ score >= Degrading -> "degrading"
                     [] OTHER -> "healthy"

\* assess_health
Health(points, silent) ==
  LET signals == Signals(Values(points))
      stale == Stale(points, silent)
      reasons == Named(signals) \cup (IF stale THEN {"stale"} ELSE {})
  IN IF Len(points) < MinStatus
     THEN [status |-> "unknown", reasons |-> {"not enough history"}]
     ELSE [status |-> StatusOf(IF stale THEN 100 ELSE Worst(signals)),
           reasons |-> IF reasons = {} THEN {"within range"} ELSE reasons]

\* How long it takes to become critical at the rate of the last Recent points.
Projected(now, before, dt) ==
  IF now > before /\ (Critical - now) * dt <= EtaCap * (now - before)
  THEN "degrading" ELSE "stable"

\* assess_trend: the risk as of Recent points ago against the risk now.
Trend(points) ==
  LET s == Values(points)
      now == Worst(Signals(s))
      dt == Total(Latest([i \in DOMAIN points |-> points[i].gap]))
  IN CASE Len(points) < MinTrend -> "insufficient_data"
       [] Len(points) >= MinTrend /\ now >= Critical -> "critical"
       [] Len(points) >= MinTrend /\ now = 0 -> "stable"
       [] OTHER -> Projected(now, Worst(Signals(Earlier(s))), dt)

\* build_health_payload: an actuator is not scored.
Payload(class, points, silent) ==
  LET health == Health(points, silent)
  IN IF class = "output"
     THEN [status |-> "not_monitored", reasons |-> {"actuator"}, count |-> 0,
           trend |-> "insufficient_data"]
     ELSE [status |-> health.status, reasons |-> health.reasons,
           count |-> Len(points), trend |-> Trend(points)]
=============================================================================
