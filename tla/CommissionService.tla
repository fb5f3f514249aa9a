-------------------------- MODULE CommissionService --------------------------
(***************************************************************************)
(* CommissionService (bringup/service.py): single-flight background        *)
(* commissions and the ring of outcomes that clients poll.  A commission   *)
(* is known by the id its request is answered with.  asyncio marks a task  *)
(* done in one step of the event loop and runs its done-callback in a      *)
(* later one; requests and polls are served in between.                    *)
(***************************************************************************)
EXTENDS Naturals, SequencesExt

CONSTANTS Commissions,    \* requests; an accepted one lends its id to its commission
          NoCommission,
          RingCap         \* _OUTCOME_RING_CAP

ASSUME CommissionsAssumption == NoCommission \notin Commissions
ASSUME RingCapAssumption == RingCap \in Nat \ {0}

VARIABLES
  task,         \* the background task of each commission
  result,       \* how its run ended
  current,      \* self._current_id
  outcomes,     \* self._outcomes, oldest first: records of id and status
  remembering,  \* passes whose fire-and-forget memory write is under way
  client        \* what the client that sent the request knows

serviceVars == <<task, result, current, outcomes, remembering, client>>

\* A run ends with commission.passed, commission.failed or an exception.
Verdicts == {"passed", "failed", "crashed"}

ServiceInit ==
  /\ task = [c \in Commissions |-> "none"]
  /\ result = [c \in Commissions |-> "none"]
  /\ current = NoCommission
  /\ outcomes = <<>>
  /\ remembering = {}
  /\ client = [c \in Commissions |-> "none"]

\* Mutant of Running: a commission counts as running only once it has an outcome.
RunningSettled == current # NoCommission /\ task[current] = "settled"

\* self._current is not None and not self._current.done()
Running == current # NoCommission /\ task[current] = "running"

Recorded(c) == {e \in Range(outcomes) : e.id = c}

\* Mutant of Status: the id of the latest commission always reads "running".
StatusCurrentFirst(c) ==
  CASE c = current -> "running"
    [] c # current /\ Recorded(c) # {} -> (CHOOSE e \in Recorded(c) : TRUE).status
    [] OTHER -> "unknown"

\* The poll-shaped view: a stored outcome, the in-flight marker, or None.
Status(c) ==
  CASE Recorded(c) # {} -> (CHOOSE e \in Recorded(c) : TRUE).status
    [] Recorded(c) = {} /\ c = current /\ Running -> "running"
    [] OTHER -> "unknown"

\* Append, then drop the oldest beyond the cap.
RecordOutcome(id, status) ==
  LET ring == Append(outcomes, [id |-> id, status |-> status])
  IN outcomes' = IF Len(ring) > RingCap THEN Tail(ring) ELSE ring

\* enqueue(): start a background task, or refuse while one is in flight.
Enqueue(c) ==
  /\ client[c] = "none"
  /\ IF Running
     THEN /\ client' = [client EXCEPT ![c] = "refused"]
          /\ UNCHANGED <<task, current>>
     ELSE /\ client' = [client EXCEPT ![c] = "polling"]
          /\ task' = [task EXCEPT ![c] = "running"]
          /\ current' = c
  /\ UNCHANGED <<result, outcomes, remembering>>

\* The runner returns or raises.  The callback of an earlier task was scheduled
\* before this one's first step, so it has already run.
RunEnds(c) ==
  /\ task[c] = "running" /\ \A d \in Commissions : task[d] # "done"
  /\ task' = [task EXCEPT ![c] = "done"]
  /\ \E v \in Verdicts : result' = [result EXCEPT ![c] = v]
  /\ UNCHANGED <<current, outcomes, remembering, client>>

\* Mutant of OnDone: the outcome is filed under self._current_id.
OnDoneFilesCurrent(c) ==
  /\ task[c] = "done"
  /\ task' = [task EXCEPT ![c] = "settled"]
  /\ RecordOutcome(current, result[c])
  /\ remembering' = IF result[c] = "passed" THEN remembering \cup {c} ELSE remembering
  /\ UNCHANGED <<result, current, client>>

\* Mutant of OnDone: a crash is only published, not recorded.
OnDoneSkipsCrash(c) ==
  /\ task[c] = "done"
  /\ task' = [task EXCEPT ![c] = "settled"]
  /\ IF result[c] = "crashed" THEN UNCHANGED outcomes ELSE RecordOutcome(c, result[c])
  /\ remembering' = IF result[c] = "passed" THEN remembering \cup {c} ELSE remembering
  /\ UNCHANGED <<result, current, client>>

\* The done-callback records the outcome under the id bound into it, and starts the
\* memory write of a pass.
OnDone(c) ==
  /\ task[c] = "done"
  /\ task' = [task EXCEPT ![c] = "settled"]
  /\ RecordOutcome(c, result[c])
  /\ remembering' = IF result[c] = "passed" THEN remembering \cup {c} ELSE remembering
  /\ UNCHANGED <<result, current, client>>

\* The memory write ends, whether or not the memory server took it.
Remembered(c) ==
  /\ c \in remembering
  /\ remembering' = remembering \ {c}
  /\ UNCHANGED <<task, result, current, outcomes, client>>

\* GET /api/commission/{id}: running is polled again, None is a 404 and the end.
Poll(c) ==
  /\ client[c] = "polling"
  /\ Status(c) # "running"
  /\ client' = [client EXCEPT ![c] = Status(c)]
  /\ UNCHANGED <<task, result, current, outcomes, remembering>>

ServiceNext == \E c \in Commissions :
  Enqueue(c) \/ RunEnds(c) \/ OnDone(c) \/ Remembered(c) \/ Poll(c)

\* The event loop runs scheduled callbacks, a run ends (CommissionRunner shows it),
\* and a client keeps polling.
ServiceFairness == \A c \in Commissions :
  /\ WF_serviceVars(RunEnds(c)) /\ WF_serviceVars(OnDone(c))
  /\ WF_serviceVars(Remembered(c)) /\ WF_serviceVars(Poll(c))

ServiceSpec == ServiceInit /\ [][ServiceNext]_serviceVars
ServiceFairSpec == ServiceSpec /\ ServiceFairness

-----------------------------------------------------------------------------
\* Type invariant of the service's and its clients' state.
ServiceTypeOK ==
  /\ task \in [Commissions -> {"none", "running", "done", "settled"}]
  /\ result \in [Commissions -> Verdicts \cup {"none"}]
  /\ current \in Commissions \cup {NoCommission}
  /\ outcomes \in Seq([id : Commissions, status : Verdicts]) /\ Len(outcomes) <= RingCap
  /\ remembering \subseteq Commissions
  /\ client \in [Commissions -> Verdicts \cup {"none", "refused", "polling", "unknown"}]

\* At most one commission is in flight, through whichever door it was requested and
\* however the previous one's done-callback is delayed.
SingleFlight ==
  \A c, d \in Commissions : task[c] = "running" /\ task[d] = "running" => c = d

\* The ring holds each settled commission once, under its own id and with its own
\* run's verdict, even when the next one was accepted before the callback ran.
OutcomesHonest ==
  /\ \A i, j \in 1 .. Len(outcomes) : outcomes[i].id = outcomes[j].id => i = j
  /\ \A i \in 1 .. Len(outcomes) :
       LET e == outcomes[i]
       IN e.id \in Commissions /\ task[e.id] = "settled" /\ e.status = result[e.id]

\* A commission that settled is answered from the ring for as long as fewer than
\* RingCap others have settled: a crash is a queryable outcome too.
RecentlySettledIsKnown ==
  \A c \in Commissions :
    task[c] = "settled" /\ Status(c) = "unknown" => Len(outcomes) = RingCap

\* A client that keeps polling is answered with something other than "running".
PollerIsAnswered == \A c \in Commissions : client[c] = "polling" ~> client[c] # "polling"

\* Inductive: only the current commission runs, an id is used for one task, and a
\* task that ended has a verdict that no later step changes.
ServiceInv ==
  /\ \A c \in Commissions :
       /\ task[c] = "running" => c = current
       /\ client[c] \in {"none", "refused"} => task[c] = "none"
       /\ task[c] \in {"done", "settled"} => result[c] \in Verdicts
  /\ OutcomesHonest

\* Inductive with it: an outcome leaves the ring only to make room in a full one.
RingRemembers ==
  \A c \in Commissions : task[c] = "settled" =>
    \/ \E i \in 1 .. Len(outcomes) : outcomes[i].id = c
    \/ Len(outcomes) = RingCap
=============================================================================
