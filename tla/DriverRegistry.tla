---------------------------- MODULE DriverRegistry ----------------------------
(***************************************************************************)
(* One registered sensor (registry/store.py) as its users see it: tool     *)
(* calls that resolve the driver at call time and then wait for the board, *)
(* the poller, a re-commission that hot-swaps the source while it owns the *)
(* board, and the reading history (analytics/history.py) that follows all  *)
(* of it over the event bus.                                               *)
(*                                                                         *)
(* A source is named by its version: the commission that verified it.  The *)
(* board's lock is the FIFO of BoardSession; the history's subscription is *)
(* drained at every turn of the event loop, so it never drops an event.    *)
(***************************************************************************)
EXTENDS Naturals, SequencesExt

CONSTANTS Tools,         \* callers of perform_read: read_<slug>, cmd.read, REST
          Poller, Commission, Nobody,
          Capacity,      \* capacity of a _Series
          MaxVersions,   \* bound: commissions that pass
          MaxEvents      \* bound: events published and not yet drained

ASSUME UsersAssumption ==
  /\ Poller # Commission /\ Poller \notin Tools /\ Commission \notin Tools
  /\ Nobody \notin Tools \cup {Poller, Commission}
ASSUME CapacityAssumption == Capacity \in Nat \ {0} /\ MaxVersions \in Nat

VARIABLES
  version,   \* driver_code of the record, 0 while the slug is not registered
  armed,     \* version when a caller's toolset was built, 0 without the tool
  payload,   \* version in the payload a reader has built
  pc,        \* where each user of the board is suspended
  holder,    \* who holds the board's lock
  waiters,   \* its FIFO
  queue,     \* the history's subscription
  series     \* versions whose readings are in the history, oldest first

vars == <<version, armed, payload, pc, holder, waiters, queue, series>>

Readers == Tools \cup {Poller}
Users == Readers \cup {Commission}

Init ==
  /\ version = 0
  /\ armed = [t \in Tools |-> 0]
  /\ payload = [r \in Readers |-> 0]
  /\ pc = [u \in Users |-> "idle"]
  /\ holder = Nobody
  /\ waiters = <<>>
  /\ queue = <<>>
  /\ series = <<>>

Reading(v) == [kind |-> "sensor.reading", version |-> v]
Swap(v) == [kind |-> IF v = 1 THEN "driver.registered" ELSE "driver.updated", version |-> v]

Publish(event) == Len(queue) < MaxEvents /\ queue' = Append(queue, event)

Wait(u) == pc' = [pc EXCEPT ![u] = "waiting"] /\ waiters' = Append(waiters, u)

Free == holder = Nobody /\ waiters = <<>>

\* as_toolset: a read tool for a registered driver.
ArmTool(t) ==
  /\ version > 0
  /\ armed' = [armed EXCEPT ![t] = version]
  /\ UNCHANGED <<version, payload, pc, holder, waiters, queue, series>>

AskForBoard(r) ==
  /\ IF Free THEN pc' = [pc EXCEPT ![r] = "onWire"] /\ holder' = r /\ UNCHANGED waiters
             ELSE Wait(r) /\ UNCHANGED holder
  /\ UNCHANGED <<version, armed, queue, series>>

\* Mutant of Call: the closure keeps the source it was built with.
CallArmedCode(t) ==
  /\ pc[t] = "idle" /\ armed[t] > 0
  /\ payload' = [payload EXCEPT ![t] = armed[t]]
  /\ AskForBoard(t)

\* perform_read resolves the record and builds its payload, then asks for the board.
Call(t) ==
  /\ pc[t] = "idle" /\ armed[t] > 0
  /\ payload' = [payload EXCEPT ![t] = version]
  /\ AskForBoard(t)

\* _poll_once does the same for each sensor.
Poll ==
  /\ pc[Poller] = "idle" /\ version > 0
  /\ payload' = [payload EXCEPT ![Poller] = version]
  /\ AskForBoard(Poller)

\* Mutant of TakeOver: a poller that waits for the board is left waiting.
TakeOverKeepsPoller(queued) ==
  /\ holder' = Commission
  /\ pc' = [pc EXCEPT ![Commission] = "body"]
  /\ waiters' = queued

\* exclusive(): the lock is held, the poller is cancelled, wherever it waits.
TakeOver(queued) ==
  /\ holder' = Commission
  /\ pc' = [pc EXCEPT ![Commission] = "body", ![Poller] = "off"]
  /\ IF \E i \in DOMAIN queued : queued[i] = Poller
     THEN \E i \in DOMAIN queued : queued[i] = Poller /\ waiters' = RemoveAt(queued, i)
     ELSE waiters' = queued

Recommission ==
  /\ pc[Commission] = "idle" /\ version < MaxVersions
  /\ IF Free THEN TakeOver(waiters) ELSE Wait(Commission) /\ UNCHANGED holder
  /\ UNCHANGED <<version, armed, payload, queue, series>>

\* The released lock goes to the head of the queue.
Grant ==
  /\ holder = Nobody /\ waiters # <<>>
  /\ IF Head(waiters) = Commission
     THEN TakeOver(Tail(waiters))
     ELSE /\ holder' = Head(waiters)
          /\ pc' = [pc EXCEPT ![Head(waiters)] = "onWire"]
          /\ waiters' = Tail(waiters)
  /\ UNCHANGED <<version, armed, payload, queue, series>>

\* A reading is published as the reader leaves the board; a timeout, a traceback or
\* an unparsable line publishes nothing.
ReadEnds(r) ==
  /\ pc[r] = "onWire"
  /\ pc' = [pc EXCEPT ![r] = "idle"]
  /\ holder' = Nobody
  /\ Publish(Reading(payload[r])) \/ UNCHANGED queue
  /\ UNCHANGED <<version, armed, payload, waiters, series>>

\* The admission of a pass: register() the first time, then update_code().
Admit ==
  /\ pc[Commission] = "body" /\ version < MaxVersions
  /\ version' = version + 1
  /\ Publish(Swap(version'))
  /\ pc' = [pc EXCEPT ![Commission] = "leaving"]
  /\ UNCHANGED <<armed, payload, holder, waiters, series>>

\* Passed or failed: the lock is released and the poller restarted.
Leave ==
  /\ pc[Commission] \in {"body", "leaving"}
  /\ pc' = [pc EXCEPT ![Commission] = "idle",
                      ![Poller] = IF @ = "off" THEN "idle" ELSE @]
  /\ holder' = Nobody
  /\ UNCHANGED <<version, armed, payload, waiters, queue, series>>

\* Mutant of Drain: only a first registration clears the series.
DrainIgnoresUpdates ==
  /\ queue # <<>>
  /\ queue' = Tail(queue)
  /\ LET e == Head(queue)
         longer == Append(series, e.version)
     IN CASE e.kind = "sensor.reading" ->
               series' = IF Len(longer) > Capacity THEN Tail(longer) ELSE longer
          [] e.kind = "driver.registered" -> series' = <<>>
          [] OTHER -> UNCHANGED series
  /\ UNCHANGED <<version, armed, payload, pc, holder, waiters>>

\* HistoryStore.run takes the next event: a finite reading is appended and the oldest
\* beyond the capacity dropped; a registration or re-commission clears the series.
Drain ==
  /\ queue # <<>>
  /\ queue' = Tail(queue)
  /\ LET e == Head(queue)
         longer == Append(series, e.version)
     IN IF e.kind = "sensor.reading"
        THEN series' \in {series, IF Len(longer) > Capacity THEN Tail(longer) ELSE longer}
        ELSE series' = <<>>
  /\ UNCHANGED <<version, armed, payload, pc, holder, waiters>>

Next ==
  \/ \E t \in Tools : ArmTool(t) \/ Call(t)
  \/ Poll \/ Recommission \/ Grant \/ Admit \/ Leave \/ Drain
  \/ \E r \in Readers : ReadEnds(r)

Spec == Init /\ [][Next]_vars

-----------------------------------------------------------------------------
\* Type invariant of the registry's record, the readers and the history.
TypeOK ==
  /\ version \in 0 .. MaxVersions
  /\ armed \in [Tools -> 0 .. MaxVersions]
  /\ payload \in [Readers -> 0 .. MaxVersions]
  /\ pc \in [Users -> {"idle", "waiting", "onWire", "body", "leaving", "off"}]
  /\ holder \in Users \cup {Nobody}
  /\ waiters \in Seq(Users)
  /\ queue \in Seq([kind : {"sensor.reading", "driver.registered", "driver.updated"},
                    version : 1 .. MaxVersions])
  /\ series \in Seq(1 .. MaxVersions) /\ Len(series) <= Capacity

InCall(r) == pc[r] \in {"waiting", "onWire"}

\* A tool call runs a source at most one swap old, however long ago its tool was
\* armed: a call that waited for the board while a commission swapped the source still runs the source
\* it resolved, but the FIFO lets no second commission pass it.
StaleByAtMostOneSwap == \A t \in Tools : InCall(t) => version <= payload[t] + 1

\* Telemetry is never stale: what the poller has on the wire is the registered source.
PollerRunsRegistered == pc[Poller] = "onWire" => payload[Poller] = version

\* The history never mixes readings of more than two drivers, the registered one and
\* the one before it: a (re-)commission forgets everything older.
HistoryAtMostOneSwapBack ==
  \A i, j \in 1 .. Len(series) : series[i] <= series[j] + 1

\* Inductive: the lock belongs to the one user that pc says is on the board, the queue
\* holds each waiting user once, and a commission on the board has switched the poller off.
LockKept ==
  /\ pc[Commission] \in {"idle", "waiting", "body", "leaving"}
  /\ pc[Poller] \in {"idle", "waiting", "onWire", "off"}
  /\ \A t \in Tools : pc[t] \in {"idle", "waiting", "onWire"}
  /\ \A u \in Users : holder = u <=> pc[u] \in {"onWire", "body", "leaving"}
  /\ \A u \in Users : pc[u] = "waiting" <=> \E i \in 1 .. Len(waiters) : waiters[i] = u
  /\ \A i, j \in 1 .. Len(waiters) : waiters[i] = waiters[j] => i = j
  /\ pc[Poller] = "off" <=> pc[Commission] \in {"body", "leaving"}

\* No commission waits in front of the user.
NotBehindCommission(u) ==
  \A i, j \in 1 .. Len(waiters) : waiters[i] = Commission /\ waiters[j] = u => j < i

\* A call has resolved the registered source, or the one before it while no commission
\* can swap again before the call has had its turn; the poller has the registered one.
CallsKept ==
  /\ \A t \in Tools : armed[t] > 0 => version > 0
  /\ \A r \in Readers : InCall(r) => 1 <= payload[r] /\ payload[r] <= version
  /\ \A t \in Tools : InCall(t) /\ payload[t] # version =>
       version = payload[t] + 1 /\ pc[Commission] # "body" /\ NotBehindCommission(t)
  /\ InCall(Poller) => payload[Poller] = version

Recent(v) == {v - 1, v}

\* The source in force as the events of the queue are told one after the other: a swap
\* is the next one, a reading is of the one in force or the one before it.
HistoryKept ==
  \E inForce \in [0 .. Len(queue) -> 0 .. MaxVersions] :
    /\ inForce[Len(queue)] = version
    /\ \A i \in 1 .. Len(queue) :
         IF queue[i].kind = "sensor.reading"
         THEN inForce[i] = inForce[i - 1] /\ queue[i].version \in Recent(inForce[i])
         ELSE inForce[i] = inForce[i - 1] + 1
    /\ \A i \in 1 .. Len(series) : series[i] \in Recent(inForce[0])

RegistryInv == LockKept /\ CallsKept /\ HistoryKept
=============================================================================
