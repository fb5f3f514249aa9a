---------------------------- MODULE BoardSession ----------------------------
(***************************************************************************)
(* BoardSession (hardware/session.py) over a SerialBoard: one serial line, *)
(* one asyncio.Lock, and every task that shares them.  A step is the code  *)
(* a task runs between two awaits; a transport call runs in a worker       *)
(* thread, so it starts in one step and ends in another, and the thread    *)
(* outlives a task that is cancelled or gives up while awaiting it.        *)
(*                                                                         *)
(*   Callers  tasks that go through session.exec: tool calls, cmd.read,    *)
(*            scans, the OLED's at-rest draws                              *)
(*   Daemons  the callers that the lifespan stops at shutdown: the         *)
(*            DiscoveryWatcher and the OledNarrator                        *)
(*   Owners   tasks that go through session.exclusive: commissions         *)
(*   Poller   the telemetry poller's task, restarted by exclusive          *)
(***************************************************************************)
EXTENDS Naturals, SequencesExt

CONSTANTS Callers, Daemons, Owners, Poller, NoTask,
          MaxOps          \* bound: transport calls inside one exclusive()

ASSUME TasksAssumption ==
  /\ Daemons \subseteq Callers
  /\ Callers \cap Owners = {}
  /\ Poller \notin Callers \cup Owners
  /\ NoTask \notin Callers \cup Owners \cup {Poller}

ASSUME MaxOpsAssumption == MaxOps \in Nat

Tasks == Callers \cup Owners \cup {Poller}

VARIABLES
  pc,          \* where each task is suspended
  holder,      \* the task that holds THE lock, or NoTask
  waiters,     \* the lock's FIFO of waiting tasks; a woken head is still in it
  pollerTask,  \* self._poller_task is not None
  cancelled,   \* tasks whose cancel() has been called and has not landed
  wasRunning,  \* poller_was_running of each owner
  budget,      \* transport calls each owner may still make
  busy,        \* self._busy
  dirty,       \* SerialBoard._dirty
  link,        \* the port: "absent" (never opened), "open", "closed"
  orphans,     \* tasks cancelled during a transport call whose thread still runs
  wedged,      \* tasks whose exec hit the wait_for backstop, thread still running
  life         \* how far the lifespan's shutdown has come

vars == <<pc, holder, waiters, pollerTask, cancelled, wasRunning, budget, busy,
          dirty, link, orphans, wedged, life>>
lockVars == <<holder, waiters>>
pollVars == <<pollerTask, wasRunning>>
threadVars == <<orphans, wedged>>

\* A task is in a transport call, and a worker thread writes for it: the resync
\* at the head of SerialBoard.exec, the exec itself, or a soft_reset.
InCall == {"resync", "exec", "reset"}
InBody == InCall \cup {"body"}
CallerPc == {"idle", "queued", "stopped"} \cup InCall
PollerPc == {"new", "sleeping", "queued", "done", "off"} \cup InCall
OwnerPc == {"idle", "queued", "reaping"} \cup InBody

Connected == link = "open"
LockFree == holder = NoTask /\ waiters = <<>>

\* asyncio.Lock wakes the head when nobody holds the lock; only the head may take
\* it, whatever arrived in between.
IsWoken(t) == holder = NoTask /\ waiters # <<>> /\ Head(waiters) = t

\* Mutant of CallEntry: exec no longer resyncs a dirty line first.
CallEntryNoResync(d) == "exec"

\* Where SerialBoard.exec suspends first: a dirty line is resynced before it.
CallEntry(d) == IF d THEN "resync" ELSE "exec"

Moves(t, at) == pc' = [pc EXCEPT ![t] = at]
Enqueue(t) == Moves(t, "queued") /\ waiters' = Append(waiters, t) /\ UNCHANGED holder

Init ==
  /\ pc = [t \in Tasks |-> IF t = Poller THEN "new" ELSE "idle"]
  /\ holder = NoTask
  /\ waiters = <<>>
  /\ pollerTask = TRUE
  /\ cancelled = {}
  /\ wasRunning = [o \in Owners |-> FALSE]
  /\ budget = [o \in Owners |-> 0]
  /\ busy = FALSE
  /\ dirty = FALSE
  /\ link \in {"absent", "open"}
  /\ orphans = {}
  /\ wedged = {}
  /\ life = "up"

-----------------------------------------------------------------------------
\* Taking the lock, and what the new holder runs before its first await.

\* session.exec and _poll_once enter the transport; without a link the call
\* returns at once and the lock is released again in the same step.
HoldAndCall(t) ==
  IF Connected
  THEN Moves(t, CallEntry(dirty)) /\ holder' = t
  ELSE Moves(t, IF t = Poller THEN "sleeping" ELSE "idle") /\ holder' = NoTask

\* Mutant of HoldAndSilence: the poller is cancelled but not awaited.
HoldAndSilenceNoReap(o) ==
  /\ holder' = o
  /\ wasRunning' = [wasRunning EXCEPT ![o] = pollerTask]
  /\ Moves(o, "body")
  /\ cancelled' = IF pollerTask THEN cancelled \cup {Poller} ELSE cancelled
  /\ busy' = TRUE
  /\ UNCHANGED pollerTask

\* exclusive() notes whether there is a poller, cancels it and awaits it.
HoldAndSilence(o) ==
  /\ holder' = o
  /\ wasRunning' = [wasRunning EXCEPT ![o] = pollerTask]
  /\ IF pollerTask /\ pc[Poller] # "done"
     THEN /\ Moves(o, "reaping")
          /\ cancelled' = cancelled \cup {Poller}
          /\ UNCHANGED <<pollerTask, busy>>
     ELSE /\ pc' = [pc EXCEPT ![o] = "body",
                              ![Poller] = IF pollerTask THEN "off" ELSE @]
          /\ pollerTask' = FALSE
          /\ busy' = TRUE
          /\ UNCHANGED cancelled

\* Mutant of Request: takes the lock whenever nobody holds it.
RequestBarges(t) ==
  /\ pc[t] = "idle" /\ t \notin cancelled
  /\ IF holder = NoTask THEN HoldAndCall(t) /\ UNCHANGED waiters ELSE Enqueue(t)
  /\ UNCHANGED <<pollVars, cancelled, budget, busy, dirty, link, threadVars, life>>

Request(t) ==
  /\ pc[t] = "idle" /\ t \notin cancelled
  /\ IF LockFree THEN HoldAndCall(t) /\ UNCHANGED waiters ELSE Enqueue(t)
  /\ UNCHANGED <<pollVars, cancelled, budget, busy, dirty, link, threadVars, life>>

\* Mutant of Enter: cancel the poller first, then wait for the lock.
EnterCancelFirst(o) ==
  /\ pc[o] = "idle"
  /\ budget' = [budget EXCEPT ![o] = MaxOps]
  /\ IF LockFree
     THEN HoldAndSilence(o) /\ UNCHANGED waiters
     ELSE /\ Enqueue(o)
          /\ cancelled' = IF pollerTask /\ pc[Poller] # "done"
                          THEN cancelled \cup {Poller} ELSE cancelled
          /\ UNCHANGED <<pollVars, busy>>
  /\ UNCHANGED <<dirty, link, threadVars, life>>

Enter(o) ==
  /\ pc[o] = "idle"
  /\ budget' = [budget EXCEPT ![o] = MaxOps]
  /\ IF LockFree
     THEN HoldAndSilence(o) /\ UNCHANGED waiters
     ELSE Enqueue(o) /\ UNCHANGED <<pollVars, cancelled, busy>>
  /\ UNCHANGED <<dirty, link, threadVars, life>>

\* _poll_loop wakes from its sleep; a round without a link or a sensor is skipped.
PollRound ==
  /\ pc[Poller] \in {"new", "sleeping"} /\ Poller \notin cancelled
  /\ \/ Moves(Poller, "sleeping") /\ UNCHANGED lockVars
     \/ Connected /\ LockFree /\ HoldAndCall(Poller) /\ UNCHANGED waiters
     \/ Connected /\ ~LockFree /\ Enqueue(Poller)
  /\ UNCHANGED <<pollVars, cancelled, budget, busy, dirty, link, threadVars, life>>

\* A woken waiter of session.exec or _poll_once resumes as the holder.
GrantCall(t) ==
  /\ pc[t] = "queued" /\ IsWoken(t) /\ t \notin cancelled
  /\ waiters' = Tail(waiters)
  /\ HoldAndCall(t)
  /\ UNCHANGED <<pollVars, cancelled, budget, busy, dirty, link, threadVars, life>>

GrantExclusive(o) ==
  /\ pc[o] = "queued" /\ IsWoken(o)
  /\ waiters' = Tail(waiters)
  /\ HoldAndSilence(o)
  /\ UNCHANGED <<budget, dirty, link, threadVars, life>>

-----------------------------------------------------------------------------
\* Transport calls ending.

\* _poll_once goes on to its next sensor without suspending unless someone waits:
\* the lock it has just released is then handed to the head of the queue.
NextSensor ==
  \/ Moves(Poller, "sleeping") /\ holder' = NoTask /\ UNCHANGED waiters
  \/ /\ Connected /\ waiters = <<>>
     /\ Moves(Poller, CallEntry(dirty')) /\ UNCHANGED lockVars
  \/ /\ waiters # <<>>
     /\ Moves(Poller, "queued") /\ holder' = NoTask
     /\ waiters' = Append(waiters, Poller)

\* What t runs when its transport call returns or raises, up to its next await:
\* session.exec leaves the `async with`, a commission goes on under the lock.
Resume(t) ==
  \/ t \in Callers /\ Moves(t, "idle") /\ holder' = NoTask /\ UNCHANGED waiters
  \/ t \in Owners /\ Moves(t, "body") /\ UNCHANGED lockVars
  \/ t = Poller /\ NextSensor

AfterCall == UNCHANGED <<pollVars, cancelled, budget, busy, link, life>>

\* The reply, a traceback, or an exception from the port.
ExecReturns(t) ==
  /\ pc[t] = "exec" /\ t \notin cancelled
  /\ UNCHANGED dirty
  /\ Resume(t)
  /\ AfterCall /\ UNCHANGED threadVars

\* The host watchdog: by the worker's own deadline, or by the wait_for backstop,
\* which leaves the worker behind.  session.exec and _poll_once soft-reset before
\* they release; inside exclusive() that is left to the commission.
ExecTimesOut(t) ==
  /\ pc[t] = "exec" /\ t \notin cancelled
  /\ dirty' = TRUE
  /\ IF t \in Owners \/ ~Connected THEN Resume(t)
                                   ELSE Moves(t, "reset") /\ UNCHANGED lockVars
  /\ wedged' \in {wedged, wedged \cup {t}}
  /\ AfterCall /\ UNCHANGED orphans

\* The resync at the head of SerialBoard.exec: only a prompt clears the bit.
ResyncReturns(t) ==
  /\ pc[t] = "resync" /\ t \notin cancelled
  /\ dirty' = FALSE
  /\ Moves(t, "exec")
  /\ AfterCall /\ UNCHANGED <<lockVars, threadVars>>

ResetReturns(t) ==
  /\ pc[t] = "reset" /\ t \notin cancelled
  /\ dirty' = FALSE
  /\ Resume(t)
  /\ AfterCall /\ UNCHANGED threadVars

\* Mutant of ResetRaises: the exception skips the release of the lock.
ResetRaisesKeepsLock(t) ==
  /\ pc[t] \in {"resync", "reset"} /\ t \notin cancelled
  /\ UNCHANGED dirty
  /\ Moves(t, CASE t = Poller -> "sleeping" [] t \in Callers -> "idle" [] OTHER -> "body")
  /\ AfterCall /\ UNCHANGED <<lockVars, threadVars>>

\* No raw prompt within the deadline: soft_reset raises and the bit stays set.
\* The poller's loop swallows the exception and sleeps.
ResetRaises(t) ==
  /\ pc[t] \in {"resync", "reset"} /\ t \notin cancelled
  /\ UNCHANGED dirty
  /\ IF t = Poller
     THEN Moves(t, "sleeping") /\ holder' = NoTask /\ UNCHANGED waiters
     ELSE Resume(t)
  /\ AfterCall /\ UNCHANGED threadVars

-----------------------------------------------------------------------------
\* The body and the end of exclusive().

\* Mutant of Reaped: poller_was_running is noted after the poller is forgotten.
ReapedNotesLate(o) ==
  /\ pc[o] = "reaping" /\ pc[Poller] \in {"done", "off"}
  /\ pc' = [pc EXCEPT ![o] = "body", ![Poller] = "off"]
  /\ pollerTask' = FALSE
  /\ wasRunning' = [wasRunning EXCEPT ![o] = pollerTask']
  /\ busy' = TRUE
  /\ UNCHANGED <<lockVars, cancelled, budget, dirty, link, threadVars, life>>

\* The cancelled poller has ended: the owner forgets it and starts its body.
Reaped(o) ==
  /\ pc[o] = "reaping" /\ pc[Poller] \in {"done", "off"}
  /\ pc' = [pc EXCEPT ![o] = "body", ![Poller] = "off"]
  /\ pollerTask' = FALSE
  /\ busy' = TRUE
  /\ UNCHANGED <<lockVars, wasRunning, cancelled, budget, dirty, link, threadVars, life>>

BodyCalls(o) ==
  /\ pc[o] = "body" /\ budget[o] > 0
  /\ budget' = [budget EXCEPT ![o] = @ - 1]
  /\ \E at \in {CallEntry(dirty), "reset"} : Moves(o, IF Connected THEN at ELSE "body")
  /\ UNCHANGED <<lockVars, pollVars, cancelled, busy, dirty, link, threadVars, life>>

\* stop_poller's continuation was scheduled when the poller ended, and the event
\* loop runs it before anything the owner does after its own wake-up.
StopperReady == life = "reaping" /\ pc[Poller] \in {"done", "off"}

\* The finally block: release, and start_poller if exclusive() found one running.
Exit(o) ==
  /\ pc[o] = "body" /\ ~StopperReady
  /\ busy' = FALSE
  /\ holder' = NoTask
  /\ IF wasRunning[o] /\ ~pollerTask
     THEN pollerTask' = TRUE /\ pc' = [pc EXCEPT ![o] = "idle", ![Poller] = "new"]
     ELSE UNCHANGED pollerTask /\ Moves(o, "idle")
  /\ UNCHANGED <<waiters, wasRunning, cancelled, budget, dirty, link, threadVars, life>>

-----------------------------------------------------------------------------
\* Cancellation and shutdown.

\* CancelledError is thrown in at the await: the task leaves the queue, or leaves
\* its `async with` and releases the lock, but the worker thread runs on.
CancelLands(t) ==
  /\ t \in cancelled
  /\ cancelled' = cancelled \ {t}
  /\ Moves(t, IF t = Poller THEN "done" ELSE "stopped")
  /\ holder' = IF holder = t THEN NoTask ELSE holder
  /\ \/ t \notin Range(waiters) /\ UNCHANGED waiters
     \/ \E i \in 1 .. Len(waiters) :
          waiters[i] = t /\ waiters' = RemoveAt(waiters, i)
  /\ orphans' = IF pc[t] \in InCall THEN orphans \cup {t} ELSE orphans
  /\ UNCHANGED <<pollVars, budget, busy, dirty, link, wedged, life>>

\* A thread nobody awaits any more ends.
ThreadEnds(t) ==
  /\ \/ t \in orphans /\ orphans' = orphans \ {t} /\ UNCHANGED wedged
     \/ t \in wedged /\ wedged' = wedged \ {t} /\ UNCHANGED orphans
  /\ UNCHANGED <<pc, lockVars, pollVars, cancelled, budget, busy, dirty, link, life>>

\* Mutant of StopDaemon: awaits the task without cancelling it.
StopDaemonNoCancel(d) ==
  /\ life \in {"up", "stopping"}
  /\ pc[d] # "stopped" /\ Daemons \cap cancelled = {}
  /\ life' = "stopping"
  /\ UNCHANGED <<pc, lockVars, pollVars, cancelled, budget, busy, dirty, link, threadVars>>

\* The lifespan's finally block: stop each daemon (cancel, await), then close().
StopDaemon(d) ==
  /\ life \in {"up", "stopping"}
  /\ pc[d] # "stopped" /\ Daemons \cap cancelled = {}
  /\ life' = "stopping"
  /\ cancelled' = cancelled \cup {d}
  /\ UNCHANGED <<pc, lockVars, pollVars, budget, busy, dirty, link, threadVars>>

\* close() calls stop_poller, which cancels WITHOUT taking the lock.
StopPoller ==
  /\ life \in {"up", "stopping"} /\ \A d \in Daemons : pc[d] = "stopped"
  /\ IF pollerTask /\ pc[Poller] # "done"
     THEN /\ life' = "reaping"
          /\ cancelled' = cancelled \cup {Poller}
          /\ UNCHANGED <<pc, pollerTask>>
     ELSE /\ life' = "closing"
          /\ Moves(Poller, IF pollerTask THEN "off" ELSE pc[Poller])
          /\ pollerTask' = FALSE
          /\ UNCHANGED cancelled
  /\ UNCHANGED <<lockVars, wasRunning, budget, busy, dirty, link, threadVars>>

StopPollerReturns ==
  /\ StopperReady
  /\ life' = "closing"
  /\ pollerTask' = FALSE
  /\ Moves(Poller, "off")
  /\ UNCHANGED <<lockVars, wasRunning, cancelled, budget, busy, dirty, link, threadVars>>

\* transport.close() runs in a worker thread of its own, outside the lock.
CloseReturns ==
  /\ life = "closing"
  /\ life' = "closed"
  /\ link' = "closed"
  /\ UNCHANGED <<pc, lockVars, pollVars, cancelled, budget, busy, dirty, threadVars>>

Shutdown == \/ \E d \in Daemons : StopDaemon(d)
            \/ StopPoller \/ StopPollerReturns \/ CloseReturns

CallStep(t) == \/ ExecReturns(t) \/ ExecTimesOut(t)
               \/ ResyncReturns(t) \/ ResetReturns(t) \/ ResetRaises(t)
OwnerStep(o) == GrantExclusive(o) \/ Reaped(o) \/ BodyCalls(o) \/ Exit(o)

Next ==
  \/ \E t \in Callers : Request(t)
  \/ \E o \in Owners : Enter(o) \/ OwnerStep(o)
  \/ PollRound
  \/ \E t \in Callers \cup {Poller} : GrantCall(t)
  \/ \E t \in Tasks : CallStep(t) \/ CancelLands(t) \/ ThreadEnds(t)
  \/ Shutdown

\* Every await ends: a call is bounded by its deadline and its backstop, a reset by
\* its prompt deadline, a woken task is run by the event loop, a sleep expires, and
\* a commission makes finitely many calls.  Nobody has to call in or shut down.
Fairness ==
  /\ \A t \in Tasks : WF_vars(CallStep(t)) /\ WF_vars(CancelLands(t))
  /\ \A t \in Callers \cup {Poller} : WF_vars(GrantCall(t))
  /\ \A o \in Owners : WF_vars(OwnerStep(o))
  /\ WF_vars(PollRound)
  /\ WF_vars(StopPollerReturns) /\ WF_vars(CloseReturns)
  /\ WF_vars(life = "stopping" /\ Shutdown)

Spec == Init /\ [][Next]_vars
FairSpec == Spec /\ Fairness

-----------------------------------------------------------------------------
\* Correctness.

\* The control points of each kind of task, the lock, and the rest of the state.
ControlOK ==
  /\ pc \in [Tasks -> CallerPc \cup PollerPc \cup OwnerPc]
  /\ \A t \in Callers : pc[t] \in CallerPc
  /\ \A o \in Owners : pc[o] \in OwnerPc
  /\ pc[Poller] \in PollerPc

LockOK ==
  /\ holder \in Tasks \cup {NoTask}
  /\ waiters \in Seq(Tasks)

DataOK ==
  /\ pollerTask \in BOOLEAN /\ busy \in BOOLEAN /\ dirty \in BOOLEAN
  /\ cancelled \subseteq Daemons \cup {Poller}
  /\ wasRunning \in [Owners -> BOOLEAN]
  /\ budget \in [Owners -> 0 .. MaxOps]
  /\ link \in {"absent", "open", "closed"}
  /\ orphans \subseteq Tasks /\ wedged \subseteq Tasks
  /\ life \in {"up", "stopping", "reaping", "closing", "closed"}

\* Type invariant of the session's, the lock's and the transport's state.
TypeOK == ControlOK /\ LockOK /\ DataOK

\* A task between the acquire and the release of THE lock.
HoldsLock(t) == pc[t] \in InBody \cup {"reaping"}

\* A task is between the acquire and the release of THE lock exactly when it is
\* the lock's holder: two tasks are never both inside, at shutdown included
\* ("One serial line, one lock (invariant #3)").
LockDiscipline == \A t \in Tasks : HoldsLock(t) <=> holder = t

Writers == {t \in Tasks : pc[t] \in InCall}
Threads == {<<t, "awaited">> : t \in Writers} \cup {<<t, "orphan">> : t \in orphans}

\* Until shutdown begins no cancellation ever leaves a worker thread behind on the
\* wire: exclusive() takes the lock BEFORE it cancels the poller, so the cancel
\* never lands in a transport call.
NoOrphanWhileUp == life = "up" => orphans = {}

\* At most one worker thread is on the wire, unless the lifespan is shutting down
\* or a wedged read has tripped the backstop of SerialBoard.exec.
OneThreadOnTheWire ==
  life = "up" => \A a, b \in Threads : a = b

\* From the moment exclusive() yields until its release there is no poller: no
\* poll can run, wait for the lock or start.
PollerSilenced ==
  \A o \in Owners : pc[o] \in InBody => ~pollerTask /\ pc[Poller] = "off"

\* board.status says busy exactly while some commission has the board to itself.
BusyMeansOwned == busy <=> \E o \in Owners : pc[o] \in InBody

\* SerialBoard never sends code down a line that a timeout left dirty: every exec
\* begins on a clean line whoever dirtied it and however its reset went.
NoCodeOnDirtyLine == \A t \in Tasks : pc[t] = "exec" => ~dirty

\* The poller exclusive() paused is back as soon as no commission holds the board:
\* whatever happened inside, telemetry is not lost before shutdown.
TelemetrySurvives ==
  life = "up" /\ ~(\E o \in Owners : HoldsLock(o)) => pollerTask

Before(q, a, b) == \E i, j \in 1 .. Len(q) : i < j /\ q[i] = a /\ q[j] = b

\* A task that waits for the board is not overtaken: no step puts ahead of it a task
\* that was not ahead of it, newly arrived or not, and nobody but the head of the
\* queue is given the lock.
NoOvertaking ==
  [][/\ \A a \in Range(waiters), b \in Tasks : Before(waiters', b, a) => Before(waiters, b, a)
     /\ holder' # holder /\ holder' # NoTask /\ waiters # <<>>
          => holder' = Head(waiters)]_vars

\* Every task that waits for the board gets it (or is cancelled): "tools and
\* commissions are never starved".
WaiterServed == \A t \in Tasks : pc[t] = "queued" ~> pc[t] # "queued"

\* A paused poller runs again, unless the program shuts down.
TelemetryResumes == ~pollerTask ~> (pollerTask \/ life # "up")

\* Shutdown, once begun, gets to the end: neither a commission on the board nor a
\* wedged worker holds it up for ever.
ShutdownEnds == life = "stopping" ~> life = "closed"

-----------------------------------------------------------------------------
\* The inductive invariant behind the safety properties.

\* There is a poller task exactly while self._poller_task remembers one, and a
\* cancel is pending only for a task that can still be cancelled.
PollerAccounted ==
  /\ pollerTask <=> pc[Poller] # "off"
  /\ Poller \in cancelled => pc[Poller] \notin {"off", "done"}

\* While the program is up only an owner that waits for the poller cancels anything.
OnlyOwnersCancel ==
  life = "up" => /\ cancelled \subseteq {Poller}
                 /\ Poller \in cancelled => \E o \in Owners : pc[o] = "reaping"

\* An owner that silenced the poller remembers it, and while the program is up the
\* poller is missing only on such an owner's account.
SilencerRemembers ==
  /\ \A o \in Owners : pc[o] = "reaping" => wasRunning[o]
  /\ life = "up" /\ ~pollerTask => \E o \in Owners : pc[o] \in InBody /\ wasRunning[o]

\* Inductive: the lock discipline is what makes every other part stable, because a
\* step of the holder then leaves all other tasks outside the lock.
SessionInv ==
  /\ LockDiscipline /\ NoCodeOnDirtyLine
  /\ PollerAccounted /\ PollerSilenced /\ BusyMeansOwned
  /\ OnlyOwnersCancel /\ NoOrphanWhileUp /\ SilencerRemembers

\* Inductive: a task is suspended in acquire() exactly when it is in the lock's queue,
\* and it is there once; no waiter is lost and none is left behind.
QueueInv ==
  /\ \A t \in Tasks : pc[t] = "queued" <=> \E i \in 1 .. Len(waiters) : waiters[i] = t
  /\ \A i, j \in 1 .. Len(waiters) : waiters[i] = waiters[j] => i = j

-----------------------------------------------------------------------------
\* The abstract view: who has the lock, whether its call is on the wire, whether a
\* poller exists, and whether the owner found one running.
Access == INSTANCE BoardAccess WITH
  Sharers <- Callers \cup {Poller},
  Exclusives <- Owners,
  Nobody <- NoTask,
  user <- holder,
  working <- (holder # NoTask /\ pc[holder] \in InCall),
  telemetry <- pollerTask,
  owed <- (holder \in Owners /\ wasRunning[holder])

\* The session's lock, queue, worker threads, cancellations and shutdown together
\* implement the promise of BoardAccess.
ImplementsBoardAccess == Access!Spec
=============================================================================
