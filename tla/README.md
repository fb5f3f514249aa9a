# A verification model of SelfAware

SelfAware is a bench that commissions its own hardware: an LLM agent writes a MicroPython driver for a
sensor or actuator, a static gate judges the text, a board runs it over a serial raw REPL, the host judges the
reading, and a driver that passed becomes a live tool. The backend (`src/backend/selfaware`) is one asyncio
process; everything it does to the board goes over one serial line.

This directory holds TLA+ modules of that backend, TLC configurations that check them on small instances, and
TLAPS proofs of what matters most for every instance.

## 1. Inventory

Concurrency is asyncio's: code between two `await`s is atomic, every await is an interleaving point, a blocking
serial call runs in a worker thread that neither a timeout nor a cancellation stops.

| Part (files under `src/backend/selfaware`) | State | Operations | Interacts with | What is hard | What makes it correct |
|---|---|---|---|---|---|
| **BoardSession** `hardware/session.py` | the lock, the poller task, `busy` | `exec`, `exclusive`, `start_poller`, `stop_poller`, `_poll_loop`, `close` | everything that uses the board | the poller is cancelled and restarted by whoever owns the board; cancellation does not stop a worker thread; FIFO wake-ups | one user of the wire at a time; commissions run in silence; telemetry comes back; nobody starves |
| **SerialBoard** `hardware/serial_board.py` | port, dirty bit, receive buffer | `connect`, `exec`, `soft_reset`, `close` | called by the session; threads | deadline, backstop, resync that may fail | no code on a dirty line; a call always ends |
| **Raw REPL framing** `hardware/raw_repl.py` | token buffer | `feed`, `take_until` | SerialBoard | tokens split across reads | the reply belongs to its own exec |
| **CommissionService** `bringup/service.py` | current task and id, ring of outcomes, memory writes | `enqueue`, `status`, done-callback | WebSocket and REST doors, pollers | done-callback later than task end; second request in that window | single flight; every outcome under its own id |
| **CommissionRunner** `bringup/loop.py`, `agents/author.py` | attempt, last error, last traceback, the author's last draft | `run` | exclusive board, author, gate, registry, OLED, bus | six awaits per attempt, each of which may fail | only verified drivers are admitted; MEDIC sees the failure just before; an honest end |
| **DriverRegistry** `registry/store.py` | records by slug | `register`, `update_code`, `perform_read`, `perform_set`, `as_toolset` | runner, copilot, REST, poller | swap while a call waits for the board | a call runs verified, nearly current code |
| **HistoryStore** `analytics/history.py` | series by slug | bus subscription | bus | order of swap and readings | a series belongs to one device |
| **Health analytics** `analytics/health.py`, `watcher.py` | last verdict by slug | periodic check | history, bus | flapping, too little data | a verdict is announced once |
| **EventBus** `events/bus.py`, **WebSocket** `api/ws.py` | bounded queue per subscriber, sequence | `publish`, `subscribe`, drop-oldest; `hello` rehydration | every component, every client | snapshot versus stream, loss on overflow | a client view converges or sees the gap |
| **CommandRouter / handlers** `events/commands.py`, `api/handlers.py` | chat history by connection | one task per command | service, registry, session, copilot | history read before an await and written after | no lost turn, nothing kept for a closed connection |
| **DiscoveryWatcher** `hardware/watcher.py`, `discovery.py` | known addresses and ports | scan loop, presence diff | session, bus | scans racing commands and shutdown | every arrival and departure told once |
| **OledNarrator** `hardware/oled_narrator.py` | view model, message hold, panel state | event loop, render loop, `say`, `draw_commission` | bus, session, runner | two tasks and a commission drawing on one panel | the screen shows the present state |
| **Gate, plausibility** `bringup/gate.py`, `plausibility.py` | none | pure functions | runner | NaN, ranges of any length, bounds given in any combination | what passes is bounded, and its test reading is in the window |
| **Harness** `bringup/harness.py` | none | payload templates | runner, registry | an output that latches when a call of the driver is broken off | a tested actuator is off once its off call has returned |
| **MemoryClient** `memory/client.py` | down-since | `recall`, `remember` | author, service | reprobe after failure | never blocks or fails anything |
| **Lifespan** `api/app.py` | all of the above | boot, shutdown | all | order of stops, tasks nobody awaits | nothing left on the wire |
| **MCP server** `mcp_server.py` | none | polls REST, calls tools | REST | a poll in the wrong moment; a tool that gives up while its request stays queued | an honest answer; the last word wins |
| Frontend `src/frontend/src` | client view | reducer over events | WebSocket | gaps, stale presences, deltas without a turn id | converges to the server |

`PROJECT.json` lists the hazards of this code at the line where each bites, with the properties that cover it.

## 2. Plan

The order is that of importance: the one serial line first, then who may commission, what a commission does, and what
its result is used for; then what the world is told of it.

| # | Module | State |
|---|---|---|
| A | `BoardAccess` - what the session promises | done |
| B | `BoardSession` - session, transport calls, lock, shutdown; implements A | done, proved |
| C | `CommissionService` - single flight and outcomes | done, proved |
| D | `CommissionRunner` - the loop and the admission gate | done, proved |
| E | `DriverRegistry` - call-time resolution, hot-swap, history | done, proved |
| F | `EventStream` - drop-oldest, subscribe/hello, presence diffing, what a console converges to | done, proved |
| G | `OledNarrator` - event model, views, commission beats, self-healing panel | done, proved |
| H | `SerialLink` - the raw-REPL tokens of a worker thread, late connect, late replies | done, proved |
| I | `StaticGate`, `Plausibility`, `SensorHealth`, composed in `DriverVerdicts` | done, proved |
| J | `CopilotChat` - chat tasks, histories across an await, disconnects, the transcript | done, proved |
| K | `ActuatorControl` - sets, retries and tests of one actuator | done, proved |
| L | `MemoryClient` - degradation and reprobe | open |

What a module takes from another is said in its header: the lock of E and K is the FIFO of B, the verdicts of D are operators of I, a console of J sees what F would deliver.

## 3. Modules

### BoardAccess and BoardSession

`BoardAccess` is the promise: the board has one user; a sharer has it for one call; an exclusive user works only
while telemetry is off and nothing but its own departure ends its turn; telemetry it switched off is on again when
it leaves.

`BoardSession` is the code. A step is what a task runs between two awaits.

| Model | Code |
|---|---|
| `pc[t]` | the await task `t` is suspended at: `queued` in `Lock.acquire`, `resync`/`exec`/`reset` in a transport call, `reaping` in exclusive()'s await of the cancelled poller, `body` in a commission's own code |
| `holder`, `waiters` | asyncio.Lock: who holds it, its FIFO; a woken head takes it only if it is still free |
| `pollerTask`, `wasRunning` | `_poller_task is not None`, exclusive()'s local `poller_was_running` |
| `cancelled`, `CancelLands` | a pending `Task.cancel()`, and the step in which CancelledError is thrown in |
| `orphans`, `wedged` | worker threads that outlive the task that awaited them: by cancellation, by the `wait_for` backstop |
| `dirty`, `link` | SerialBoard's dirty bit; the port never opened, open, closed |
| `life` | the lifespan's shutdown: stop each daemon, stop the poller, close the transport |
| `Request`, `GrantCall`, `ExecReturns`, `ExecTimesOut`, `ResyncReturns`, `ResetReturns`, `ResetRaises` | `session.exec` and `_poll_once` |
| `Enter`, `GrantExclusive`, `Reaped`, `BodyCalls`, `Exit` | `session.exclusive` |
| `PollRound`, `NextSensor` | `_poll_loop`, `_poll_once` |
| `StopDaemon`, `StopPoller`, `StopPollerReturns`, `CloseReturns` | `lifespan`, `DiscoveryWatcher.stop`, `session.close` |

Two simplifications: a waiter whose cancellation is pending still keeps a newcomer out of the lock's fast path until
the cancellation lands (asyncio lets the newcomer in at most one turn of the event loop earlier), and a restart of
the poller after a completed shutdown is kept as the state it leaves, not followed by the loop's own teardown.

### CommissionService

`task` follows each background task from `running` to `done` (asyncio's flag) to `settled` (its callback has run);
requests and polls are served between those. `outcomes` is the ring, `Status` is `status()`, `client` is what the
client that made the request has been told. A callback runs before the first step of a task created after it was
scheduled, which is why `RunEnds` waits for it.

### CommissionRunner

One slug, commissioned again and again. `pc` is the await a run is at. A source is named by the run and the attempt
that wrote it; `verified` remembers what passed on the board, and as which class. `line` remembers who left the
serial line dirty: another caller, the display, the driver under test. `announced` and `stage` are the last lifecycle
and stage events, `record` is the registry's record, `draft` the author's `previous_code`. An exception that leaves
`run()` is one step (`Crashes`) with what the service's callback makes of it; the author, a resync, a reset and a port
that vanishes can raise one. The protocol class is reduced to what
it decides about a tool. With no board (`connected` false) every exec fails with the transport's own words.

### DriverRegistry

One sensor, its versions, and everything that reads it. `Call` is `perform_read` up to the lock, `ReadEnds` from its
reply to the published reading; `Poll` is the poller's equivalent; `Recommission`, `Admit`, `Leave` are a commission as the
registry sees it; `Drain` is the history's handling of one event. The lock is the FIFO that `BoardSession` models in full,
including the poller's cancellation. The values read are left out: a reading is the version that took it.

### EventStream

The bus, one console that follows it, and the two sources of its presence cards. Subscriptions share nothing, so one
console stands for all of them.

| Model | Code |
|---|---|
| `known`, `scan`, `Diff` | the watcher's `_known_addrs`; who holds the board for a scan and what answered; `_diff_i2c` |
| `queue`, `Offer`, `Publish` | `Subscription`, `_offer` (drop-oldest), `EventBus.publish` |
| `Connect`, `SendPresences`, `Forward`, `Disconnect` | `ws_endpoint` to the first await, after it, `_send_loop`, the teardown |
| `UserAsksForScan`, `UserScans`, `UserScanAnnounces` | `cmd.board_scan` and `POST /api/board/scan` |
| `Receive`, `Shown` | the store's `applyEvent` (`dispatch.ts`): presences and driver card |
| `received`, `dropped`, `strays` | history: the last number received, an overflow, cards the watcher will never take down |

`strays` names the ghosts: a device that only a user's scan has seen, or that was gone when the console came back, is
never reported lost.

### OledNarrator

`inbox` is the narrator's subscription, `model` its `NarratorModel`, `view`, `message` and `timers` the choice of the
next frame; `initialized`, `absent`, `lastPayload` are the three flags both drawers share. An exec is one step, with the
branch its caller takes when it resumes: `InitOk`, `DrawOk`, `NameError` (a soft reset has wiped `_oled`: init and draw
once more), `DrawFails`, `DrawTimesOut`. `Consume`, `Render` (with `Choose`) and `Tick` are the consumer task, one
round of `_maybe_render` and the clock; `doing` is the await its render loop is at; `CommissionBeat` publishes a stage and runs `draw_commission` in
the session the commission holds. A frame is one of a few cards; what the panel shows is kept apart from
what the narrator believes.

### SerialLink

Both directions of the line as lossless FIFOs of tokens, with a board that answers when it likes. `rx` is the
`RxBuffer`, `coming` the port's input, `tx` what the board has yet to read. `Opens` to `DialTimesOut` are connect's worker
thread, which may outlive the wait for it (`GivesUp`); `ExecStarts`, `Pumps`, `ExecReturns`, `ExecTimesOut` are the byte
dance; `ResetStarts`, then one step for each write of the reset's thread (`Breaks`, `Leaves`, `Restarts`, `Stops`, `Reenters`; it
sleeps in between, and connect's thread may write), `ResetReturns` and `ResetRaises` the resync; `PortRaises` a SerialException.
`doubted` remembers that a call has raised, or that connect's Ctrl-A came between a reset's Ctrl-B and Ctrl-D, until a resync is
answered by a board that has caught up. A token carries the exec it stems from, which the program cannot see: `reply` and `barred` are stated with it. The
board (`Says` to `Chatters`) is MicroPython's REPL as the host relies on it, and external.

### StaticGate, Plausibility, SensorHealth, DriverVerdicts

Three modules of pure operators and one that composes them. `StaticGate` judges the record of what `ast.walk` finds in a
program (imports, calls, attributes, loops, ADC constructions, the methods of class Driver); `Plausibility` judges
what a test read printed, by class, with NaN as a value of its own; `SensorHealth` is the score of a series in integer
arithmetic: staleness, variance, railing, drift, status and trend. Values are counted in steps, and `DriftFloor` is the absolute
1e-9 of `health.py:170` in those steps: the one threshold that depends on the driver's unit. `DriverVerdicts` drafts, gates, judges and admits
(`Draft`, `Gate`, `Judge`, `Admit`, `Recover`), lets the admitted driver report (`Passes`, `Reads`) and the watcher
assess it (`Assess`), with a console that connects in between (`Connect`).

### CopilotChat

`turns` are the chats dispatched: `queued` (a task not started), `asking` (awaiting the model), `answered` (the stream is
over, its history not yet stored), `stored`, `unavailable`, `crashed`. `Begin` reads the history, `Store` writes what it
read and its own turn; `Says` and `Answered` are the broadcast events, which every console folds into one open bubble
(`streaming`, `message`). `Connect` and `Drop` are the two ends of a socket as the console sees them: its store survives, and `hello` restates
nothing of the chat, so an open bubble is carried to the next connection (`leftover`). `Hangup` and `Forget` are the two halves
of a disconnect on the server, which keeps a connection without a console open until it notices. The questions and answers are reduced to
the turn they belong to. An unknown command or a frame that does not parse is one error event and left out.

### ActuatorControl

One actuator. `line` is the session's lock with its queue, `phase` where the holder's payload is; `output` is what the
driver was told last by a `set()` that returned, `Unsure` when a call was broken off since (the pin cannot be seen from the
host). `Ask` is `perform_set` up to the lock, `GiveUp` the ten-second time-out of the MCP server's HTTP client, `Starts`
to `ResetRaises` the payload on the board with its `except` (a set) or `finally` (a test), `Reports` and `Judges`
what the host makes of it. `tested` says how far the last test came: whether it called `set()`, and whether its `set(0)` failed to return. `card` is the console's `lastReading`, which takes `level` whether or not `ok`. That a
call resolves its driver before it waits is `DriverRegistry`'s.

## 4. Runs

| Run | Shows |
|---|---|
| `session_safety` | two callers (one of them a daemon), the poller and two commissions with up to two calls each: the lock, the wire, the dirty bit, telemetry and the queue order through timeouts, failed resets, cancellations and shutdown; and the refinement of `BoardAccess` |
| `session_liveness` | one commission: every waiter is served, telemetry resumes, shutdown ends |
| `service` | three requests and a ring of two: single flight, honest outcomes, the ring, and an answer for a client that polls |
| `runner` | three commissions of one slug with the shipped budget of four attempts: the admission gate, what a repair and a failure report say, the registry, and the end of every commission |
| `runner_terminal` | refuted: a crashed run sends neither `commission.passed` nor `commission.failed` |
| `registry` | two tool callers, the poller, three versions, a series of three: what a hot-swap may and may not be seen to do |
| `stream` | a console that connects twice, over a queue of two: order, completeness without overflow, agreement once caught up, and every device that stays is shown |
| `narrator` | one commission, one message, two faults: what the narrator believes it drew is on the panel, the panel catches up, the card comes down |
| `serial` | three execs, a reset, a fault, a boot program that chatters and a late connect: replies belong to their exec, a clean line is in step, code from before a resync does not run after it |
| `verdicts` | generated programs, test readings and series of up to six: admitted means bounded and in range; status and trend never contradict; silence is caught; the unit does not matter, but for the absolute floor under drift |
| `chat` | three chats, one crash, a console that loses its connection and comes back on another: which turns may be lost, and whose words a message holds |
| `actuator` | two clients, four sets, two commissions: the last word wins, and a test whose off call returned leaves the actuator off |

### Bounds

* `session_*`: `MaxOps` transport calls per commission (one that fails and one that must cope with it), two commissions
  (one to restart what the other stopped), two callers (one to overtake the other).
* `service`, `runner`: a ring smaller than the number of requests; three runs (first, middle, last) at the shipped budget.
* `registry`: three versions and two tools (a call one swap behind is legal, two is not); `MaxEvents` bounds how far the
  history lags.
* `stream`: a queue of two and a wire of one, so that one burst overflows it; a device that comes, goes and comes back; two
  connections, so that the second finds the remains of the first.
* `narrator`: every duration is one tick, hence each expires beside each other one; two faults (one to hurt, one while healing).
* `serial`: three execs (one late, one that resyncs, one after it); what a late connect() does to a reset shows with one reset and no exec.
* `verdicts`: the windows and thresholds of `health.py` are constants, shrunk so that series of up to six points cross each;
  `HealthAssumption` states the relations between them that the shipped values satisfy. With `DriftFloor` 2 there are shifts within the
  floor and beyond it, in the one unit and in the tripled one. In
  this instance drift never fires without railing, and the variance score is 1.0 whenever it fires.
* `chat`: three turns (two that overlap and one that follows), and one console with two connections, so that it comes back once;
  consoles share nothing but the server. `actuator`: four sets, so that each client may give up once and ask again.

Deadlock is checked in the session, registry, stream and narrator runs; the others end when their bounded inputs are used
up. Symmetry is used only in runs without liveness.

### Fairness

Every await ends. A transport call is bounded by its deadline and the backstop (`serial_board.py:147`), a soft reset by its
prompt deadline (`:238`), a woken task and a scheduled callback are run by the event loop, the author by its request limit.
No request, commission or shutdown has to happen. `BoardSession` lets a commission make finitely many calls;
`CommissionEnds` shows that in turn for the loop that makes them. In `stream` the watcher, the sender, the socket and the
reconnect timer go on; `WatcherDiffs` is strongly fair, since a scan that is repeated for ever succeeds again and again
(an outage that never ends is outside `PluggedIsShown`). In `narrator` the consumer, the render loop and the clock go on, an exec
returns, and a commission that has started ends (`CommissionLeaves` is strongly fair because its beats disable it in between).

### Disagreements between the code and what is said of it

`runner_terminal` refutes `service.py:92-95`; its entry under "findings" quotes the line. An author that raises ends the commission with
`system.error` alone: the console copes (`dispatch.ts:89-105` makes `commission_crash` a failure), the narrator's model stays in the
commission. The following are in the models and hazards, without a run. Three of them are what a property exempts by name:

* `doubted` of `CleanLineIsSynced`, `ReplyIsOwn` and `StaleCodeNeverRuns`. `soft_reset` is said to clear the dirty bit "only on a successful
  re-sync" (`serial_board.py:215`), and looks at the port alone, so it may run beside the thread of a connect() that was given up on. If that
  thread's Ctrl-A (`:126`) falls between the reset's Ctrl-B and Ctrl-D (`:229-231`), the Ctrl-D is read in raw mode and three banners come for
  two readers: the dirty bit is cleared on one of the first two, with the third still to come, and a later resync may take it for its own.
* `leftover` of `MessageIsOneAnswer`. "system.hello rehydrates state on reconnect, so drops are safe" (`bus.py:7`), but `hello`
  (`dispatch.ts:57`) restates nothing of the chat: when the socket drops in mid-answer and its done is missed, the next answer is appended to the open
  bubble and both become one message.
* `"broken"` of `TestLeavesOff`. The payload of a test has "a guaranteed-off path" (`harness.py:34`), which is the draft's own `set(0)`:
  when that raises, or the second Ctrl-C of the soft reset breaks off the `finally` of a call that hung, nothing turns the
  actuator off, and the commission goes on to its next draft or fails.

The others:

* A commission that outlives `close()` restarts the poller (`session.py:170`; `app.py:198` and `tests/test_session.py:129` expect it gone), and
  stopping the watcher does not drain its scan's worker thread (`watcher.py:46`).
* `session.exec` may release the lock on a dirty line when the reset after a timeout fails (`session.py:129` says "always" clean); the
  next exec resyncs, which `NoCodeOnDirtyLine` shows. A reset of a *clean* line that times out leaves the dirty bit
  false with its own bytes on the line (`serial_board.py:214`), which is why `CleanLineIsSynced` excludes `doubted`.
* Drift has an absolute floor where everything else in the score is relative: a shift of up to 1e-9 of whatever unit the driver reports
  in is none (`health.py:170`), so that a sensor which reports in a coarse unit never drifts.
* A poll between a task's end and its callback is answered 404 (`service.py:119`, `rest.py:231`).
* A slug commissioned again as another class keeps its old class and tool (`loop.py:329`), and a read that waited through a
  re-commission lands in the new driver's history (`history.py:97`).
* A hung display can crash a commission through the resync it makes necessary (`loop.py:360`); without a board, the transport's own text
  is published as the board's verbatim traceback (`docs/event-protocol.md:61`).
* `say()` returning true does not mean that the render loop shows the message (`oled_narrator.py:338`): the card of a commission that raised stays in front of it.
* A console that was away keeps the presence card of a device that left meanwhile (`watcher.py:80`).
* `len()` of a range longer than `sys.maxsize` raises out of the gate (`gate.py:175`); a loop inside a comprehension is no `for`
  statement and escapes `check_bounded_for`; NaN passes every comparison (`plausibility.py:61`), and a driver that reports
  nothing else stays "unknown". A sensor with two values is always "railed".
* Two chats of one connection that overlap lose a turn (`handlers.py:116`), a chat that outlives its connection leaves a history nobody
  drops (`ws.py:124`), and `agent.message` has no turn id, so that concurrent answers share one bubble (`dispatch.ts:348`).
* "output forced back to 0" (`store.py:179`) does not hold when `Driver()` raises outside the try, when `set(0)` raises, when a
  time-out's KeyboardInterrupt passes `except Exception`, or when there was no board. When the reset after the time-out raises,
  `perform_set` publishes nothing. A card takes the level of a failed set (`dispatch.ts:416`), and `hello` gives the level of
  the commission's test, not the one set since.

## 5. Proofs

`BoardSessionProofs` proves, for any sets of callers, daemons and owners and any bound:

* `TypeCorrect`: `TypeOK`.
* `SessionCorrect`: `SessionInv`, the inductive invariant. The lock discipline alone is inductive over the lock's steps; the rest is not
  without its companions: `PollerSilenced` needs to know that a poller exists exactly when `_poller_task` remembers one (`PollerAccounted`), that
  only an owner waiting for the poller cancels it while the program is up (`OnlyOwnersCancel`), and `TelemetrySurvives` that an owner which
  silenced the poller remembers to restart it (`SilencerRemembers`).
* `MutualExclusion`, `CommissionsInSilence`, `CleanExec`, `OneThread`, `TelemetryReturns`: the corresponding invariants of the runs.
* `WaitersAccounted`, `FirstComeFirstServed`: nobody overtakes in the lock's queue (`NoOvertaking`). `QueueInv` says why: who waits is in
  the queue, and once, so that each step takes at most one waiter out of it and adds at most one behind all others.
* `Implementation`: `Spec => Access!Spec`, by mapping each action to a step of `BoardAccess` or a stutter.

`CommissionProofs` is about a commission from the door that asks for it to the panel that shows it: it extends the service, the runner
and the narrator, which is why the specifications of the first and the last have prefixed names (`ServiceSpec`, `NarratorSpec`).

For the service it proves `ServiceTypeOK`, `SingleFlight` and `OutcomesHonest`, for any set of requests and any ring size. The inductive
`ServiceInv` adds that only the current commission runs and that an id names one task; two lemmas say what `RecordOutcome` does to the ring.
`RecentlySettledIsKnown`, what a status query finds, follows from `RingRemembers`: the outcome of a settled commission is in the ring
unless the ring is full, since one leaves only to make room.

For the runner it proves `TypeOK`, `AdmissionGate`, `RepairKnowsWhy`, `HonestFailure`, `PassMeansLive` and `DriverOnlyImproves` for any
attempt budget, any number of commissions and any set of classes. The inductive `RunnerInv` says at each await what the run knows: how
much of the budget is used (`BudgetKept`, which the types of drafts and errors rest on), which failure and draft the next repair is given (`WhyKept`,
`DraftKept`), whose traceback is the latest (`TracebackKept`), and whose source is registered (`RecordKept`). One lemma treats each kind of step:
a start, the head of the loop, a failed attempt, a pass, and the steps that only move on or crash.

For the narrator it proves `NarratorTypeOK` and `PanelShowsLastPayload`, for any timers, any inbox and any number of faults. The second is
inductive by itself: an init and a message clear the memory of the last payload, a panel found missing ends `_initialized`, and a payload
is remembered only by the step that has drawn it. So a frame that `oled_narrator.py:397` coalesces away is the one the panel shows, or
the panel has lost its power, or a draw that timed out has torn it. The type invariant says what the
choice of a frame relies on: a drawer that is under way has a card to draw.

`DriverVerdictsProofs` proves `TypeOK`, `BlessedIsSound`, `ConsoleAgrees`, `SilenceIsCaught`, `VerdictsAgree` and
`UnitsDoNotMatter`, for any programs, specs, samples, windows and thresholds within the named assumptions, and series of any length:

* `VerdictInv` says what the judges know of the draft under trial and that what the watcher has scored,
  and pushed to a console, is of the series as it stands. The invariants of the runs follow from it.
* `BlessedIsSound`: the gate's arithmetic on the arguments of `range` is the number of iterations that a count one by one finds
  (`IterationsCounted`), for a `range` of one, two or three arguments. It needs `ProgramAssumption`, that an integer literal of Python has no sign.
* `SilenceIsCaught`: the middle of the gaps, a k-th smallest value or the mean of two, lies between gaps of the series (`RankedIsThere`,
  `MedianOfGaps`), so that a silence beyond the stale factor times all of them is stale, and one within it for all of them is not.
* `VerdictsAgree`: a signal that fires at all scores at least as degrading (`SignalsRisk`), so a named signal is never healthy, and the
  trend is no worse than the signals it looks at. For railing that rests on `RailAssumption`: what counts as railed, 6 of the last 10, already
  scores as degrading. Were `RAIL_COUNT_THRESHOLD` 3, a sensor could be called railed and healthy at once.
* `UnitsNeverMatter` is more than the run can check: each whole factor but zero and each shift leaves variance and railing of every series
  as they were, and the drift but for a series whose shift was within the absolute floor and that the finer unit lifts over it (`SameInUnit`;
  the exception is the code's). What a change of unit does to sums, spreads and extremes are lemmas of their own (`ScaledTotal` to
  `ScaledRailing`); it swaps the edges when the factor is negative, and cancels from the comparisons of sigmas. The sums are recursive
  functions, so what they compute is proved by least counterexample.

`ActuatorControlProofs` proves `TypeOK`, `LastWordWins` and `TestLeavesOff` for any set of clients, any levels and any number of sets and
commissions. `TestLeavesOff` is about the tests whose `set(0)` returned; of the others nothing of the kind holds. The
inductive `ActuatorInv` relates the queue to the numbers of the requests (`QueueInOrder`: those that wait are in order and
newer than the last one served, and the newest of all waits or was served), says what the holder's turn implies (`TurnKept`: a set
under way is not yet ok, and forces 0 only because it raised), and generalises the two properties to the states between two
turns (`WordKept`, `OffKept`), where they alone are not inductive. Lemmas of their own treat what
joins the queue, leaves it or starts its turn, and what a reply does to the report.

`DriverRegistryProofs` proves `TypeOK`, `StaleByAtMostOneSwap`, `PollerRunsRegistered` and `HistoryAtMostOneSwapBack` for any set of
tools, any number of versions and any capacity of the series. `RegistryInv` has three parts. `LockKept`: who waits is in the queue,
once, and who holds the lock is not. `CallsKept`: a call has resolved the registered source, or the one before it and then no
commission is in front of it in the queue, so that a second swap cannot overtake it; the poller resolves what it holds the lock to run.
`HistoryKept` follows the bus' queue with an account of the source that is in force at each of its places, and
ties the last of them to the record and the first to the series: the history may lag by any number of events, but the readings
on the way are already in an order that mixes at most two drivers.

`CopilotChatProofs` proves `TypeOK`, `ConversationIsKept` and `MessageIsOneAnswer` for any sets of consoles and connections and any number of
chats, words, crashes, disconnects and reconnections. `TurnsKept` carries the rest: chats start in the order of their dispatch, two that are
in flight have met, and one that a close overtakes is late. With it, `HistoriesKept` says that what is stored and what a chat in flight has
read are conversations that lack only what met them or is lost already, and `BubblesKept` that an open bubble without leftovers belongs to
a console that is connected and to chats that are being answered, so that a chat which met no other has the bubble of each console that
was there from its beginning to itself. A console whose bubble was carried over a reconnection is outside the theorem until its next
message, which may hold both answers' words, has closed that bubble.

`EventStreamProofs` proves `TypeOK`, `StreamIntact` and `CaughtUpConsoleAgrees` for any finite set of addresses (those of an I2C bus), any size of
the queue and of the wire, and any number of publications. What the console has yet to see is the wire followed by the queue; a publication appends
to it and gives up the oldest of the queue, `SendPresences` inserts the known devices, `Receive` takes the head. `StreamInv` says of
that sequence what the two properties say of its end: `hello` comes first (`HelloFirst`), the numbers behind it are those since the last
one received, with a gap only after an overflow (`NumbersKnown`), and a card that a device or the driver gets is the last word on it from any place on
(`PresencesKept`, `CardsKept`, through `UpAfter`). One diff publishes a notice for each device that came or went, in an order the code
leaves to a set; its offers are one recursive function, `Offered`, and what it does to the queue (`OfferedPlaces`) is
proved by least counterexample, since the library's induction theorems cannot be used here.

`SerialLinkProofs` proves `TypeOK`, `ReplyIsOwn`, `CleanLineIsSynced` and `StaleCodeNeverRuns` for any number of execs, resets, faults
and printed tokens. What has left the board and nobody has taken (`rx`, `coming` and `saying` in a row, `ToCome`) is held
against what the board has yet to read (`tx`). A read or a written token leaves `ToCome` as it is, the REPL appends to
it, the worker threads cut it at its head. The requests for the raw prompt in `tx` and the raw prompts in `ToCome` are counted together against
the threads that wait for one (`PromptsAwaited`); with `LineInStep` - the last request ends `tx`, or the board is at the raw prompt and has said
so after all its other answers - a line that owes nothing is `Synced`: raw mode, idle, nothing to read, only prompts to come. `ModeKept`
says why doubt ends when a resync is answered. `ResetsAreFriendly` says that between a reset's Ctrl-B and its Ctrl-D, two writes with a sleep
between them, nothing but interrupts is sent, so that the Ctrl-D gives no raw prompt: the one who could send more is the thread of a connect() that was given
up on, and a line on which its Ctrl-A came there is doubted. The other crossings of the two threads need no exemption.
`ExecKept` says what a waiting exec still has before it at each of its steps, and `CodeIsFresh` that no code on
its way belongs to an exec that is over. That a first marker exists in a line that holds one is a lemma by the least number.

The assumptions are those of the constants, named in the modules that declare them. The type invariants and the
inductive invariants of the proved modules were checked with TLC before they were proved; the runs do not repeat them.

Only model-checked: the liveness properties (`WaiterServed`, `TelemetryResumes`, `ShutdownEnds`, `PollerIsAnswered`, `CommissionEnds`,
`PluggedIsShown`, `PanelCatchesUp`, `CardComesDown`), which are out of the prover's reach. Every invariant and every action property of the
passing runs is the subject of a theorem, for every value of the constants.

## 6. Not modelled

* `MockBoard`: a simulator for demos and tests behind the interface of `SerialBoard`.
* `MemoryClient`: optional; every failure is the empty answer, and no other part depends on one.
* Configuration, observability, templates, prompts, payload classes, the OLED's layout and most of the frontend: text and presentation.
* The MCP server's other tools and the REST API's other doors: one call of a modelled component each.
* The language model: a nondeterministic author (`CommissionRunner`) and copilot (`CopilotChat`).

"components" in `PROJECT.json` says of each part what is modelled where.
