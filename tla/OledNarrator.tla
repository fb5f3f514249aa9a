----------------------------- MODULE OledNarrator -----------------------------
(***************************************************************************)
(* The OLED narrator (hardware/oled_narrator.py): a consumer mirrors the   *)
(* bus in a small model, a render loop draws what the model says through   *)
(* session.exec, and a commission draws its own beats through the handle   *)
(* of the session it holds.  Both drawers share `_initialized`, `_absent`  *)
(* and `_last_payload`, and heal what a soft reset or a missing panel did. *)
(*                                                                         *)
(* An exec is one step: what it does to the board and what its caller does *)
(* when it resumes.  A drawer waits before it, with the payload and the    *)
(* branch it chose then.  A tick is one period of the render loop; a turn  *)
(* of the event loop and an exec on a free wire take less.                 *)
(***************************************************************************)
EXTENDS Naturals, Sequences

CONSTANTS RotateTicks,     \* oled_rotate_s
          CardTicks,       \* oled_rotate_s * 1.5: how long an outcome stays
          HoldTicks,       \* hold_s of say()
          RetryTicks,      \* the 30 s of _mark_absent
          MaxCommissions,  \* bound: commissions
          MaxSays,         \* bound: messages
          MaxFaults,       \* bound: soft resets, time-outs, plugs of the panel
          MaxInbox         \* bound: events published and not yet consumed

ASSUME TicksAssumption ==
  {RotateTicks, CardTicks, HoldTicks, RetryTicks} \subseteq Nat \ {0}
ASSUME InboxAssumption == MaxInbox \in Nat

VARIABLES
  attached,     \* the panel answers on the I2C bus
  panel,        \* what it shows: "off" until an init, then "blank" or a frame
  oled,         \* the interpreter has the global `_oled`
  inbox,        \* the narrator's subscription
  model,        \* NarratorModel
  view,         \* _view, the cursor of the rotation at rest
  message,      \* _message # None
  timers,       \* what is left of the rotation, the card, the message, the backoff
  initialized, absent,
  lastPayload,  \* _last_payload, "none" for None
  due,          \* the render loop's sleep is over
  doing,           \* what each drawer is about to execute
  payload,      \* with which frame
  comm,         \* the commission
  spent,        \* how much of each bound is used
  torn,         \* history: the last draw timed out
  crashed       \* history: a commission raised

flags == <<initialized, absent, lastPayload>>
board == <<attached, panel, oled, torn>>
face == <<model, view, message>>
narratorVars == <<board, inbox, face, timers, flags, due, doing, payload, comm, spent, crashed>>

Drawers == {"render", "commission"}

\* The narrator starts last, on a board that connected before it subscribed (app.py:95, 182).
NarratorInit ==
  /\ attached \in BOOLEAN /\ panel = "off" /\ oled = FALSE
  /\ inbox = <<>>
  /\ model = [connected |-> FALSE, busy |-> FALSE, active |-> FALSE, stage |-> "none", outcome |-> "none"]
  /\ view = "agent" /\ message = FALSE
  /\ timers = [rotate |-> 0, card |-> 0, message |-> 0, retry |-> 0]
  /\ initialized = FALSE /\ absent = FALSE /\ lastPayload = "none"
  /\ due = TRUE
  /\ doing = [d \in Drawers |-> "sleep"] /\ payload = [d \in Drawers |-> "none"]
  /\ comm = "none"
  /\ spent = [comms |-> 0, says |-> 0, faults |-> 0]
  /\ torn = FALSE /\ crashed = FALSE

Spend(what, bound) == spent[what] < bound /\ spent' = [spent EXCEPT ![what] = @ + 1]
Fault == Spend("faults", MaxFaults)

Publish(events) == Len(inbox) + Len(events) <= MaxInbox /\ inbox' = inbox \o events

\* ----------------------------------------------------------- the bus consumer
\* Mutant of Applied: a commission that fails keeps its card.
AppliedNoFailure(m, e) ==
  CASE e \in {"busy", "idle"} -> [m EXCEPT !.connected = TRUE, !.busy = e = "busy"]
    [] e = "started"          -> [m EXCEPT !.active = TRUE, !.stage = "none", !.outcome = "none"]
    [] e = "working"          -> [m EXCEPT !.active = TRUE, !.stage = e]
    [] e = "passed"           -> [m EXCEPT !.active = TRUE, !.outcome = e]
    [] OTHER                  -> m

\* NarratorModel.apply; board.status says that the board is connected, and whether busy.
Applied(m, e) ==
  CASE e \in {"busy", "idle"}     -> [m EXCEPT !.connected = TRUE, !.busy = e = "busy"]
    [] e = "started"              -> [m EXCEPT !.active = TRUE, !.stage = "none", !.outcome = "none"]
    [] e = "working"              -> [m EXCEPT !.active = TRUE, !.stage = e]
    [] e \in {"passed", "failed"} -> [m EXCEPT !.active = TRUE, !.outcome = e]

Consume ==
  /\ inbox # <<>>
  /\ model' = Applied(model, Head(inbox))
  /\ inbox' = Tail(inbox)
  /\ timers' = IF Head(inbox) \in {"passed", "failed"} THEN [timers EXCEPT !.card = CardTicks] ELSE timers
  /\ UNCHANGED <<board, view, message, flags, due, doing, payload, comm, spent, crashed>>

\* cmd.board_scan publishes the status of the board; one more says nothing new.
BoardScan ==
  /\ inbox = <<>> /\ Publish(<<IF comm \in {"inside", "passed"} THEN "busy" ELSE "idle">>)
  /\ ~model.connected
  /\ UNCHANGED <<board, face, timers, flags, due, doing, payload, comm, spent, crashed>>

\* ----------------------------------------------------------- _draw and _init
\* A drawer inside _draw: the guard of the backoff, then init or the frame itself.
Begin(d, frame) ==
  IF absent /\ timers.retry > 0
  THEN UNCHANGED <<doing, payload>>
  ELSE /\ doing' = [doing EXCEPT ![d] = IF initialized THEN "draw" ELSE "init"]
       /\ payload' = [payload EXCEPT ![d] = frame]

HoldsBoard == comm \in {"inside", "passed"}
MayExec(d) == doing[d] # "sleep" /\ (d = "render" => ~HoldsBoard)

Goto(d, label) == doing' = [doing EXCEPT ![d] = label]

MarkAbsent ==
  /\ absent' = TRUE /\ initialized' = FALSE
  /\ timers' = [timers EXCEPT !.retry = RetryTicks]
  /\ UNCHANGED lastPayload

\* Mutant of InitDone: the frame of before the init passes for the one on the panel.
InitDoneKeepsFrame == initialized' = TRUE /\ absent' = FALSE /\ UNCHANGED lastPayload

InitDone == initialized' = TRUE /\ absent' = FALSE /\ lastPayload' = "none"

\* _init: the payload builds `_oled` and clears the panel.
InitOk(d) ==
  /\ doing[d] \in {"init", "reinit"} /\ MayExec(d) /\ attached
  /\ panel' = "blank" /\ oled' = TRUE /\ torn' = FALSE
  /\ InitDone
  /\ Goto(d, IF doing[d] = "init" THEN "draw" ELSE "redraw")
  /\ UNCHANGED <<attached, inbox, face, timers, due, payload, comm, spent, crashed>>

\* No panel, or a time-out: absent for a while.
InitFails(d) ==
  /\ doing[d] \in {"init", "reinit"} /\ MayExec(d)
  /\ \/ ~attached /\ UNCHANGED <<oled, spent>>
     \/ Fault /\ oled' \in {FALSE, oled}
  /\ MarkAbsent
  /\ Goto(d, "sleep")
  /\ UNCHANGED <<attached, panel, torn, inbox, face, due, payload, comm, crashed>>

\* A panel that has lost its power takes the frame and stays dark.
DrawOk(d) ==
  /\ doing[d] \in {"draw", "redraw"} /\ MayExec(d) /\ attached /\ oled
  /\ panel' = IF panel = "off" THEN "off" ELSE payload[d]
  /\ lastPayload' = payload[d] /\ torn' = FALSE
  /\ Goto(d, "sleep")
  /\ UNCHANGED <<attached, oled, inbox, face, timers, initialized, absent, due, payload, comm, spent, crashed>>

\* Mutant of NameError: a lost `_oled` counts as a missing frame.
NameErrorIgnored(d) ==
  /\ doing[d] \in {"draw", "redraw"} /\ MayExec(d) /\ ~oled
  /\ Goto(d, "sleep")
  /\ UNCHANGED <<board, inbox, face, timers, flags, due, payload, comm, spent, crashed>>

\* `_oled` is gone: a soft reset wiped it.  Init and draw once more, no further.
NameError(d) ==
  /\ doing[d] \in {"draw", "redraw"} /\ MayExec(d) /\ ~oled
  /\ initialized' = (initialized /\ doing[d] = "redraw")
  /\ Goto(d, IF doing[d] = "draw" THEN "reinit" ELSE "sleep")
  /\ UNCHANGED <<board, inbox, face, timers, absent, lastPayload, due, payload, comm, spent, crashed>>

\* The I2C write fails; the second draw of a re-init fails silently.
DrawFails(d) ==
  /\ doing[d] \in {"draw", "redraw"} /\ MayExec(d) /\ oled /\ ~attached
  /\ IF doing[d] = "draw" THEN MarkAbsent ELSE UNCHANGED <<flags, timers>>
  /\ Goto(d, "sleep")
  /\ UNCHANGED <<board, inbox, face, due, payload, comm, spent, crashed>>

\* The watchdog cuts the exec, before or after the panel has the frame; session.exec
\* soft-resets the board, the commission's handle does not.
DrawTimesOut(d) ==
  /\ doing[d] \in {"draw", "redraw"} /\ MayExec(d) /\ Fault
  /\ panel' \in {panel, IF attached /\ oled /\ panel # "off" THEN payload[d] ELSE panel}
  /\ torn' = TRUE
  /\ oled' = (oled /\ d = "commission")
  /\ Goto(d, "sleep")
  /\ UNCHANGED <<attached, inbox, face, timers, flags, due, payload, comm, crashed>>

\* ----------------------------------------------------------- the render loop
CardShown == model.active /\ (model.outcome = "none" \/ timers.card > 0)
MessageShown == message /\ timers.message > 0
Turns == timers.rotate = 0
Turned == IF view = "agent" THEN "telemetry" ELSE "agent"

CurrentView ==
  IF CardShown THEN "agent"
  ELSE IF MessageShown THEN "message"
  ELSE IF Turns THEN Turned ELSE view

\* _frame: which card is drawn; its wording is left out.
Frame(m, v) ==
  IF v # "agent" THEN v
  ELSE IF ~m.active THEN "rest"
  ELSE IF m.outcome # "none" THEN m.outcome
  ELSE IF m.stage # "none" THEN m.stage ELSE "started"

Wanted == Frame([model EXCEPT !.active = CardShown], CurrentView)

\* _current_view also ends the card, forgets the message and turns the rotation.
Choose ==
  /\ model' = [model EXCEPT !.active = CardShown]
  /\ message' = (message /\ (CardShown \/ MessageShown))
  /\ IF CardShown \/ MessageShown \/ ~Turns
     THEN UNCHANGED <<view, timers>>
     ELSE view' = Turned /\ timers' = [timers EXCEPT !.rotate = RotateTicks]

\* _maybe_render, woken: no board or busy, nothing changed, or a draw.
Render ==
  /\ due /\ due' = FALSE
  /\ doing["render"] = "sleep"
  /\ IF ~model.connected \/ model.busy
     THEN UNCHANGED <<face, timers, doing, payload>>
     ELSE /\ Choose
          /\ IF Wanted = lastPayload /\ initialized /\ ~absent
             THEN UNCHANGED <<doing, payload>>
             ELSE Begin("render", Wanted)
  /\ UNCHANGED <<board, inbox, flags, comm, spent, crashed>>

Less(n) == IF n = 0 THEN 0 ELSE n - 1

Tick ==
  /\ inbox = <<>> /\ ~(due /\ doing["render"] = "sleep")
  /\ \A d \in Drawers : ~MayExec(d)
  /\ due' = (doing["render"] = "sleep")
  /\ timers' = [t \in DOMAIN timers |-> Less(timers[t])]
  /\ UNCHANGED <<board, inbox, face, flags, doing, payload, comm, spent, crashed>>

\* say(): refused only while the panel counts as absent.
Say ==
  /\ ~absent /\ Spend("says", MaxSays)
  /\ message' = TRUE
  /\ timers' = [timers EXCEPT !.message = HoldTicks]
  /\ lastPayload' = "none"
  /\ UNCHANGED <<board, inbox, model, view, initialized, absent, due, doing, payload, comm, crashed>>

\* ------------------------------------------------------------- the commission
CommissionStarts ==
  /\ comm = "none" /\ Spend("comms", MaxCommissions)
  /\ Publish(<<"started">>) /\ comm' = "asked"
  /\ UNCHANGED <<board, face, timers, flags, due, doing, payload, crashed>>

CommissionEnters ==
  /\ comm = "asked" /\ comm' = "inside"
  /\ Publish(<<"busy">>)
  /\ UNCHANGED <<board, face, timers, flags, due, doing, payload, spent, crashed>>

\* A beat: its event and draw_commission, which waits for the panel.
CommissionBeat ==
  /\ comm = "inside" /\ doing["commission"] = "sleep"
  /\ \/ Publish(<<"working">>) /\ Begin("commission", "working") /\ UNCHANGED comm
     \/ Publish(<<"passed">>) /\ Begin("commission", "passed") /\ comm' = "passed"
  /\ UNCHANGED <<board, face, timers, flags, due, spent, crashed>>

\* exclusive() is left: after the last draw of a pass, after the reset of a failure, or
\* by an exception that no event reports.
CommissionLeaves ==
  /\ HoldsBoard /\ doing["commission"] = "sleep"
  /\ comm' = "none"
  /\ \/ comm = "passed" /\ Publish(<<"idle">>) /\ UNCHANGED <<oled, crashed>>
     \/ comm = "inside" /\ Publish(<<"idle", "failed">>) /\ oled' = FALSE /\ UNCHANGED crashed
     \/ Publish(<<"idle">>) /\ comm = "inside" /\ crashed' = TRUE /\ UNCHANGED oled
  /\ UNCHANGED <<attached, panel, torn, face, timers, flags, due, doing, payload, spent>>

\* ------------------------------------------------------------ the environment
\* Any user of the board that times out resets it; the panel keeps its picture.
SoftReset ==
  /\ Fault /\ oled /\ oled' = FALSE
  /\ UNCHANGED <<attached, panel, torn, inbox, face, timers, flags, due, doing, payload, comm, crashed>>

PlugPanel ==
  /\ Fault /\ attached' = ~attached /\ panel' = "off"
  /\ UNCHANGED <<oled, torn, inbox, face, timers, flags, due, doing, payload, comm, crashed>>

Exec(d) == InitOk(d) \/ InitFails(d) \/ DrawOk(d) \/ NameError(d) \/ DrawFails(d) \/ DrawTimesOut(d)

NarratorNext ==
  \/ Consume \/ BoardScan \/ Render \/ Tick \/ Say
  \/ \E d \in Drawers : Exec(d)
  \/ CommissionStarts \/ CommissionEnters \/ CommissionBeat \/ CommissionLeaves
  \/ SoftReset \/ PlugPanel

NarratorSpec == NarratorInit /\ [][NarratorNext]_narratorVars

\* The narrator's tasks and the clock go on; an exec returns; a commission that has
\* started gets the board and gives it back.
NarratorFairness ==
  /\ WF_narratorVars(Consume) /\ WF_narratorVars(Render) /\ WF_narratorVars(Tick)
  /\ \A d \in Drawers : WF_narratorVars(Exec(d))
  /\ WF_narratorVars(CommissionEnters) /\ SF_narratorVars(CommissionLeaves)

NarratorFairSpec == NarratorSpec /\ NarratorFairness

--------------------------------------------------------------------------------
Cards == {"rest", "telemetry", "message", "started", "working", "passed", "failed"}

Events == {"busy", "idle", "started", "working", "passed", "failed"}

\* Every variable keeps its type, and a drawer under way has a card to draw.
NarratorTypeOK ==
  /\ panel \in Cards \cup {"off", "blank"} /\ lastPayload \in Cards \cup {"none"}
  /\ doing \in [Drawers -> {"sleep", "init", "draw", "reinit", "redraw"}]
  /\ payload \in [Drawers -> Cards \cup {"none"}]
  /\ \A d \in Drawers : doing[d] # "sleep" => payload[d] \in Cards
  /\ model \in [connected : BOOLEAN, busy : BOOLEAN, active : BOOLEAN,
                stage : {"none", "working"}, outcome : {"none", "passed", "failed"}]
  /\ view \in {"agent", "telemetry"}
  /\ inbox \in Seq(Events) /\ Len(inbox) <= MaxInbox
  /\ comm \in {"none", "asked", "inside", "passed"}
  /\ timers \in [rotate : Nat, card : Nat, message : Nat, retry : Nat]

\* The coalescing is sound (oled_narrator.py:397): whenever the narrator takes its last
\* payload for the picture on the panel, it is that picture, whichever of the two drawers
\* drew last; only a draw that timed out or a panel that lost its power breaks it.
PanelShowsLastPayload ==
  initialized /\ ~absent /\ lastPayload # "none" => panel \in {lastPayload, "off"} \/ torn

\* The display heals itself: soft resets, time-outs and a panel that is plugged in late
\* behind it, it shows what the render loop wants again and again.  It owes that to the
\* rotation at rest: the card of a commission that raised stays, and a torn draw with it.
PanelCatchesUp ==
  <>[](attached /\ panel # "off" /\ model.connected /\ ~crashed) => []<>(panel = Wanted)

\* The card of a commission that has ended comes down (oled_narrator.py:354-358), unless
\* the commission raised.
CardComesDown == (model.active /\ ~crashed) ~> (~model.active \/ crashed)
================================================================================
