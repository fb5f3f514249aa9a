--------------------------- MODULE CommissionRunner ---------------------------
(***************************************************************************)
(* CommissionRunner (bringup/loop.py): the bounded generate, validate,     *)
(* deploy, test and repair loop, the author's memory of its last draft     *)
(* (agents/author.py) and the admission of a driver into the registry      *)
(* (registry/store.py).  Commissions of one slug follow one another; the   *)
(* board is the run's own from "entering" to its end (BoardSession), so    *)
(* what other tasks do to the line is seen when exclusive() is entered.    *)
(*                                                                         *)
(* A driver source is named by the run and the attempt that wrote it.      *)
(***************************************************************************)
EXTENDS Naturals, SequencesExt

CONSTANTS MaxAttempts,   \* settings.max_attempts
          Classes,       \* protocol classes: what a driver is read or set as
          MaxRuns        \* bound: commissions of the slug

ASSUME BoundsAssumption == MaxAttempts \in Nat /\ MaxRuns \in Nat

None == [run |-> 0, attempt |-> 0]
Code == [run : 1 .. MaxRuns, attempt : 1 .. MaxAttempts]

\* Ways an attempt fails, in the order the loop finds out.
Failures == {"gate", "timeout", "traceback", "implausible"}

VARIABLES
  pc,           \* the await the run is suspended at
  run,          \* commissions started so far
  class,        \* spec.protocol_class of this run
  attempts,     \* how each finished attempt of this run ended
  lastError,    \* last_error: the attempt and the failure it tells of
  lastTraceback,\* last_traceback: the attempt whose stderr it is, or 0
  draft,        \* the author's previous_code
  connected,    \* transport.connected: a commission may be asked for without a board
  line,         \* who left the serial line dirty, or "clean"
  stage,        \* the last commission.stage event
  announced,    \* the last commission lifecycle event
  record,       \* the registry's record of the slug
  verified,     \* sources that ran on the board with a plausible reading, as a class
  outcome       \* how the last run ended

vars == <<pc, run, class, attempts, lastError, lastTraceback, draft, connected,
          line, stage, announced, record, verified, outcome>>

Attempt == Len(attempts) + 1
Source == [run |-> run, attempt |-> Attempt]
NoError == [attempt |-> 0, kind |-> "none"]
Unregistered == [class |-> "none", code |-> None]

Stage(name, status) == stage' = [attempt |-> Attempt, name |-> name, status |-> status]
GenStage == IF lastError = NoError THEN "generate" ELSE "repair"

Init ==
  /\ pc = "idle"
  /\ run = 0
  /\ class \in Classes
  /\ attempts = <<>>
  /\ lastError = NoError
  /\ lastTraceback = 0
  /\ draft = None
  /\ connected \in BOOLEAN
  /\ line = "clean"
  /\ stage = [attempt |-> 0, name |-> "none", status |-> "none"]
  /\ announced = "none"
  /\ record = Unregistered
  /\ verified = {}
  /\ outcome = "none"

\* Mutant of Start: a re-commission unregisters the old driver first.
StartUnregisters(c) ==
  /\ pc = "idle" /\ run < MaxRuns
  /\ pc' = "entering"
  /\ run' = run + 1
  /\ class' = c
  /\ attempts' = <<>> /\ lastError' = NoError /\ lastTraceback' = 0
  /\ announced' = "started"
  /\ outcome' = "none"
  /\ record' = Unregistered
  /\ UNCHANGED <<draft, connected, line, stage, verified>>

\* run() publishes commission.started and waits for exclusive().
Start(c) ==
  /\ pc = "idle" /\ run < MaxRuns
  /\ pc' = "entering"
  /\ run' = run + 1
  /\ class' = c
  /\ attempts' = <<>> /\ lastError' = NoError /\ lastTraceback' = 0
  /\ announced' = "started"
  /\ outcome' = "none"
  /\ UNCHANGED <<draft, connected, line, stage, record, verified>>

\* The head of the for loop: the next attempt draws its frame before it generates;
\* with the budget used up the line is reset.
NextAttempt ==
  IF Len(attempts) < MaxAttempts
  THEN pc' = "drawGenerate" /\ Stage(GenStage, "started")
  ELSE pc' = "lastReset" /\ UNCHANGED stage

Entered ==
  /\ pc = "entering"
  /\ line' \in IF connected THEN {"clean", "caller"} ELSE {"clean"}
  /\ NextAttempt
  /\ UNCHANGED <<run, class, connected, attempts, lastError, lastTraceback, draft, announced,
                 record, verified, outcome>>

\* A draw resyncs a dirty line or fails to, and may itself time out; whatever
\* happens is swallowed, and nobody resets the line for it.
Drawn ==
  /\ line' \in IF connected THEN {"clean", line, "display"} ELSE {"clean"}
  /\ UNCHANGED <<run, class, connected, attempts, lastError, lastTraceback, draft, announced,
                 record, verified>>

DrawnGenerate == pc = "drawGenerate" /\ Drawn /\ pc' = "author" /\ UNCHANGED <<stage, outcome>>
DrawnTest == pc = "drawTest" /\ Drawn /\ pc' = "test" /\ UNCHANGED <<stage, outcome>>
DrawnFailed == pc = "drawFailed" /\ Drawn /\ NextAttempt /\ UNCHANGED outcome
DrawnPassed == pc = "drawPassed" /\ Drawn /\ pc' = "idle" /\ outcome' = "passed" /\ UNCHANGED stage

\* An exception leaves run(): exclusive() is released, the service announces the crash.
Crashes(why) ==
  /\ pc' = "idle"
  /\ outcome' = why
  /\ announced' = "system.error"
  /\ UNCHANGED <<run, class, connected, attempts, lastError, lastTraceback, draft, stage,
                 record, verified>>

\* Mutant of AttemptFails: a failure without a traceback forgets the last one.
AttemptFailsForgets(kind, name) ==
  /\ pc' = "drawFailed"
  /\ Stage(name, "failed")
  /\ lastError' = [attempt |-> Attempt, kind |-> kind]
  /\ lastTraceback' = IF kind = "traceback" THEN Attempt ELSE 0
  /\ attempts' = Append(attempts, kind)
  /\ UNCHANGED <<run, class, connected, announced, record, verified, outcome>>

\* Every failure is announced, drawn, handed to the next attempt and recorded.  The
\* locals it sets are not read before the draw has ended.
AttemptFails(kind, name) ==
  /\ pc' = "drawFailed"
  /\ Stage(name, "failed")
  /\ lastError' = [attempt |-> Attempt, kind |-> kind]
  /\ lastTraceback' = IF kind = "traceback" THEN Attempt ELSE lastTraceback
  /\ attempts' = Append(attempts, kind)
  /\ UNCHANGED <<run, class, connected, announced, record, verified, outcome>>

\* The author returns a draft or raises; the static gate judges it in the same step.
AuthorRaises == pc = "author" /\ UNCHANGED line /\ Crashes("authorRaised")

AuthorReturns ==
  /\ pc = "author"
  /\ draft' = Source
  /\ UNCHANGED line
  /\ \/ AttemptFails("gate", "validate")
     \/ /\ pc' = "drawTest"
        /\ Stage("test", "started")
        /\ UNCHANGED <<run, class, connected, attempts, lastError, lastTraceback, announced,
                       record, verified, outcome>>

\* Mutant of Admit: a re-commission is announced, but the old source stays.
AdmitKeepsCode == record' = IF record = Unregistered THEN [class |-> class, code |-> Source]
                                                     ELSE record

\* The admission gate: register a first pass, hot-swap the source of a later one.
Admit == record' = IF record = Unregistered THEN [class |-> class, code |-> Source]
                                            ELSE [record EXCEPT !.code = Source]

\* The one exec that deploys and tests.  A dirty line is resynced first; that may
\* raise.  A timeout is answered by a soft reset.
ResyncRaises == pc = "test" /\ line # "clean" /\ UNCHANGED line /\ Crashes("resyncRaised")

\* The port vanishes under the exec: its exception leaves run() too.
ExecRaises == pc = "test" /\ connected /\ line' = "clean" /\ Crashes("execRaised")

TestTimesOut ==
  /\ pc = "test" /\ connected
  /\ pc' = "reset"
  /\ line' = "driver"
  /\ UNCHANGED <<run, class, connected, attempts, lastError, lastTraceback, draft, stage, announced,
                 record, verified, outcome>>

\* Mutant of TestFails: the driver is admitted before its reading is judged.
TestFailsAdmitted ==
  /\ pc = "test"
  /\ line' = "clean"
  /\ UNCHANGED draft
  /\ \E kind \in {"traceback", "implausible"} :
       /\ pc' = "drawFailed"
       /\ Stage("test", "failed")
       /\ lastError' = [attempt |-> Attempt, kind |-> kind]
       /\ lastTraceback' = IF kind = "traceback" THEN Attempt ELSE lastTraceback
       /\ attempts' = Append(attempts, kind)
       /\ IF kind = "implausible" THEN Admit ELSE UNCHANGED record
       /\ UNCHANGED <<run, class, connected, announced, verified, outcome>>

\* Without a board the transport's own words take the place of stderr.
TestFails ==
  /\ pc = "test"
  /\ line' = "clean"
  /\ UNCHANGED draft
  /\ \E kind \in {"traceback", "implausible"} :
       (connected \/ kind = "traceback") /\ AttemptFails(kind, "test")

\* PASSED: recorded, admitted and announced in one step.
TestPasses ==
  /\ pc = "test" /\ connected
  /\ line' = "clean"
  /\ verified' = verified \cup {[class |-> class, code |-> Source]}
  /\ Stage("test", "passed")
  /\ attempts' = Append(attempts, "passed")
  /\ Admit
  /\ announced' = "passed"
  /\ pc' = "drawPassed"
  /\ UNCHANGED <<run, class, connected, lastError, lastTraceback, draft, outcome>>

\* Mutant of ResetReturns: the timeout is announced and recorded, not handed on.
ResetReturnsUntold ==
  /\ pc = "reset"
  /\ line' = "clean"
  /\ pc' = "drawFailed"
  /\ Stage("test", "failed")
  /\ attempts' = Append(attempts, "timeout")
  /\ UNCHANGED <<draft, lastError, lastTraceback, run, class, connected, announced, record, verified, outcome>>

\* Mutant of ResetReturns: a timeout does not count as an attempt.
ResetReturnsUncounted ==
  /\ pc = "reset"
  /\ line' = "clean"
  /\ pc' = "drawFailed"
  /\ Stage("test", "failed")
  /\ lastError' = [attempt |-> Attempt, kind |-> "timeout"]
  /\ UNCHANGED <<draft, attempts, lastTraceback, run, class, connected, announced, record, verified, outcome>>

\* The soft reset after a hung driver: the attempt has failed, unless no prompt came.
ResetReturns ==
  /\ pc = "reset"
  /\ line' = "clean"
  /\ UNCHANGED draft
  /\ AttemptFails("timeout", "test")

ResetRaises == pc \in {"reset", "lastReset"} /\ UNCHANGED line /\ Crashes("resetRaised")

\* The budget is exhausted: reset, release the board, announce the honest failure.
LastReset ==
  /\ pc = "lastReset"
  /\ line' = "clean"
  /\ announced' = "failed"
  /\ outcome' = "failed"
  /\ pc' = "idle"
  /\ UNCHANGED <<run, class, connected, attempts, lastError, lastTraceback, draft, stage, record, verified>>

Proceed ==
  \/ Entered \/ DrawnGenerate \/ DrawnTest \/ DrawnFailed \/ DrawnPassed
  \/ AuthorRaises \/ AuthorReturns
  \/ ResyncRaises \/ ExecRaises \/ TestTimesOut \/ TestFails \/ TestPasses
  \/ ResetReturns \/ ResetRaises \/ LastReset

Next == Proceed \/ \E c \in Classes : Start(c)

\* Every await of a run ends: the board is granted (BoardSession), a call has its
\* watchdog, the author its request limit.
Spec == Init /\ [][Next]_vars
FairSpec == Spec /\ WF_vars(Proceed)

-----------------------------------------------------------------------------
Awaits == {"idle", "entering", "drawGenerate", "author", "drawTest", "test", "reset",
           "drawFailed", "drawPassed", "lastReset"}

\* Type invariant of the run, the line and the registry's record.
TypeOK ==
  /\ pc \in Awaits
  /\ run \in 0 .. MaxRuns
  /\ class \in Classes
  /\ attempts \in Seq(Failures \cup {"passed"}) /\ Len(attempts) <= MaxAttempts
  /\ lastError \in [attempt : 1 .. MaxAttempts, kind : Failures] \cup {NoError}
  /\ lastTraceback \in 0 .. MaxAttempts
  /\ draft \in Code \cup {None}
  /\ connected \in BOOLEAN
  /\ line \in {"clean", "caller", "display", "driver"}
  /\ stage \in [attempt : 0 .. MaxAttempts, status : {"none", "started", "passed", "failed"},
                name : {"none", "generate", "repair", "validate", "test"}]
  /\ announced \in {"none", "started", "passed", "failed", "system.error"}
  /\ record \in [class : Classes, code : Code] \cup {Unregistered}
  /\ verified \subseteq [class : Classes, code : Code]
  /\ outcome \in {"none", "passed", "failed", "authorRaised", "resyncRaised", "execRaised",
                 "resetRaised"}

\* Every registered source has run on the board with a plausible reading: "a driver
\* that never passed simply does not exist here", however a run ended.
AdmissionGate ==
  record # Unregistered => \E v \in verified : v.code = record.code

\* MEDIC is handed the failure of the attempt just before, whatever kind it was, the
\* draft that failed, and is announced as a repair; a first attempt is handed nothing.
RepairKnowsWhy ==
  pc \in {"drawGenerate", "author"} =>
    IF attempts = <<>>
    THEN lastError = NoError /\ stage.name = "generate"
    ELSE /\ lastError = [attempt |-> Len(attempts), kind |-> Last(attempts)]
         /\ draft = [run |-> run, attempt |-> Len(attempts)]
         /\ stage.name = "repair"

\* commission.failed is sent only after the whole budget failed; it gives the last
\* attempt's reason and the latest traceback of the run, if any attempt had one.
HonestFailure ==
  outcome = "failed" =>
    /\ Len(attempts) = MaxAttempts /\ Range(attempts) \subseteq Failures
    /\ attempts # <<>> => lastError = [attempt |-> MaxAttempts, kind |-> Last(attempts)]
    /\ \A i \in 1 .. Len(attempts) : attempts[i] = "traceback" =>
         lastTraceback >= i /\ attempts[lastTraceback] = "traceback"

\* The console hears of a pass exactly when the registry runs the source that this
\* run verified last; a failed or crashed run leaves the registry to earlier runs.
PassMeansLive ==
  run > 0 => (announced = "passed" <=> record.code = [run |-> run, attempt |-> Len(attempts)])

\* Once a slug has a verified driver it always has one, and never goes back to the
\* source of an earlier run.
DriverOnlyImproves ==
  [][record # Unregistered => record' # Unregistered /\ record'.code.run >= record.code.run]_vars

\* Every commission comes to an end.
CommissionEnds == pc = "entering" ~> pc = "idle"

\* The inductive invariant behind the safety properties.

InAttempt == {"drawGenerate", "author", "drawTest", "test", "reset"}

\* An attempt is only under way within the budget, which is used up at the last reset
\* and in a failed run.
BudgetKept ==
  /\ pc \in InAttempt => Len(attempts) < MaxAttempts
  /\ pc = "lastReset" \/ outcome = "failed" => Len(attempts) = MaxAttempts
  /\ pc = "entering" => Len(attempts) = 0
  /\ pc = "drawFailed" => Len(attempts) > 0
  /\ pc # "idle" => run > 0 /\ outcome # "failed"

\* Up to its end, a run that has not passed knows the failure of its latest attempt.
WhyKept ==
  pc \in InAttempt \cup {"entering", "drawFailed", "lastReset"} \/ outcome = "failed" =>
    /\ \A i \in 1 .. Len(attempts) : attempts[i] \in Failures
    /\ Len(attempts) = 0 => lastError = NoError
    /\ Len(attempts) > 0 => lastError = [attempt |-> Len(attempts), kind |-> attempts[Len(attempts)]]

\* The author's draft is this attempt's as soon as it is written, the failed one's before.
DraftKept ==
  /\ pc \in {"drawTest", "test", "reset"} => draft = Source
  /\ pc \in {"drawGenerate", "author", "drawFailed"} /\ Len(attempts) > 0 =>
       draft = [run |-> run, attempt |-> Len(attempts)]
  /\ pc \in {"drawGenerate", "author"} =>
       stage.name = IF Len(attempts) = 0 THEN "generate" ELSE "repair"

\* last_traceback belongs to the latest attempt that had one.
TracebackKept ==
  /\ lastTraceback \in 0 .. Len(attempts)
  /\ \A i \in 1 .. Len(attempts) : attempts[i] = "traceback" =>
       lastTraceback >= i /\ attempts[lastTraceback] = "traceback"

\* The registered source is this run's once it has passed, and an earlier one's before.
RecordKept ==
  /\ record.code.run <= run
  /\ announced # "passed" /\ run > 0 => record.code.run < run
  /\ announced = "passed" =>
       /\ pc \in {"drawPassed", "idle"} /\ run > 0
       /\ record.code = [run |-> run, attempt |-> Len(attempts)]

\* Inductive: the budget is what types the attempt, the failure and the draft.
RunnerInv ==
  BudgetKept /\ WhyKept /\ DraftKept /\ TracebackKept /\ RecordKept /\ AdmissionGate

-----------------------------------------------------------------------------
\* CommissionService.enqueue: "CommissionRunner.run emits every commission.* event
\* including the terminal passed/failed".
TerminalEventAlwaysSent == pc = "idle" /\ run > 0 => announced \in {"passed", "failed"}
=============================================================================
