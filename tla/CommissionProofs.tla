--------------------------- MODULE CommissionProofs ---------------------------
(***************************************************************************)
(* A commission, from the door that asks for it to the panel that shows it: *)
(* the service that starts one at a time, the runner's loop, and the       *)
(* narrator whose picture the commission's beats draw.  Three              *)
(* specifications, each with theorems of its own, for any attempt budget,  *)
(* any number of commissions and requests, any ring and any timers.        *)
(***************************************************************************)
EXTENDS CommissionRunner, CommissionService, OledNarrator, SequenceTheorems, TLAPS

-----------------------------------------------------------------------------
(* The runner: the admission gate and the honesty of repairs and failures. *)

Result == Failures \cup {"passed"}

\* What recording one more attempt does to the record of attempts.
LEMMA AttemptRecorded ==
  ASSUME attempts \in Seq(Result), NEW r \in Result, attempts' = Append(attempts, r)
  PROVE  /\ attempts' \in Seq(Result)
         /\ Len(attempts) \in Nat /\ Len(attempts') = Len(attempts) + 1
         /\ \A i \in 1 .. Len(attempts) : attempts'[i] = attempts[i]
         /\ attempts'[Len(attempts) + 1] = r
OBVIOUS

LEMMA Emptied ==
  ASSUME attempts' = <<>>
  PROVE  attempts' \in Seq(Result) /\ Len(attempts') = 0
OBVIOUS

-----------------------------------------------------------------------------
LEMMA RunnerInit == Init => TypeOK /\ RunnerInv
<1> SUFFICES ASSUME Init PROVE TypeOK /\ RunnerInv OBVIOUS
<1>1. attempts \in Seq(Result) /\ Len(attempts) = 0 BY DEF Init
<1>2. MaxAttempts \in Nat /\ MaxRuns \in Nat BY BoundsAssumption
<1>3. TypeOK BY <1>1, <1>2 DEF Init, TypeOK, Result, Awaits, None, NoError, Unregistered, Code
<1>4. BudgetKept /\ WhyKept /\ DraftKept /\ TracebackKept
  BY <1>1, <1>2 DEF Init, BudgetKept, WhyKept, DraftKept, TracebackKept, InAttempt
<1>5. RecordKept /\ AdmissionGate
  BY DEF Init, RecordKept, AdmissionGate, Unregistered, None
<1> QED BY <1>3, <1>4, <1>5 DEF RunnerInv

\* A run starts with nothing known of it, and with the registry of the earlier runs.
LEMMA StartStep ==
  ASSUME TypeOK, RunnerInv, NEW c \in Classes, Start(c)
  PROVE  TypeOK' /\ RunnerInv'
<1>1. attempts' \in Seq(Result) /\ Len(attempts') = 0 BY Emptied DEF Start
<1>2. MaxAttempts \in Nat /\ MaxRuns \in Nat /\ run \in Nat /\ run' = run + 1
  BY BoundsAssumption DEF Start, TypeOK
<1>3. TypeOK'
  BY <1>1, <1>2 DEF Start, TypeOK, Result, Awaits
<1>4. BudgetKept' /\ WhyKept' /\ DraftKept' /\ TracebackKept'
  BY <1>1, <1>2 DEF Start, BudgetKept, WhyKept, DraftKept, TracebackKept, InAttempt
<1>5. record.code.run \in Nat /\ record.code.run <= run
  BY <1>2 DEF TypeOK, RunnerInv, RecordKept, Unregistered, None, Code
<1>6. RecordKept' BY <1>2, <1>5 DEF Start, RecordKept
<1>7. AdmissionGate' BY DEF Start, RunnerInv, AdmissionGate
<1> QED BY <1>3, <1>4, <1>6, <1>7 DEF RunnerInv

\* The head of the loop: a new attempt within the budget, or the last reset.
LEMMA NextAttemptStep ==
  ASSUME TypeOK, RunnerInv, pc \in {"entering", "drawFailed"}, NextAttempt,
         line' \in {"clean", "caller", "display", "driver"},
         UNCHANGED <<run, class, connected, attempts, lastError, lastTraceback, draft, announced,
                     record, verified, outcome>>
  PROVE  TypeOK' /\ RunnerInv'
<1> DEFINE n == Len(attempts)
<1>1. n \in Nat /\ MaxAttempts \in Nat /\ n <= MaxAttempts
  BY BoundsAssumption, LenProperties DEF TypeOK
<1>2. (GenStage = "generate" /\ n = 0) \/ (GenStage = "repair" /\ n > 0)
  BY <1>1 DEF RunnerInv, WhyKept, GenStage, NoError
<1>3. CASE n < MaxAttempts
  <2>1. pc' = "drawGenerate" /\ stage' = [attempt |-> n + 1, name |-> GenStage, status |-> "started"]
    BY <1>3 DEF NextAttempt, Stage, Attempt
  <2>2. TypeOK' BY <1>1, <1>2, <1>3, <2>1 DEF TypeOK, Awaits
  <2>3. BudgetKept' BY <1>1, <1>3, <2>1 DEF RunnerInv, BudgetKept, InAttempt
  <2>4. WhyKept' BY <2>1 DEF RunnerInv, WhyKept, InAttempt
  <2>5. DraftKept' BY <1>1, <1>2, <2>1 DEF RunnerInv, BudgetKept, DraftKept
  <2>6. TracebackKept' /\ RecordKept' /\ AdmissionGate'
    BY <2>1 DEF RunnerInv, TracebackKept, RecordKept, AdmissionGate
  <2> QED BY <2>2, <2>3, <2>4, <2>5, <2>6 DEF RunnerInv
<1>4. CASE n = MaxAttempts
  <2>1. pc' = "lastReset" /\ UNCHANGED stage BY <1>1, <1>4 DEF NextAttempt
  <2>2. TypeOK' BY <2>1 DEF TypeOK, Awaits
  <2>3. BudgetKept' BY <1>1, <1>4, <2>1 DEF RunnerInv, BudgetKept, InAttempt
  <2>4. WhyKept' BY <2>1 DEF RunnerInv, WhyKept, InAttempt
  <2>5. DraftKept' BY <2>1 DEF DraftKept
  <2>6. TracebackKept' /\ RecordKept' /\ AdmissionGate'
    BY <2>1 DEF RunnerInv, TracebackKept, RecordKept, AdmissionGate
  <2> QED BY <2>2, <2>3, <2>4, <2>5, <2>6 DEF RunnerInv
<1> QED BY <1>1, <1>3, <1>4

\* A failed attempt is on record with its reason, and the next one knows its draft.
LEMMA FailureStep ==
  ASSUME TypeOK, RunnerInv, pc \in {"author", "test", "reset"},
         NEW kind \in Failures, NEW name \in {"validate", "test"}, AttemptFails(kind, name),
         draft' = Source, line' \in {"clean", "caller", "display", "driver"}
  PROVE  TypeOK' /\ RunnerInv'
<1> DEFINE n == Len(attempts)
<1>1. attempts \in Seq(Result) /\ n \in Nat /\ MaxAttempts \in Nat /\ n < MaxAttempts
  BY BoundsAssumption, LenProperties DEF TypeOK, RunnerInv, BudgetKept, InAttempt, Result
<1>2. /\ pc' = "drawFailed" /\ attempts' = Append(attempts, kind)
      /\ stage' = [attempt |-> n + 1, name |-> name, status |-> "failed"]
      /\ lastError' = [attempt |-> n + 1, kind |-> kind]
      /\ lastTraceback' = IF kind = "traceback" THEN n + 1 ELSE lastTraceback
      /\ UNCHANGED <<run, class, connected, announced, record, verified, outcome>>
  BY DEF AttemptFails, Stage, Attempt
<1>3. kind \in Result BY DEF Result
<1>4. /\ attempts' \in Seq(Result) /\ Len(attempts') = n + 1
      /\ \A i \in 1 .. n : attempts'[i] = attempts[i]
      /\ attempts'[n + 1] = kind
  BY <1>1, <1>2, <1>3, AttemptRecorded
<1>5. run \in 1 .. MaxRuns /\ MaxRuns \in Nat /\ outcome # "failed"
  BY BoundsAssumption DEF TypeOK, RunnerInv, BudgetKept
<1>6. draft' = [run |-> run, attempt |-> n + 1] BY DEF Source, Attempt
<1> HIDE DEF n
<1>7. TypeOK'
  <2>1. draft' \in Code BY <1>1, <1>5, <1>6 DEF Code
  <2>2. lastTraceback' \in 0 .. MaxAttempts BY <1>1, <1>2 DEF TypeOK
  <2>3. stage' \in [attempt : 0 .. MaxAttempts, status : {"none", "started", "passed", "failed"},
                    name : {"none", "generate", "repair", "validate", "test"}]
    BY <1>1, <1>2
  <2>4. lastError' \in [attempt : 1 .. MaxAttempts, kind : Failures] BY <1>1, <1>2
  <2> QED BY <1>1, <1>2, <1>4, <2>1, <2>2, <2>3, <2>4 DEF TypeOK, Awaits, Result
<1>8. BudgetKept' BY <1>1, <1>2, <1>4, <1>5 DEF BudgetKept, InAttempt
<1>9. WhyKept'
  <2>1. \A i \in 1 .. n : attempts[i] \in Failures BY DEF RunnerInv, WhyKept, InAttempt, n
  <2>2. \A i \in 1 .. n + 1 : attempts'[i] \in Failures BY <1>1, <1>4, <2>1
  <2> QED BY <1>1, <1>2, <1>4, <2>2 DEF WhyKept
<1>10. DraftKept' BY <1>1, <1>2, <1>4, <1>6 DEF DraftKept
<1>11. TracebackKept'
  <2>1. /\ lastTraceback \in 0 .. n
        /\ \A i \in 1 .. n : attempts[i] = "traceback" =>
             lastTraceback >= i /\ attempts[lastTraceback] = "traceback"
    BY DEF RunnerInv, TracebackKept, n
  <2>2. CASE kind = "traceback" BY <1>1, <1>2, <1>4, <2>2 DEF TracebackKept
  <2>3. CASE kind # "traceback"
    <3>1. lastTraceback' = lastTraceback BY <1>2, <2>3
    <3>2. ASSUME NEW i \in 1 .. n + 1, attempts'[i] = "traceback"
          PROVE  lastTraceback >= i /\ attempts'[lastTraceback] = "traceback"
      <4>1. i \in 1 .. n /\ attempts[i] = "traceback" BY <1>1, <1>4, <2>3, <3>2
      <4>2. lastTraceback >= i /\ attempts[lastTraceback] = "traceback" BY <2>1, <4>1
      <4> QED BY <1>1, <1>4, <2>1, <4>1, <4>2
    <3> QED BY <1>1, <1>4, <2>1, <3>1, <3>2 DEF TracebackKept
  <2> QED BY <2>2, <2>3
<1>12. announced # "passed" BY DEF RunnerInv, RecordKept
<1>13. RecordKept' BY <1>2, <1>12 DEF RunnerInv, RecordKept
<1>14. AdmissionGate' BY <1>2 DEF RunnerInv, AdmissionGate
<1> QED BY <1>7, <1>8, <1>9, <1>10, <1>11, <1>13, <1>14 DEF RunnerInv

\* A step that changes neither attempts nor registry and ends within the attempt, or
\* in a crash, keeps the invariant: all it may do is move on, dirty or clean the line.
LEMMA QuietStep ==
  ASSUME TypeOK, RunnerInv,
         line' \in {"clean", "caller", "display", "driver"},
         UNCHANGED <<run, class, connected, attempts, lastError, lastTraceback, draft,
                     record, verified>>,
         \/ pc = "drawGenerate" /\ pc' = "author" /\ UNCHANGED <<stage, announced, outcome>>
         \/ pc = "drawTest" /\ pc' = "test" /\ UNCHANGED <<stage, announced, outcome>>
         \/ pc = "test" /\ pc' = "reset" /\ UNCHANGED <<stage, announced, outcome>>
         \/ /\ pc = "drawPassed" /\ pc' = "idle" /\ outcome' = "passed"
            /\ UNCHANGED <<stage, announced>>
         \/ /\ pc \in {"author", "test", "reset", "lastReset"} /\ pc' = "idle"
            /\ announced' = "system.error" /\ UNCHANGED stage
            /\ outcome' \in {"authorRaised", "resyncRaised", "execRaised", "resetRaised"}
         \/ /\ pc = "lastReset" /\ pc' = "idle" /\ announced' = "failed" /\ outcome' = "failed"
            /\ UNCHANGED stage
  PROVE  TypeOK' /\ RunnerInv'
<1>1. TypeOK' BY DEF TypeOK, Awaits
<1>2. BudgetKept' BY DEF RunnerInv, BudgetKept, InAttempt
<1>3. WhyKept' BY DEF RunnerInv, WhyKept, InAttempt
<1>4. DraftKept' BY DEF RunnerInv, DraftKept, Source, Attempt
<1>5. TracebackKept' BY DEF RunnerInv, TracebackKept
<1>6. RecordKept' BY DEF RunnerInv, RecordKept
<1>7. AdmissionGate' BY DEF RunnerInv, AdmissionGate
<1> QED BY <1>1, <1>2, <1>3, <1>4, <1>5, <1>6, <1>7 DEF RunnerInv

\* A draft that passes the gate is the attempt's own from then on.
LEMMA GatePassed ==
  ASSUME TypeOK, RunnerInv, pc = "author", pc' = "drawTest", draft' = Source, Stage("test", "started"),
         UNCHANGED <<line, run, class, connected, attempts, lastError, lastTraceback, announced,
                     record, verified, outcome>>
  PROVE  TypeOK' /\ RunnerInv'
<1>1. Len(attempts) \in Nat /\ Len(attempts) < MaxAttempts /\ MaxAttempts \in Nat
  BY BoundsAssumption, LenProperties DEF TypeOK, RunnerInv, BudgetKept, InAttempt
<1>2. run \in 1 .. MaxRuns /\ MaxRuns \in Nat
  BY BoundsAssumption DEF TypeOK, RunnerInv, BudgetKept
<1>3. stage' = [attempt |-> Len(attempts) + 1, name |-> "test", status |-> "started"]
  BY DEF Stage, Attempt
<1>4. draft' = [run |-> run, attempt |-> Len(attempts) + 1] BY DEF Source, Attempt
<1>5. draft' \in Code BY <1>1, <1>2, <1>4 DEF Code
<1>6. TypeOK' BY <1>1, <1>3, <1>5 DEF TypeOK, Awaits
<1>7. BudgetKept' /\ WhyKept'
  BY DEF RunnerInv, BudgetKept, WhyKept, InAttempt
<1>8. DraftKept' BY DEF DraftKept, Source, Attempt
<1>9. TracebackKept' /\ RecordKept' /\ AdmissionGate'
  BY DEF RunnerInv, TracebackKept, RecordKept, AdmissionGate
<1> QED BY <1>6, <1>7, <1>8, <1>9 DEF RunnerInv

\* What Admit leaves in the registry: the source that just passed.
LEMMA Admitted ==
  ASSUME TypeOK, Admit, Source \in Code
  PROVE  /\ record' \in [class : Classes, code : Code]
         /\ record'.code = Source
<1>1. CASE record = Unregistered BY <1>1 DEF Admit, TypeOK
<1>2. CASE record # Unregistered
  <2>1. record \in [class : Classes, code : Code] BY <1>2 DEF TypeOK
  <2>2. record' = [record EXCEPT !.code = Source] BY <1>2 DEF Admit
  <2> QED BY <2>1, <2>2
<1> QED BY <1>1, <1>2

\* A pass is recorded, verified and admitted in one step.
LEMMA PassStep ==
  ASSUME TypeOK, RunnerInv, TestPasses
  PROVE  TypeOK' /\ RunnerInv'
<1> DEFINE n == Len(attempts)
<1>1. attempts \in Seq(Result) /\ n \in Nat /\ MaxAttempts \in Nat /\ n < MaxAttempts
  BY BoundsAssumption, LenProperties DEF TestPasses, TypeOK, RunnerInv, BudgetKept, InAttempt, Result
<1>2. run \in 1 .. MaxRuns /\ MaxRuns \in Nat
  BY BoundsAssumption DEF TestPasses, TypeOK, RunnerInv, BudgetKept
<1>3. Source \in Code /\ Source = [run |-> run, attempt |-> n + 1]
  BY <1>1, <1>2 DEF Source, Attempt, Code
<1>4. record' \in [class : Classes, code : Code] /\ record'.code = Source
  BY <1>3, Admitted DEF TestPasses
<1>5. /\ pc' = "drawPassed" /\ announced' = "passed" /\ line' = "clean"
      /\ verified' = verified \cup {[class |-> class, code |-> Source]}
      /\ stage' = [attempt |-> n + 1, name |-> "test", status |-> "passed"]
      /\ attempts' = Append(attempts, "passed")
      /\ UNCHANGED <<run, class, connected, lastError, lastTraceback, draft, outcome>>
  BY DEF TestPasses, Stage, Attempt
<1>6. "passed" \in Result BY DEF Result
<1>7. /\ attempts' \in Seq(Result) /\ Len(attempts') = n + 1
      /\ \A i \in 1 .. n : attempts'[i] = attempts[i]
      /\ attempts'[n + 1] = "passed"
  BY <1>1, <1>5, <1>6, AttemptRecorded
<1> HIDE DEF n
<1>8. TypeOK'
  <2>1. stage' \in [attempt : 0 .. MaxAttempts, status : {"none", "started", "passed", "failed"},
                    name : {"none", "generate", "repair", "validate", "test"}]
    BY <1>1, <1>5
  <2>2. verified' \subseteq [class : Classes, code : Code] BY <1>3, <1>5 DEF TypeOK
  <2> QED BY <1>1, <1>4, <1>5, <1>7, <2>1, <2>2 DEF TypeOK, Awaits, Result
<1>9. outcome # "failed" /\ outcome' # "failed"
  BY <1>5 DEF TestPasses, RunnerInv, BudgetKept
<1>10. BudgetKept' /\ WhyKept' /\ DraftKept'
  BY <1>2, <1>5, <1>9 DEF BudgetKept, WhyKept, DraftKept, InAttempt
<1>11. TracebackKept'
  <2>1. /\ lastTraceback \in 0 .. n
        /\ \A i \in 1 .. n : attempts[i] = "traceback" =>
             lastTraceback >= i /\ attempts[lastTraceback] = "traceback"
    BY DEF RunnerInv, TracebackKept, n
  <2>2. ASSUME NEW i \in 1 .. n + 1, attempts'[i] = "traceback"
        PROVE  lastTraceback >= i /\ attempts'[lastTraceback] = "traceback"
    <3>1. i \in 1 .. n /\ attempts[i] = "traceback" BY <1>1, <1>7, <2>2
    <3>2. lastTraceback >= i /\ attempts[lastTraceback] = "traceback" BY <2>1, <3>1
    <3> QED BY <1>1, <1>7, <2>1, <3>1, <3>2
  <2> QED BY <1>1, <1>5, <1>7, <2>1, <2>2 DEF TracebackKept
<1>12. RecordKept' BY <1>2, <1>3, <1>4, <1>5, <1>7 DEF RecordKept
<1>13. AdmissionGate'
  <2>1. [class |-> class, code |-> Source] \in verified' BY <1>5
  <2> QED BY <1>4, <2>1 DEF AdmissionGate
<1> QED BY <1>8, <1>10, <1>11, <1>12, <1>13 DEF RunnerInv

-----------------------------------------------------------------------------
LEMMA RunnerStep == TypeOK /\ RunnerInv /\ [Next]_vars => TypeOK' /\ RunnerInv'
<1> SUFFICES ASSUME TypeOK, RunnerInv, [Next]_vars PROVE TypeOK' /\ RunnerInv' OBVIOUS
<1> DEFINE Lines == {"clean", "caller", "display", "driver"}
<1>0. line \in Lines BY DEF TypeOK
<1>1. CASE Entered
  <2>1. line' \in Lines BY <1>1 DEF Entered
  <2> QED BY <1>1, <2>1, NextAttemptStep DEF Entered
<1>2. ASSUME Drawn PROVE line' \in Lines BY <1>0, <1>2 DEF Drawn
<1>3. CASE DrawnGenerate BY <1>2, <1>3, QuietStep DEF DrawnGenerate, Drawn
<1>4. CASE DrawnTest BY <1>2, <1>4, QuietStep DEF DrawnTest, Drawn
<1>5. CASE DrawnFailed BY <1>2, <1>5, NextAttemptStep DEF DrawnFailed, Drawn
<1>6. CASE DrawnPassed BY <1>2, <1>6, QuietStep DEF DrawnPassed, Drawn
<1>7. CASE AuthorRaises BY <1>0, <1>7, QuietStep DEF AuthorRaises, Crashes
<1>8. CASE AuthorReturns
  <2>1. CASE AttemptFails("gate", "validate")
    BY <1>0, <1>8, <2>1, FailureStep DEF AuthorReturns, Failures
  <2>2. CASE ~AttemptFails("gate", "validate")
    BY <1>8, <2>2, GatePassed DEF AuthorReturns
  <2> QED BY <2>1, <2>2
<1>9. CASE ResyncRaises BY <1>0, <1>9, QuietStep DEF ResyncRaises, Crashes
<1>10. CASE ExecRaises BY <1>10, QuietStep DEF ExecRaises, Crashes
<1>11. CASE TestTimesOut BY <1>11, QuietStep DEF TestTimesOut
<1>12. CASE TestFails
  <2>1. draft' = Source BY <1>12 DEF TestFails, RunnerInv, DraftKept
  <2>2. PICK kind \in {"traceback", "implausible"} : AttemptFails(kind, "test")
    BY <1>12 DEF TestFails
  <2>3. kind \in Failures BY DEF Failures
  <2>4. pc = "test" /\ line' = "clean" BY <1>12 DEF TestFails
  <2> QED BY <2>1, <2>2, <2>3, <2>4, FailureStep
<1>13. CASE TestPasses BY <1>13, PassStep
<1>14. CASE ResetReturns
  <2>1. draft' = Source BY <1>14 DEF ResetReturns, RunnerInv, DraftKept
  <2> QED BY <1>14, <2>1, FailureStep DEF ResetReturns, Failures
<1>15. CASE ResetRaises BY <1>0, <1>15, QuietStep DEF ResetRaises, Crashes
<1>16. CASE LastReset BY <1>16, QuietStep DEF LastReset
<1>17. ASSUME NEW c \in Classes, Start(c) PROVE TypeOK' /\ RunnerInv'
  BY <1>17, StartStep
<1>18. CASE UNCHANGED vars
  <2>1. TypeOK' BY <1>18 DEF vars, TypeOK
  <2>2. BudgetKept' /\ WhyKept' /\ DraftKept'
    BY <1>18 DEF vars, RunnerInv, BudgetKept, WhyKept, DraftKept, Source, Attempt
  <2>3. TracebackKept' /\ RecordKept' /\ AdmissionGate'
    BY <1>18 DEF vars, RunnerInv, TracebackKept, RecordKept, AdmissionGate
  <2> QED BY <2>1, <2>2, <2>3 DEF RunnerInv
<1> QED BY <1>1, <1>3, <1>4, <1>5, <1>6, <1>7, <1>8, <1>9, <1>10, <1>11, <1>12, <1>13, <1>14,
           <1>15, <1>16, <1>17, <1>18 DEF Next, Proceed

\* The inductive invariant holds in every state of a commission.
THEOREM RunnerCorrect == Spec => [](TypeOK /\ RunnerInv)
<1>1. TypeOK /\ RunnerInv /\ [Next]_vars => (TypeOK /\ RunnerInv)' BY RunnerStep
<1> QED BY <1>1, RunnerInit, PTL DEF Spec

\* The run's state is well typed, its attempts within the budget.
THEOREM TypeCorrect == Spec => []TypeOK
BY RunnerCorrect, PTL

\* A driver that never passed on the board is not in the registry.
THEOREM OnlyVerifiedAdmitted == Spec => []AdmissionGate
<1>1. RunnerInv => AdmissionGate BY DEF RunnerInv
<1> QED BY <1>1, RunnerCorrect, PTL

\* MEDIC is always handed the failure, and the draft, of the attempt just before.
THEOREM InformedRepair == Spec => []RepairKnowsWhy
<1>1. TypeOK /\ RunnerInv => RepairKnowsWhy
  <2> SUFFICES ASSUME TypeOK, RunnerInv, pc \in {"drawGenerate", "author"} PROVE RepairKnowsWhy
    BY DEF RepairKnowsWhy
  <2>1. attempts \in Seq(Result) BY DEF TypeOK, Result
  <2>2. CASE attempts = <<>>
    <3>1. Len(attempts) = 0 BY <2>2
    <3> QED BY <2>2, <3>1 DEF RunnerInv, WhyKept, DraftKept, InAttempt, RepairKnowsWhy
  <2>3. CASE attempts # <<>>
    <3>1. Len(attempts) \in Nat /\ Len(attempts) > 0 BY <2>1, <2>3
    <3>2. Last(attempts) = attempts[Len(attempts)] BY DEF Last
    <3> QED BY <2>3, <3>1, <3>2 DEF RunnerInv, WhyKept, DraftKept, InAttempt, RepairKnowsWhy
  <2> QED BY <2>2, <2>3
<1> QED BY <1>1, RunnerCorrect, PTL

\* A failure is announced only after the whole budget failed, with its latest reason
\* and traceback.
THEOREM FailureIsHonest == Spec => []HonestFailure
<1>1. TypeOK /\ RunnerInv => HonestFailure
  <2> SUFFICES ASSUME TypeOK, RunnerInv, outcome = "failed" PROVE HonestFailure
    BY DEF HonestFailure
  <2>1. attempts \in Seq(Result) /\ Len(attempts) \in Nat BY LenProperties DEF TypeOK, Result
  <2>2. Len(attempts) = MaxAttempts BY DEF RunnerInv, BudgetKept
  <2>3. Range(attempts) \subseteq Failures BY <2>1 DEF Range, RunnerInv, WhyKept
  <2>4. ASSUME attempts # <<>>
        PROVE  lastError = [attempt |-> MaxAttempts, kind |-> Last(attempts)]
    <3>1. Len(attempts) > 0 BY <2>1, <2>4
    <3>2. Last(attempts) = attempts[Len(attempts)] BY DEF Last
    <3> QED BY <2>2, <3>1, <3>2 DEF RunnerInv, WhyKept
  <2> QED BY <2>2, <2>3, <2>4 DEF HonestFailure, RunnerInv, TracebackKept
<1> QED BY <1>1, RunnerCorrect, PTL

\* A pass is announced exactly when the registry runs the source this run verified.
THEOREM PassIsLive == Spec => []PassMeansLive
<1>1. TypeOK /\ RunnerInv => PassMeansLive
  <2> SUFFICES ASSUME TypeOK, RunnerInv, run > 0 PROVE PassMeansLive BY DEF PassMeansLive
  <2>1. run \in Nat BY BoundsAssumption DEF TypeOK
  <2>2. CASE announced = "passed" BY <2>2 DEF RunnerInv, RecordKept, PassMeansLive
  <2>3. CASE announced # "passed"
    <3>1. record.code.run < run BY <2>3 DEF RunnerInv, RecordKept
    <3>2. record.code.run \in Nat BY <2>1, BoundsAssumption DEF TypeOK, Code, Unregistered, None
    <3>3. record.code # [run |-> run, attempt |-> Len(attempts)] BY <2>1, <3>1, <3>2
    <3> QED BY <2>3, <3>3 DEF PassMeansLive
  <2> QED BY <2>2, <2>3
<1> QED BY <1>1, RunnerCorrect, PTL

\* A slug that has a driver keeps one, and never an earlier run's.
THEOREM RegistryImproves == Spec => DriverOnlyImproves
<1>1. TypeOK /\ RunnerInv /\ [Next]_vars =>
        [record # Unregistered => record' # Unregistered /\ record'.code.run >= record.code.run]_vars
  <2> SUFFICES ASSUME TypeOK, RunnerInv, [Next]_vars, record # Unregistered
               PROVE  record' # Unregistered /\ record'.code.run >= record.code.run
    OBVIOUS
  <2>1. MaxRuns \in Nat BY BoundsAssumption
  <2>2. record.code.run \in Nat BY <2>1 DEF TypeOK, Code
  <2>3. CASE UNCHANGED record BY <2>2, <2>3
  <2>4. CASE TestPasses
    <3>1. record.code.run <= run /\ run > 0 BY <2>4 DEF TestPasses, RunnerInv, RecordKept, BudgetKept
    <3>2. record' = [record EXCEPT !.code = Source] BY <2>4 DEF TestPasses, Admit
    <3>3. record'.code.run = run BY <3>2 DEF Source, TypeOK
    <3>4. run \in Nat BY <2>1 DEF TypeOK
    <3>5. record'.code # None BY <3>1, <3>3, <3>4 DEF None
    <3> QED BY <3>1, <3>3, <3>5 DEF Unregistered
  <2>5. UNCHANGED record \/ TestPasses
    BY DEF Next, Proceed, vars, Start, Entered, Drawn, DrawnGenerate, DrawnTest, DrawnFailed, DrawnPassed,
           AuthorRaises, AuthorReturns, AttemptFails, Crashes, ResyncRaises, ExecRaises, TestTimesOut,
           TestFails, ResetReturns, ResetRaises, LastReset
  <2> QED BY <2>3, <2>4, <2>5
<1> QED BY <1>1, RunnerCorrect, PTL DEF Spec, DriverOnlyImproves

-----------------------------------------------------------------------------
(* The service: single flight and honest outcomes.  Inductive: a running   *)
(* task is the current one, and an entry of the ring belongs to a settled  *)
(* task whose result no later step changes; a ring that is not full has an *)
(* entry for every settled task.                                           *)

\* What the ring holds.
Entry == [id : Commissions, status : Verdicts]

\* The ring after a record is the old ring with the new entry behind it, or that
\* without its head; each of its entries is an old one or the new one.
LEMMA RecordType ==
  ASSUME outcomes \in Seq(Entry), Len(outcomes) <= RingCap,
         NEW c \in Commissions, NEW v \in Verdicts, RecordOutcome(c, v)
  PROVE  outcomes' \in Seq(Entry) /\ Len(outcomes') <= RingCap
<1> DEFINE e == [id |-> c, status |-> v]
           ring == Append(outcomes, e)
<1>0. RingCap \in Nat \ {0} BY RingCapAssumption
<1>1. e \in Entry BY DEF Entry
<1>2. ring \in Seq(Entry) /\ Len(ring) = Len(outcomes) + 1 BY <1>1
<1>3. outcomes' = IF Len(ring) > RingCap THEN Tail(ring) ELSE ring BY DEF RecordOutcome
<1> HIDE DEF ring
<1>4. Len(ring) \in Nat /\ Len(outcomes) \in Nat BY <1>2
<1>5. CASE Len(ring) > RingCap
  <2>1. ring # <<>> BY <1>2, <1>4
  <2>2. Tail(ring) \in Seq(Entry) /\ Len(Tail(ring)) = Len(ring) - 1 BY <1>2, <2>1
  <2> QED BY <1>0, <1>2, <1>3, <1>4, <1>5, <2>2
<1>6. CASE ~(Len(ring) > RingCap)
  BY <1>0, <1>2, <1>3, <1>4, <1>6
<1> QED BY <1>5, <1>6

\* Each entry of the new ring is the new one, at its end, or an old one at its place
\* or one further back.
LEMMA RecordPlaces ==
  ASSUME outcomes \in Seq(Entry),
         NEW c \in Commissions, NEW v \in Verdicts, RecordOutcome(c, v)
  PROVE  \E k \in {0, 1} : \A i \in 1 .. Len(outcomes') :
           \/ i + k \in 1 .. Len(outcomes) /\ outcomes'[i] = outcomes[i + k]
           \/ i + k = Len(outcomes) + 1 /\ outcomes'[i] = [id |-> c, status |-> v]
<1> DEFINE e == [id |-> c, status |-> v]
           ring == Append(outcomes, e)
<1>0. RingCap \in Nat \ {0} BY RingCapAssumption
<1>1. e \in Entry BY DEF Entry
<1>2. /\ ring \in Seq(Entry) /\ Len(ring) = Len(outcomes) + 1
      /\ \A i \in 1 .. Len(outcomes) : ring[i] = outcomes[i]
      /\ ring[Len(outcomes) + 1] = e
  BY <1>1
<1>3. outcomes' = IF Len(ring) > RingCap THEN Tail(ring) ELSE ring BY DEF RecordOutcome
<1>4. Len(outcomes) \in Nat OBVIOUS
<1> HIDE DEF ring
<1>5. CASE Len(ring) > RingCap
  <2>1. ring # <<>> BY <1>2, <1>4
  <2>2. /\ Len(Tail(ring)) = Len(outcomes)
        /\ \A i \in 1 .. Len(Tail(ring)) : Tail(ring)[i] = ring[i + 1]
    BY <1>2, <1>4, <2>1
  <2>3. outcomes' = Tail(ring) BY <1>3, <1>5
  <2>4. \A i \in 1 .. Len(outcomes') :
           \/ i + 1 \in 1 .. Len(outcomes) /\ outcomes'[i] = outcomes[i + 1]
           \/ i + 1 = Len(outcomes) + 1 /\ outcomes'[i] = e
    BY <1>2, <1>4, <2>2, <2>3
  <2> QED BY <2>4
<1>6. CASE ~(Len(ring) > RingCap)
  <2>1. outcomes' = ring BY <1>3, <1>6
  <2>2. \A i \in 1 .. Len(outcomes') :
           \/ i + 0 \in 1 .. Len(outcomes) /\ outcomes'[i] = outcomes[i + 0]
           \/ i + 0 = Len(outcomes) + 1 /\ outcomes'[i] = e
    BY <1>2, <1>4, <2>1
  <2> QED BY <2>2
<1> QED BY <1>5, <1>6

\* A record only ever takes an entry out of a full ring: the ring is then still full,
\* or else every old entry is where it was, with the new one behind them.
LEMMA RecordForgets ==
  ASSUME outcomes \in Seq(Entry), Len(outcomes) <= RingCap,
         NEW c \in Commissions, NEW v \in Verdicts, RecordOutcome(c, v)
  PROVE  \/ Len(outcomes') = RingCap
         \/ /\ Len(outcomes') = Len(outcomes) + 1
            /\ \A i \in 1 .. Len(outcomes) : outcomes'[i] = outcomes[i]
            /\ outcomes'[Len(outcomes) + 1] = [id |-> c, status |-> v]
<1> DEFINE e == [id |-> c, status |-> v]
           ring == Append(outcomes, e)
<1>0. RingCap \in Nat \ {0} /\ Len(outcomes) \in Nat BY RingCapAssumption
<1>1. e \in Entry BY DEF Entry
<1>2. /\ ring \in Seq(Entry) /\ Len(ring) = Len(outcomes) + 1
      /\ \A i \in 1 .. Len(outcomes) : ring[i] = outcomes[i]
      /\ ring[Len(outcomes) + 1] = e
  BY <1>1
<1>3. outcomes' = IF Len(ring) > RingCap THEN Tail(ring) ELSE ring BY DEF RecordOutcome
<1> HIDE DEF ring
<1>4. CASE Len(ring) > RingCap
  <2>1. Len(outcomes) = RingCap BY <1>0, <1>2, <1>4
  <2>2. Len(Tail(ring)) = Len(outcomes) BY <1>0, <1>2
  <2> QED BY <1>3, <1>4, <2>1, <2>2
<1>5. CASE ~(Len(ring) > RingCap)
  BY <1>2, <1>3, <1>5
<1> QED BY <1>4, <1>5

-----------------------------------------------------------------------------
LEMMA ServiceTypeInit == ServiceInit => ServiceTypeOK
<1> SUFFICES ASSUME ServiceInit PROVE ServiceTypeOK OBVIOUS
<1>1. outcomes \in Seq(Entry) /\ Len(outcomes) = 0 BY DEF ServiceInit
<1> QED BY <1>1, RingCapAssumption DEF ServiceInit, ServiceTypeOK, Entry

\* What status() answers is a verdict, the in-flight marker or "unknown", and it is a
\* verdict for each commission the ring has an entry of.
LEMMA StatusType ==
  ASSUME ServiceTypeOK, NEW c \in Commissions
  PROVE  /\ Status(c) \in Verdicts \cup {"running", "unknown"}
         /\ Recorded(c) # {} => Status(c) \in Verdicts
<1>1. CASE Recorded(c) # {}
  <2> DEFINE e == CHOOSE e \in Recorded(c) : TRUE
  <2>1. e \in Recorded(c) BY <1>1
  <2>2. Status(c) = e.status BY <1>1 DEF Status
  <2> HIDE DEF e
  <2>3. e \in Range(outcomes) BY <2>1 DEF Recorded
  <2>4. outcomes \in Seq(Entry) BY DEF ServiceTypeOK, Entry
  <2>5. PICK i \in 1 .. Len(outcomes) : e = outcomes[i]
    BY <2>3, <2>4 DEF Range
  <2>6. e \in Entry BY <2>4, <2>5, ElementOfSeq
  <2>7. e.status \in Verdicts BY <2>6 DEF Entry
  <2> QED BY <2>2, <2>7
<1>2. CASE Recorded(c) = {} /\ c = current /\ Running
  <2>1. Status(c) = "running" BY <1>2 DEF Status
  <2> QED BY <1>2, <2>1
<1>3. CASE Recorded(c) = {} /\ ~(c = current /\ Running)
  <2>1. Status(c) = "unknown" BY <1>3 DEF Status
  <2> QED BY <1>3, <2>1
<1> QED BY <1>1, <1>2, <1>3

LEMMA ServiceTypeStep == ServiceTypeOK /\ ServiceInv /\ [ServiceNext]_serviceVars => ServiceTypeOK'
<1> SUFFICES ASSUME ServiceTypeOK, ServiceInv, [ServiceNext]_serviceVars PROVE ServiceTypeOK' OBVIOUS
<1>1. ASSUME NEW c \in Commissions, Enqueue(c) PROVE ServiceTypeOK'
  BY <1>1 DEF ServiceTypeOK, Enqueue, Running
<1>2. ASSUME NEW c \in Commissions, RunEnds(c) PROVE ServiceTypeOK'
  BY <1>2 DEF ServiceTypeOK, RunEnds
<1>3. ASSUME NEW c \in Commissions, OnDone(c) PROVE ServiceTypeOK'
  <2>1. outcomes' \in Seq(Entry) /\ Len(outcomes') <= RingCap
    BY <1>3, RecordType DEF ServiceTypeOK, OnDone, Entry, ServiceInv
  <2> QED BY <1>3, <2>1 DEF ServiceTypeOK, OnDone, Entry
<1>4. ASSUME NEW c \in Commissions, Remembered(c) PROVE ServiceTypeOK'
  BY <1>4 DEF ServiceTypeOK, Remembered
<1>5. ASSUME NEW c \in Commissions, Poll(c) PROVE ServiceTypeOK'
  <2>1. Status(c) \in Verdicts \cup {"unknown"} BY <1>5, StatusType DEF Poll
  <2>2. client' = [client EXCEPT ![c] = Status(c)] BY <1>5 DEF Poll
  <2>3. client' \in [Commissions -> Verdicts \cup {"none", "refused", "polling", "unknown"}]
    BY <2>1, <2>2 DEF ServiceTypeOK
  <2> QED BY <1>5, <2>3 DEF ServiceTypeOK, Poll
<1>6. CASE UNCHANGED serviceVars BY <1>6 DEF ServiceTypeOK, serviceVars
<1> QED BY <1>1, <1>2, <1>3, <1>4, <1>5, <1>6 DEF ServiceNext

-----------------------------------------------------------------------------
\* Nothing but the ring and the tasks matters to the stored outcomes: they stay honest
\* when no settled task changes and the ring is unchanged.
LEMMA HonestKept ==
  ASSUME ServiceTypeOK, OutcomesHonest, UNCHANGED outcomes,
         \A d \in Commissions : task[d] = "settled" => task'[d] = "settled" /\ result'[d] = result[d]
  PROVE  OutcomesHonest'
<1> QED BY DEF OutcomesHonest

LEMMA ServiceInvInit == ServiceInit => ServiceInv
<1> SUFFICES ASSUME ServiceInit PROVE ServiceInv OBVIOUS
<1>1. Len(outcomes) = 0 BY DEF ServiceInit
<1> QED BY <1>1 DEF ServiceInit, ServiceInv, OutcomesHonest

LEMMA ServiceStep == ServiceTypeOK /\ ServiceInv /\ [ServiceNext]_serviceVars => ServiceInv'
<1> SUFFICES ASSUME ServiceTypeOK, ServiceInv, [ServiceNext]_serviceVars PROVE ServiceInv' OBVIOUS
<1>1. ASSUME NEW c \in Commissions, Enqueue(c) PROVE ServiceInv'
  <2>1. CASE Running
    <3>1. UNCHANGED <<task, current, result, outcomes>> /\ client' = [client EXCEPT ![c] = "refused"]
      BY <1>1, <2>1 DEF Enqueue
    <3>2. OutcomesHonest' BY <3>1, HonestKept DEF ServiceInv
    <3> QED BY <1>1, <3>1, <3>2 DEF ServiceInv, ServiceTypeOK, Enqueue
  <2>2. CASE ~Running
    <3>1. /\ task' = [task EXCEPT ![c] = "running"] /\ current' = c
          /\ client' = [client EXCEPT ![c] = "polling"]
          /\ UNCHANGED <<result, outcomes>>
      BY <1>1, <2>2 DEF Enqueue
    <3>2. task[c] = "none" BY <1>1 DEF Enqueue, ServiceInv
    <3>3. OutcomesHonest' BY <3>1, <3>2, HonestKept DEF ServiceInv, ServiceTypeOK
    <3>4. \A d \in Commissions : task[d] # "running"
      <4> SUFFICES ASSUME NEW d \in Commissions, task[d] = "running" PROVE FALSE
        OBVIOUS
      <4>1. d = current BY DEF ServiceInv
      <4>2. current # NoCommission BY <4>1, CommissionsAssumption
      <4> QED BY <2>2, <4>1, <4>2 DEF Running
    <3> QED BY <3>1, <3>3, <3>4 DEF ServiceInv, ServiceTypeOK
  <2> QED BY <2>1, <2>2
<1>2. ASSUME NEW c \in Commissions, RunEnds(c) PROVE ServiceInv'
  <2>1. PICK v \in Verdicts : result' = [result EXCEPT ![c] = v] BY <1>2 DEF RunEnds
  <2>2. /\ task[c] = "running" /\ task' = [task EXCEPT ![c] = "done"]
        /\ UNCHANGED <<current, outcomes, client>>
    BY <1>2 DEF RunEnds
  <2>3. OutcomesHonest' BY <2>1, <2>2, HonestKept DEF ServiceInv, ServiceTypeOK
  <2> QED BY <2>1, <2>2, <2>3 DEF ServiceInv, ServiceTypeOK
<1>3. ASSUME NEW c \in Commissions, OnDone(c) PROVE ServiceInv'
  <2> DEFINE e == [id |-> c, status |-> result[c]]
  <2>1. /\ task[c] = "done" /\ task' = [task EXCEPT ![c] = "settled"]
        /\ RecordOutcome(c, result[c])
        /\ UNCHANGED <<result, current, client>>
    BY <1>3 DEF OnDone
  <2>2. result[c] \in Verdicts BY <2>1 DEF ServiceInv
  <2>3. outcomes \in Seq(Entry) /\ Len(outcomes) \in Nat BY DEF ServiceTypeOK, Entry
  <2>4. PICK k \in {0, 1} : \A i \in 1 .. Len(outcomes') :
           \/ i + k \in 1 .. Len(outcomes) /\ outcomes'[i] = outcomes[i + k]
           \/ i + k = Len(outcomes) + 1 /\ outcomes'[i] = e
    BY <2>1, <2>2, <2>3, RecordPlaces
  <2>5. \A i \in 1 .. Len(outcomes) : outcomes[i].id # c
    BY <2>1 DEF ServiceInv, OutcomesHonest
  <2>6. Len(outcomes') \in Nat
    BY <2>1, <2>2, <2>3, RecordType DEF ServiceTypeOK
  <2>7. \A i, j \in 1 .. Len(outcomes') : outcomes'[i].id = outcomes'[j].id => i = j
    <3> SUFFICES ASSUME NEW i \in 1 .. Len(outcomes'), NEW j \in 1 .. Len(outcomes'),
                        outcomes'[i].id = outcomes'[j].id
                 PROVE  i = j
      OBVIOUS
    <3>1. e.id = c OBVIOUS
    <3> HIDE DEF e
    <3>2. CASE i + k \in 1 .. Len(outcomes) /\ j + k \in 1 .. Len(outcomes)
      <4>1. outcomes'[i] = outcomes[i + k] /\ outcomes'[j] = outcomes[j + k]
        BY <2>3, <2>4, <3>2
      <4>2. i + k = j + k BY <3>2, <4>1 DEF ServiceInv, OutcomesHonest
      <4> QED BY <2>6, <4>2
    <3>3. CASE i + k \notin 1 .. Len(outcomes) \/ j + k \notin 1 .. Len(outcomes)
      BY <2>3, <2>4, <2>5, <2>6, <3>1, <3>3
    <3> QED BY <3>2, <3>3
  <2>8. ASSUME NEW i \in 1 .. Len(outcomes')
        PROVE  /\ outcomes'[i].id \in Commissions
               /\ task'[outcomes'[i].id] = "settled"
               /\ outcomes'[i].status = result'[outcomes'[i].id]
    <3>1. CASE i + k \in 1 .. Len(outcomes) /\ outcomes'[i] = outcomes[i + k]
      <4>1. /\ outcomes[i + k].id \in Commissions /\ task[outcomes[i + k].id] = "settled"
            /\ outcomes[i + k].status = result[outcomes[i + k].id]
        BY <3>1 DEF ServiceInv, OutcomesHonest
      <4> QED BY <2>1, <3>1, <4>1 DEF ServiceTypeOK
    <3>2. CASE outcomes'[i] = e
      BY <2>1, <3>2 DEF ServiceTypeOK
    <3> QED BY <2>4, <3>1, <3>2
  <2>9. OutcomesHonest' BY <2>7, <2>8 DEF OutcomesHonest
  <2> QED BY <2>1, <2>2, <2>9 DEF ServiceInv, ServiceTypeOK
<1>4. ASSUME NEW c \in Commissions, Remembered(c) PROVE ServiceInv'
  <2>1. OutcomesHonest' BY <1>4, HonestKept DEF Remembered, ServiceInv
  <2> QED BY <1>4, <2>1 DEF Remembered, ServiceInv
<1>5. ASSUME NEW c \in Commissions, Poll(c) PROVE ServiceInv'
  <2>1. OutcomesHonest' BY <1>5, HonestKept DEF Poll, ServiceInv
  <2>2. Status(c) \in Verdicts \cup {"unknown"} BY <1>5, StatusType DEF Poll
  <2>3. Status(c) \notin {"none", "refused"} BY <2>2 DEF Verdicts
  <2>4. client' = [client EXCEPT ![c] = Status(c)] BY <1>5 DEF Poll
  <2>5. \A d \in Commissions : client'[d] \in {"none", "refused"} => client[d] \in {"none", "refused"}
    BY <2>3, <2>4 DEF ServiceTypeOK
  <2> QED BY <1>5, <2>1, <2>5 DEF Poll, ServiceInv
<1>6. CASE UNCHANGED serviceVars
  <2>1. OutcomesHonest' BY <1>6, HonestKept DEF serviceVars, ServiceInv
  <2> QED BY <1>6, <2>1 DEF serviceVars, ServiceInv
<1> QED BY <1>1, <1>2, <1>3, <1>4, <1>5, <1>6 DEF ServiceNext

\* The inductive invariant holds in every state of the service.
THEOREM ServiceCorrect == ServiceSpec => [](ServiceTypeOK /\ ServiceInv)
<1>1. ServiceInit => ServiceTypeOK /\ ServiceInv BY ServiceTypeInit, ServiceInvInit
<1>2. ServiceTypeOK /\ ServiceInv /\ [ServiceNext]_serviceVars => (ServiceTypeOK /\ ServiceInv)'
  BY ServiceTypeStep, ServiceStep
<1> QED BY <1>1, <1>2, PTL DEF ServiceSpec

\* The service's state is well typed, its ring within the cap.
THEOREM ServiceTypeCorrect == ServiceSpec => []ServiceTypeOK
BY ServiceCorrect, PTL

\* At most one commission is in flight.
THEOREM OneFlight == ServiceSpec => []SingleFlight
<1>1. ServiceInv => SingleFlight BY DEF ServiceInv, SingleFlight
<1> QED BY <1>1, ServiceCorrect, PTL

\* Every stored outcome is its own run's, once.
THEOREM HonestOutcomes == ServiceSpec => []OutcomesHonest
<1>1. ServiceInv => OutcomesHonest BY DEF ServiceInv
<1> QED BY <1>1, ServiceCorrect, PTL

-----------------------------------------------------------------------------
\* What a status query finds.

LEMMA RingInit == ServiceInit => RingRemembers
BY DEF ServiceInit, RingRemembers

LEMMA RingStep == ServiceTypeOK /\ ServiceInv /\ RingRemembers /\ [ServiceNext]_serviceVars => RingRemembers'
<1> SUFFICES ASSUME ServiceTypeOK, ServiceInv, RingRemembers, [ServiceNext]_serviceVars PROVE RingRemembers'
  OBVIOUS
<1>1. ASSUME NEW c \in Commissions, OnDone(c) PROVE RingRemembers'
  <2>1. /\ task' = [task EXCEPT ![c] = "settled"] /\ RecordOutcome(c, result[c])
        /\ result[c] \in Verdicts
    BY <1>1 DEF OnDone, ServiceInv
  <2>2. outcomes \in Seq(Entry) /\ Len(outcomes) \in Nat /\ Len(outcomes) <= RingCap
    BY DEF ServiceTypeOK, Entry
  <2>3. CASE Len(outcomes') = RingCap
    BY <2>3 DEF RingRemembers
  <2>4. CASE /\ Len(outcomes') = Len(outcomes) + 1
             /\ \A i \in 1 .. Len(outcomes) : outcomes'[i] = outcomes[i]
             /\ outcomes'[Len(outcomes) + 1] = [id |-> c, status |-> result[c]]
    <3> SUFFICES ASSUME NEW d \in Commissions, task'[d] = "settled"
                 PROVE  \/ \E i \in 1 .. Len(outcomes') : outcomes'[i].id = d
                        \/ Len(outcomes') = RingCap
      BY DEF RingRemembers
    <3>1. CASE d = c
      <4>1. outcomes'[Len(outcomes) + 1].id = d BY <2>4, <3>1
      <4>2. Len(outcomes) + 1 \in 1 .. Len(outcomes') BY <2>2, <2>4
      <4> QED BY <4>1, <4>2
    <3>2. CASE d # c /\ Len(outcomes) = RingCap
      <4>1. Len(outcomes') <= RingCap BY <2>1, <2>2, RecordType
      <4> QED BY <2>2, <2>4, <3>2, <4>1, RingCapAssumption
    <3>3. CASE d # c /\ Len(outcomes) # RingCap
      <4>1. task[d] = "settled" BY <2>1, <3>3 DEF ServiceTypeOK
      <4>2. PICK i \in 1 .. Len(outcomes) : outcomes[i].id = d
        BY <3>3, <4>1 DEF RingRemembers
      <4>3. i \in 1 .. Len(outcomes') /\ outcomes'[i].id = d BY <2>2, <2>4, <4>2
      <4> QED BY <4>3
    <3> QED BY <3>1, <3>2, <3>3
  <2> QED BY <2>1, <2>2, <2>3, <2>4, RecordForgets
<1>2. ASSUME \A d \in Commissions : task'[d] = "settled" => task[d] = "settled",
             UNCHANGED outcomes
      PROVE  RingRemembers'
  BY <1>2 DEF RingRemembers
<1>3. ASSUME NEW c \in Commissions, Enqueue(c) PROVE RingRemembers'
  BY <1>2, <1>3 DEF Enqueue, ServiceTypeOK
<1>4. ASSUME NEW c \in Commissions, RunEnds(c) PROVE RingRemembers'
  BY <1>2, <1>4 DEF RunEnds, ServiceTypeOK
<1>5. ASSUME NEW c \in Commissions, Remembered(c) \/ Poll(c) PROVE RingRemembers'
  BY <1>2, <1>5 DEF Remembered, Poll
<1>6. CASE UNCHANGED serviceVars BY <1>2, <1>6 DEF serviceVars
<1> QED BY <1>1, <1>3, <1>4, <1>5, <1>6 DEF ServiceNext

\* An outcome is forgotten only to make room in a full ring.
THEOREM RingIsMemory == ServiceSpec => []RingRemembers
<1>1. ServiceInit => RingRemembers BY RingInit
<1>2. ServiceTypeOK /\ ServiceInv /\ RingRemembers /\ [ServiceNext]_serviceVars => RingRemembers' BY RingStep
<1> QED BY <1>1, <1>2, ServiceCorrect, PTL DEF ServiceSpec

\* A settled commission, a crashed one included, is answered from the ring for as long
\* as the ring is not full (service.py's status() never says None too early).
THEOREM SettledIsKnown == ServiceSpec => []RecentlySettledIsKnown
<1>1. ServiceTypeOK /\ RingRemembers => RecentlySettledIsKnown
  <2> SUFFICES ASSUME ServiceTypeOK, RingRemembers, NEW c \in Commissions,
                      task[c] = "settled", Status(c) = "unknown", Len(outcomes) # RingCap
               PROVE  FALSE
    BY DEF RecentlySettledIsKnown
  <2>1. PICK i \in 1 .. Len(outcomes) : outcomes[i].id = c BY DEF RingRemembers
  <2>2. outcomes[i] \in Recorded(c)
    BY <2>1 DEF Recorded, Range, ServiceTypeOK
  <2>3. Status(c) \in Verdicts BY <2>2, StatusType
  <2> QED BY <2>3 DEF Verdicts
<1> QED BY <1>1, RingIsMemory, ServiceCorrect, PTL

-----------------------------------------------------------------------------
(* The narrator: the frame that may be coalesced away is on the panel.     *)

LEMMA NarratorTypeInit == NarratorInit => NarratorTypeOK
<1> SUFFICES ASSUME NarratorInit PROVE NarratorTypeOK OBVIOUS
<1>1. inbox \in Seq(Events) /\ Len(inbox) = 0 BY DEF NarratorInit
<1>2. MaxInbox \in Nat BY InboxAssumption
<1>3. model \in [connected : BOOLEAN, busy : BOOLEAN, active : BOOLEAN,
                 stage : {"none", "working"}, outcome : {"none", "passed", "failed"}]
  BY Zenon DEF NarratorInit
<1>4. timers \in [rotate : Nat, card : Nat, message : Nat, retry : Nat]
  BY DEF NarratorInit
<1> QED BY <1>1, <1>2, <1>3, <1>4 DEF NarratorInit, NarratorTypeOK

\* Events that are published lengthen the inbox within its bound.
LEMMA Published ==
  ASSUME inbox \in Seq(Events), NEW events \in Seq(Events), Publish(events)
  PROVE  inbox' \in Seq(Events) /\ Len(inbox') <= MaxInbox
BY DEF Publish

LEMMA EventSeqs ==
  /\ <<"busy">> \in Seq(Events) /\ <<"idle">> \in Seq(Events) /\ <<"started">> \in Seq(Events)
  /\ <<"working">> \in Seq(Events) /\ <<"passed">> \in Seq(Events)
  /\ <<"idle", "failed">> \in Seq(Events)
BY DEF Events

\* The card that is wanted is one that can be drawn.
LEMMA WantedCard ==
  ASSUME NarratorTypeOK
  PROVE  Wanted \in Cards
<1> DEFINE m == [model EXCEPT !.active = CardShown]
<1>1. m.stage \in {"none", "working"} /\ m.outcome \in {"none", "passed", "failed"}
  BY DEF NarratorTypeOK
<1>2. CurrentView \in {"agent", "telemetry", "message"}
  BY DEF CurrentView, Turned, NarratorTypeOK
<1> HIDE DEF m
<1>3. Frame(m, CurrentView) \in Cards BY <1>1, <1>2 DEF Frame, Cards
<1> QED BY <1>3 DEF Wanted, m

LEMMA BeginType ==
  ASSUME NarratorTypeOK, NEW d \in Drawers, NEW frame \in Cards, Begin(d, frame)
  PROVE  /\ doing' \in [Drawers -> {"sleep", "init", "draw", "reinit", "redraw"}]
         /\ payload' \in [Drawers -> Cards \cup {"none"}]
         /\ \A e \in Drawers : doing'[e] # "sleep" => payload'[e] \in Cards
BY DEF Begin, NarratorTypeOK

\* A drawer's exec leaves the narrator's face and the bus as they are.
LEMMA ExecType ==
  ASSUME NarratorTypeOK, NEW d \in Drawers, Exec(d)
  PROVE  NarratorTypeOK'
<1> USE DEF board, face, flags, Goto, NarratorTypeOK
<1>1. RetryTicks \in Nat BY TicksAssumption
<1>2. timers' \in [rotate : Nat, card : Nat, message : Nat, retry : Nat]
      /\ lastPayload' \in Cards \cup {"none"}
  BY <1>1 DEF Exec, InitOk, InitFails, DrawOk, NameError, DrawFails, DrawTimesOut, MarkAbsent,
              InitDone
<1>3. /\ doing' \in [Drawers -> {"sleep", "init", "draw", "reinit", "redraw"}]
      /\ \A e \in Drawers : doing'[e] # "sleep" => doing[e] # "sleep"
      /\ UNCHANGED <<payload, inbox, face, comm>>
  BY DEF Exec, InitOk, InitFails, DrawOk, NameError, DrawFails, DrawTimesOut
<1>4. panel' \in Cards \cup {"off", "blank"}
  <2>1. CASE InitOk(d) BY <2>1 DEF InitOk
  <2>2. CASE InitFails(d) \/ NameError(d) \/ DrawFails(d)
    BY <2>2 DEF InitFails, NameError, DrawFails
  <2>3. CASE DrawOk(d) \/ DrawTimesOut(d)
    <3>1. payload[d] \in Cards BY <2>3 DEF DrawOk, DrawTimesOut
    <3> QED BY <2>3, <3>1 DEF DrawOk, DrawTimesOut
  <2> QED BY <2>1, <2>2, <2>3 DEF Exec
<1> QED BY <1>2, <1>3, <1>4

LEMMA NarratorTypeStep == NarratorTypeOK /\ [NarratorNext]_narratorVars => NarratorTypeOK'
<1> SUFFICES ASSUME NarratorTypeOK, [NarratorNext]_narratorVars PROVE NarratorTypeOK' OBVIOUS
<1> USE DEF board, face, flags
<1>0. {RotateTicks, CardTicks, HoldTicks, RetryTicks} \subseteq Nat /\ MaxInbox \in Nat
  BY TicksAssumption, InboxAssumption
<1>1. CASE Consume
  <2> DEFINE e == Head(inbox)
  <2>1. inbox \in Seq(Events) /\ inbox # <<>> /\ Len(inbox) <= MaxInbox
    BY <1>1 DEF Consume, NarratorTypeOK
  <2>2. e \in Events /\ Tail(inbox) \in Seq(Events) /\ Len(Tail(inbox)) <= MaxInbox
    BY <1>0, <2>1
  <2> HIDE DEF e
  <2>3. Applied(model, e) \in [connected : BOOLEAN, busy : BOOLEAN, active : BOOLEAN,
                               stage : {"none", "working"}, outcome : {"none", "passed", "failed"}]
    <3>1. (e = "busy") \in BOOLEAN OBVIOUS
    <3> QED BY <2>2, <3>1 DEF Applied, Events, NarratorTypeOK
  <2>4. timers' \in [rotate : Nat, card : Nat, message : Nat, retry : Nat]
    BY <1>0, <1>1 DEF Consume, NarratorTypeOK
  <2>5. model' = Applied(model, e) /\ inbox' = Tail(inbox)
        /\ UNCHANGED <<board, view, flags, doing, payload, comm>>
    BY <1>1 DEF Consume, e
  <2> QED BY <2>2, <2>3, <2>4, <2>5 DEF NarratorTypeOK
<1>2. CASE BoardScan
  <2>1. inbox' \in Seq(Events) /\ Len(inbox') <= MaxInbox
    BY <1>2, Published, EventSeqs DEF BoardScan, NarratorTypeOK
  <2> QED BY <1>2, <2>1 DEF BoardScan, NarratorTypeOK
<1>3. CASE Render
  <2>1. CASE UNCHANGED <<face, timers, doing, payload>>
    BY <1>3, <2>1 DEF Render, NarratorTypeOK
  <2>2. CASE /\ Choose
             /\ UNCHANGED <<doing, payload>> \/ Begin("render", Wanted)
    <3>1. CardShown \in BOOLEAN BY DEF CardShown
    <3>2. model' \in [connected : BOOLEAN, busy : BOOLEAN, active : BOOLEAN,
                       stage : {"none", "working"}, outcome : {"none", "passed", "failed"}]
      BY <2>2, <3>1 DEF Choose, NarratorTypeOK
    <3>3. timers' \in [rotate : Nat, card : Nat, message : Nat, retry : Nat]
      BY <1>0, <2>2 DEF Choose, NarratorTypeOK
    <3>4. view' \in {"agent", "telemetry"} BY <2>2 DEF Choose, Turned, NarratorTypeOK
    <3>5. /\ doing' \in [Drawers -> {"sleep", "init", "draw", "reinit", "redraw"}]
          /\ payload' \in [Drawers -> Cards \cup {"none"}]
          /\ \A e \in Drawers : doing'[e] # "sleep" => payload'[e] \in Cards
      <4>1. CASE UNCHANGED <<doing, payload>> BY <4>1 DEF NarratorTypeOK
      <4>2. CASE Begin("render", Wanted)
        <5>1. "render" \in Drawers BY DEF Drawers
        <5> QED BY <4>2, <5>1, WantedCard, BeginType
      <4> QED BY <2>2, <4>1, <4>2
    <3>6. UNCHANGED <<board, inbox, flags, comm>> BY <1>3 DEF Render
    <3> QED BY <3>2, <3>3, <3>4, <3>5, <3>6 DEF NarratorTypeOK
  <2> QED BY <1>3, <2>1, <2>2 DEF Render
<1>4. CASE Tick
  <2>1. \A n \in Nat : Less(n) \in Nat BY DEF Less
  <2>2. timers' = [t \in DOMAIN timers |-> Less(timers[t])]
        /\ UNCHANGED <<board, inbox, face, flags, doing, payload, comm>>
    BY <1>4 DEF Tick
  <2>3. timers' \in [rotate : Nat, card : Nat, message : Nat, retry : Nat]
    <3>1. DOMAIN timers = {"rotate", "card", "message", "retry"}
          /\ \A t \in DOMAIN timers : timers[t] \in Nat
      BY DEF NarratorTypeOK
    <3> QED BY <2>1, <2>2, <3>1
  <2> QED BY <2>2, <2>3 DEF NarratorTypeOK
<1>5. CASE Say
  <2>1. timers' \in [rotate : Nat, card : Nat, message : Nat, retry : Nat]
    BY <1>0, <1>5 DEF Say, NarratorTypeOK
  <2> QED BY <1>5, <2>1 DEF Say, NarratorTypeOK
<1>6. CASE \E d \in Drawers : Exec(d) BY <1>6, ExecType
<1>7. CASE CommissionStarts \/ CommissionEnters
  <2>1. inbox' \in Seq(Events) /\ Len(inbox') <= MaxInbox
    BY <1>7, Published, EventSeqs DEF CommissionStarts, CommissionEnters, NarratorTypeOK
  <2> QED BY <1>7, <2>1 DEF CommissionStarts, CommissionEnters, NarratorTypeOK
<1>8. CASE CommissionBeat
  <2>1. inbox' \in Seq(Events) /\ Len(inbox') <= MaxInbox
    BY <1>8, Published, EventSeqs DEF CommissionBeat, NarratorTypeOK
  <2>2. "commission" \in Drawers /\ "working" \in Cards /\ "passed" \in Cards
    BY DEF Drawers, Cards
  <2>3. /\ doing' \in [Drawers -> {"sleep", "init", "draw", "reinit", "redraw"}]
        /\ payload' \in [Drawers -> Cards \cup {"none"}]
        /\ \A e \in Drawers : doing'[e] # "sleep" => payload'[e] \in Cards
    BY <1>8, <2>2, BeginType DEF CommissionBeat
  <2> QED BY <1>8, <2>1, <2>3 DEF CommissionBeat, NarratorTypeOK
<1>9. CASE CommissionLeaves
  <2>1. inbox' \in Seq(Events) /\ Len(inbox') <= MaxInbox
    BY <1>9, Published, EventSeqs DEF CommissionLeaves, NarratorTypeOK
  <2> QED BY <1>9, <2>1 DEF CommissionLeaves, NarratorTypeOK
<1>10. CASE SoftReset BY <1>10 DEF SoftReset, NarratorTypeOK
<1>11. CASE PlugPanel BY <1>11 DEF PlugPanel, NarratorTypeOK
<1>12. CASE UNCHANGED narratorVars BY <1>12 DEF narratorVars, NarratorTypeOK
<1> QED BY <1>1, <1>2, <1>3, <1>4, <1>5, <1>6, <1>7, <1>8, <1>9, <1>10, <1>11, <1>12
        DEF NarratorNext

\* A drawer under way has a card to draw, and every timer counts.
THEOREM NarratorTypeCorrect == NarratorSpec => []NarratorTypeOK
BY NarratorTypeInit, NarratorTypeStep, PTL DEF NarratorSpec

\* What either drawer does keeps the memory of the last payload and the panel together:
\* an init and a message clear the memory, a missing panel ends `_initialized`, a cut
\* draw is torn, and a panel that lost its power is off.
LEMMA PayloadStep ==
  PanelShowsLastPayload /\ [NarratorNext]_narratorVars => PanelShowsLastPayload'
<1> SUFFICES ASSUME PanelShowsLastPayload, [NarratorNext]_narratorVars
             PROVE  PanelShowsLastPayload'
  OBVIOUS
<1> USE DEF board, face, flags, PanelShowsLastPayload
<1>1. ASSUME UNCHANGED <<panel, torn, flags>> PROVE PanelShowsLastPayload'
  BY <1>1
<1>2. CASE Consume \/ BoardScan \/ Render \/ Tick
  BY <1>1, <1>2 DEF Consume, BoardScan, Render, Tick
<1>3. CASE Say BY <1>3 DEF Say
<1>4. ASSUME NEW d \in Drawers, Exec(d) PROVE PanelShowsLastPayload'
  <2>1. CASE InitOk(d) BY <2>1 DEF InitOk, InitDone
  <2>2. CASE InitFails(d) BY <2>2 DEF InitFails, MarkAbsent
  <2>3. CASE DrawOk(d) BY <2>3 DEF DrawOk
  <2>4. CASE NameError(d) BY <2>4 DEF NameError
  <2>5. CASE DrawFails(d)
    <3>1. UNCHANGED <<panel, torn>> /\ (UNCHANGED flags \/ absent' = TRUE)
      BY <2>5 DEF DrawFails, MarkAbsent
    <3> QED BY <1>1, <3>1
  <2>6. CASE DrawTimesOut(d) BY <2>6 DEF DrawTimesOut
  <2> QED BY <1>4, <2>1, <2>2, <2>3, <2>4, <2>5, <2>6 DEF Exec
<1>5. CASE CommissionStarts \/ CommissionEnters \/ CommissionBeat \/ CommissionLeaves
  BY <1>1, <1>5 DEF CommissionStarts, CommissionEnters, CommissionBeat, CommissionLeaves
<1>6. CASE SoftReset BY <1>1, <1>6 DEF SoftReset
<1>7. CASE PlugPanel BY <1>7 DEF PlugPanel
<1>8. CASE UNCHANGED narratorVars BY <1>1, <1>8 DEF narratorVars
<1> QED BY <1>2, <1>3, <1>4, <1>5, <1>6, <1>7, <1>8 DEF NarratorNext

\* A frame is coalesced away only when the panel shows it, whichever drawer drew last
\* (hardware/oled_narrator.py:397).
THEOREM CoalescingIsSound == NarratorSpec => []PanelShowsLastPayload
<1>1. NarratorInit => PanelShowsLastPayload BY DEF NarratorInit, PanelShowsLastPayload
<1> QED BY <1>1, PayloadStep, PTL DEF NarratorSpec
=============================================================================
