------------------------- MODULE BoardSessionProofs -------------------------
(***************************************************************************)
(* Theorems about BoardSession for any sets of tasks and any MaxOps.       *)
(***************************************************************************)
EXTENDS BoardSession, SequenceTheorems, TLAPS

\* The control points a task of t's kind can be at.
Fits(t, at) == /\ t \in Callers => at \in CallerPc
               /\ t \in Owners => at \in OwnerPc
               /\ t = Poller => at \in PollerPc

-----------------------------------------------------------------------------
\* Types.

\* Taking one entry out of the lock's queue leaves a queue.
LEMMA WithoutOne ==
  ASSUME NEW S, NEW q \in Seq(S), NEW i \in 1 .. Len(q)
  PROVE  RemoveAt(q, i) \in Seq(S)
<1>1. SubSeq(q, 1, i-1) \in Seq(S)
  BY SubSeqProperties, LenProperties
<1>2. SubSeq(q, i+1, Len(q)) \in Seq(S)
  BY SubSeqProperties, LenProperties
<1> QED
  BY <1>1, <1>2, ConcatProperties DEF RemoveAt

\* Moving one task to a control point of its kind keeps the control points typed.
LEMMA MovesType ==
  ASSUME ControlOK, NEW t \in Tasks, NEW at, Fits(t, at), Moves(t, at)
  PROVE  ControlOK'
<1>1. at \in CallerPc \cup PollerPc \cup OwnerPc
  BY DEF Fits, Tasks
<1>2. pc' \in [Tasks -> CallerPc \cup PollerPc \cup OwnerPc]
  BY <1>1 DEF ControlOK, Moves
<1>3. \A u \in Tasks : pc'[u] = IF u = t THEN at ELSE pc[u]
  BY DEF ControlOK, Moves
<1> QED
  BY <1>2, <1>3, TasksAssumption DEF ControlOK, Fits, Tasks

\* The suspension points of a transport call fit every task.
LEMMA CallsFit ==
  ASSUME NEW t, NEW at \in InCall
  PROVE  Fits(t, at)
BY DEF Fits, CallerPc, OwnerPc, PollerPc, InBody

\* SerialBoard.exec first suspends at one of them.
LEMMA EntryInCall == ASSUME NEW d PROVE CallEntry(d) \in InCall
BY DEF CallEntry, InCall

\* Joining the queue.
LEMMA EnqueueType ==
  ASSUME ControlOK, LockOK, NEW t \in Tasks, Enqueue(t)
  PROVE  ControlOK' /\ LockOK'
<1>1. Fits(t, "queued")
  BY DEF Fits, CallerPc, OwnerPc, PollerPc
<1>2. ControlOK'
  BY <1>1, MovesType DEF Enqueue
<1> QED
  BY <1>2, AppendProperties DEF Enqueue, LockOK

\* Entering a shared call.
LEMMA HoldAndCallType ==
  ASSUME ControlOK, LockOK, NEW t \in Callers \cup {Poller}, HoldAndCall(t)
  PROVE  ControlOK' /\ holder' \in Tasks \cup {NoTask}
<1>1. Fits(t, CallEntry(dirty))
  BY EntryInCall, CallsFit
<1>2. Fits(t, IF t = Poller THEN "sleeping" ELSE "idle")
  BY TasksAssumption DEF Fits, CallerPc, OwnerPc, PollerPc
<1>3. t \in Tasks
  BY DEF Tasks
<1>4. ControlOK'
  BY <1>1, <1>2, <1>3, MovesType DEF HoldAndCall
<1> QED
  BY <1>3, <1>4 DEF HoldAndCall

\* Entering exclusive().
LEMMA HoldAndSilenceType ==
  ASSUME TypeOK, NEW o \in Owners, HoldAndSilence(o)
  PROVE  /\ ControlOK' /\ holder' = o
         /\ pollerTask' \in BOOLEAN /\ busy' \in BOOLEAN
         /\ cancelled' \subseteq Daemons \cup {Poller}
         /\ wasRunning' \in [Owners -> BOOLEAN]
<1> USE DEF TypeOK, DataOK
<1>1. CASE pollerTask /\ pc[Poller] # "done"
  <2>1. Fits(o, "reaping")
    BY TasksAssumption DEF Fits, OwnerPc
  <2>2. ControlOK'
    BY <1>1, <2>1, MovesType DEF HoldAndSilence, Tasks
  <2> QED
    BY <1>1, <2>2 DEF HoldAndSilence
<1>2. CASE ~(pollerTask /\ pc[Poller] # "done")
  <2> DEFINE p == IF pollerTask THEN "off" ELSE pc[Poller]
  <2>1. p \in PollerPc
    BY DEF ControlOK, PollerPc
  <2>2. pc' = [pc EXCEPT ![o] = "body", ![Poller] = p]
    BY <1>2, TasksAssumption DEF HoldAndSilence, ControlOK, Tasks
  <2> HIDE DEF p
  <2>3. ControlOK'
    BY <2>1, <2>2, TasksAssumption DEF ControlOK, Tasks, OwnerPc, InBody
  <2> QED
    BY <1>2, <2>3 DEF HoldAndSilence
<1> QED
  BY <1>1, <1>2

\* Leaving a transport call.
LEMMA ResumeType ==
  ASSUME ControlOK, LockOK, NEW t \in Tasks, Resume(t)
  PROVE  ControlOK' /\ LockOK'
<1>1. CASE t \in Callers /\ Moves(t, "idle") /\ holder' = NoTask /\ UNCHANGED waiters
  <2>1. Fits(t, "idle")
    BY <1>1, TasksAssumption DEF Fits, CallerPc
  <2> QED
    BY <1>1, <2>1, MovesType DEF LockOK
<1>2. CASE t \in Owners /\ Moves(t, "body") /\ UNCHANGED lockVars
  <2>1. Fits(t, "body")
    BY <1>2, TasksAssumption DEF Fits, OwnerPc, InBody
  <2> QED
    BY <1>2, <2>1, MovesType DEF LockOK, lockVars
<1>3. CASE t = Poller /\ NextSensor
  <2>1. Fits(Poller, "sleeping") /\ Fits(Poller, "queued")
    BY TasksAssumption DEF Fits, PollerPc
  <2>2. Fits(Poller, CallEntry(dirty'))
    BY EntryInCall, CallsFit
  <2>3. ControlOK'
    BY <1>3, <2>1, <2>2, MovesType DEF NextSensor
  <2>4. LockOK'
    BY <1>3, AppendProperties DEF NextSensor, LockOK, lockVars
  <2> QED
    BY <2>3, <2>4
<1> QED
  BY <1>1, <1>2, <1>3 DEF Resume

\* No step gives a variable a value of another type.
LEMMA TypeStep == TypeOK /\ [Next]_vars => TypeOK'
<1> SUFFICES ASSUME ControlOK, LockOK, DataOK, TypeOK, [Next]_vars PROVE TypeOK'
  BY DEF TypeOK
<1> USE TasksAssumption, MaxOpsAssumption
<1>1. ASSUME NEW t \in Callers, Request(t) PROVE TypeOK'
  <2>1. ControlOK' /\ LockOK'
    BY <1>1, EnqueueType, HoldAndCallType DEF Request, LockOK, Tasks
  <2> QED
    BY <1>1, <2>1 DEF Request, TypeOK, DataOK, pollVars, threadVars
<1>2. ASSUME NEW o \in Owners, Enter(o) PROVE TypeOK'
  <2>1. budget' \in [Owners -> 0 .. MaxOps]
    BY <1>2 DEF Enter, DataOK
  <2>2. CASE LockFree
    BY <1>2, <2>1, <2>2, HoldAndSilenceType
       DEF Enter, TypeOK, LockOK, DataOK, Tasks, threadVars
  <2>3. CASE ~LockFree
    BY <1>2, <2>1, <2>3, EnqueueType
       DEF Enter, TypeOK, DataOK, Tasks, pollVars, threadVars
  <2> QED
    BY <2>2, <2>3
<1>3. CASE PollRound
  <2>1. Fits(Poller, "sleeping")
    BY DEF Fits, PollerPc
  <2>2. ControlOK' /\ LockOK'
    BY <1>3, <2>1, MovesType, EnqueueType, HoldAndCallType
       DEF PollRound, LockOK, Tasks, lockVars
  <2> QED
    BY <1>3, <2>2 DEF PollRound, TypeOK, DataOK, pollVars, threadVars
<1>4. ASSUME NEW t \in Callers \cup {Poller}, GrantCall(t) PROVE TypeOK'
  <2>1. waiters' \in Seq(Tasks)
    BY <1>4, HeadTailProperties DEF GrantCall, IsWoken, LockOK
  <2>2. ControlOK' /\ LockOK'
    BY <1>4, <2>1, HoldAndCallType DEF GrantCall, LockOK
  <2> QED
    BY <1>4, <2>2 DEF GrantCall, TypeOK, DataOK, pollVars, threadVars
<1>5. ASSUME NEW o \in Owners, GrantExclusive(o) PROVE TypeOK'
  <2>1. waiters' \in Seq(Tasks)
    BY <1>5, HeadTailProperties DEF GrantExclusive, IsWoken, LockOK
  <2> QED
    BY <1>5, <2>1, HoldAndSilenceType
       DEF GrantExclusive, TypeOK, LockOK, DataOK, Tasks, threadVars
<1>6. ASSUME NEW t \in Tasks, CallStep(t) PROVE TypeOK'
  <2>1. Fits(t, "exec") /\ Fits(t, "reset")
    BY CallsFit DEF InCall
  <2>2. Fits(Poller, "sleeping")
    BY DEF Fits, PollerPc
  <2>3. ControlOK' /\ LockOK'
    BY <1>6, <2>1, <2>2, ResumeType, MovesType
       DEF CallStep, ExecReturns, ExecTimesOut, ResyncReturns, ResetReturns, ResetRaises,
           LockOK, lockVars
  <2>4. DataOK'
    BY <1>6 DEF CallStep, ExecReturns, ExecTimesOut, ResyncReturns, ResetReturns,
                ResetRaises, AfterCall, DataOK, pollVars, threadVars
  <2> QED
    BY <2>3, <2>4 DEF TypeOK
<1>7. ASSUME NEW o \in Owners, Reaped(o) PROVE TypeOK'
  <2>1. "body" \in OwnerPc /\ "off" \in PollerPc
    BY DEF OwnerPc, PollerPc, InBody
  <2>2. ControlOK'
    BY <1>7, <2>1 DEF Reaped, ControlOK, Tasks
  <2> QED
    BY <1>7, <2>2 DEF Reaped, TypeOK, LockOK, DataOK, lockVars, threadVars
<1>8. ASSUME NEW o \in Owners, BodyCalls(o) PROVE TypeOK'
  <2>1. PICK at \in {CallEntry(dirty), "reset"} : Moves(o, IF Connected THEN at ELSE "body")
    BY <1>8 DEF BodyCalls
  <2>2. Fits(o, at)
    BY EntryInCall, CallsFit DEF InCall
  <2>3. Fits(o, "body")
    BY DEF Fits, OwnerPc, InBody
  <2>4. ControlOK'
    BY <2>1, <2>2, <2>3, MovesType DEF Tasks
  <2>5. budget' \in [Owners -> 0 .. MaxOps]
    BY <1>8 DEF BodyCalls, DataOK
  <2> QED
    BY <1>8, <2>4, <2>5 DEF BodyCalls, TypeOK, LockOK, DataOK, lockVars, pollVars, threadVars
<1>9. ASSUME NEW o \in Owners, Exit(o) PROVE TypeOK'
  <2>1. Fits(o, "idle") /\ "idle" \in OwnerPc /\ "new" \in PollerPc
    BY DEF Fits, OwnerPc, PollerPc
  <2>2. CASE wasRunning[o] /\ ~pollerTask
    <3>1. ControlOK'
      BY <1>9, <2>1, <2>2 DEF Exit, ControlOK, Tasks
    <3> QED
      BY <1>9, <2>2, <3>1 DEF Exit, TypeOK, LockOK, DataOK, threadVars
  <2>3. CASE ~(wasRunning[o] /\ ~pollerTask)
    BY <1>9, <2>1, <2>3, MovesType DEF Exit, TypeOK, LockOK, DataOK, Tasks, threadVars
  <2> QED
    BY <2>2, <2>3
<1>10. ASSUME NEW t \in Tasks, CancelLands(t) PROVE TypeOK'
  <2>1. waiters' \in Seq(Tasks)
    BY <1>10, WithoutOne DEF CancelLands, LockOK
  <2>2. Fits(t, IF t = Poller THEN "done" ELSE "stopped")
    BY <1>10 DEF CancelLands, DataOK, Fits, CallerPc, PollerPc
  <2>3. ControlOK'
    BY <1>10, <2>2, MovesType DEF CancelLands
  <2> QED
    BY <1>10, <2>1, <2>3 DEF CancelLands, TypeOK, LockOK, DataOK, pollVars
<1>11. ASSUME NEW t \in Tasks, ThreadEnds(t) PROVE TypeOK'
  BY <1>11 DEF ThreadEnds, TypeOK, ControlOK, LockOK, DataOK, lockVars, pollVars
<1>12. CASE Shutdown
  <2>1. ASSUME NEW d \in Daemons, StopDaemon(d) PROVE TypeOK'
    BY <2>1 DEF StopDaemon, TypeOK, ControlOK, LockOK, DataOK, lockVars, pollVars, threadVars
  <2>2. Fits(Poller, "off") /\ Fits(Poller, pc[Poller]) /\ Poller \in Tasks
    BY DEF Fits, PollerPc, ControlOK, Tasks
  <2>3. CASE StopPoller
    <3>1. ControlOK'
      BY <2>2, <2>3, MovesType DEF StopPoller, ControlOK
    <3> QED
      BY <2>3, <3>1 DEF StopPoller, TypeOK, LockOK, DataOK, lockVars, threadVars
  <2>4. CASE StopPollerReturns
    BY <2>2, <2>4, MovesType
       DEF StopPollerReturns, TypeOK, LockOK, DataOK, lockVars, threadVars
  <2>5. CASE CloseReturns
    BY <2>5 DEF CloseReturns, TypeOK, ControlOK, LockOK, DataOK, lockVars, pollVars, threadVars
  <2> QED
    BY <1>12, <2>1, <2>3, <2>4, <2>5 DEF Shutdown
<1>13. CASE UNCHANGED vars
  BY <1>13 DEF vars, TypeOK, ControlOK, LockOK, DataOK
<1> QED
  BY <1>1, <1>2, <1>3, <1>4, <1>5, <1>6, <1>7, <1>8, <1>9, <1>10, <1>11, <1>12, <1>13
     DEF Next, OwnerStep

\* The initial state is well typed.
LEMMA TypeInit == Init => TypeOK
<1> SUFFICES ASSUME Init PROVE TypeOK
  OBVIOUS
<1>1. ControlOK
  BY TasksAssumption DEF Init, ControlOK, Tasks, CallerPc, OwnerPc, PollerPc
<1>2. LockOK
  BY EmptySeq DEF Init, LockOK
<1>3. wasRunning \in [Owners -> BOOLEAN]
  BY Zenon DEF Init
<1>4. budget \in [Owners -> 0 .. MaxOps]
  BY MaxOpsAssumption DEF Init
<1>5. DataOK
  BY <1>3, <1>4 DEF Init, DataOK
<1> QED
  BY <1>1, <1>2, <1>5 DEF TypeOK

\* The state of the session, the lock and the transport is always well typed.
THEOREM TypeCorrect == Spec => []TypeOK
BY TypeInit, TypeStep, PTL DEF Spec

-----------------------------------------------------------------------------
\* What a step does to the control points, task by task.

\* Only the task that moves changes its control point.
LEMMA MovesAt ==
  ASSUME ControlOK, NEW t \in Tasks, NEW at, Moves(t, at)
  PROVE  \A u \in Tasks : pc'[u] = IF u = t THEN at ELSE pc[u]
BY DEF ControlOK, Moves

\* A shared call starts with the lock in hand and a clean line, or not at all.
LEMMA HoldAndCallEffect ==
  ASSUME ControlOK, NEW t \in Callers \cup {Poller}, HoldAndCall(t)
  PROVE  /\ \A u \in Tasks \ {t} : pc'[u] = pc[u]
         /\ \/ holder' = t /\ pc'[t] \in InCall /\ (pc'[t] = "exec" => ~dirty)
            \/ holder' = NoTask /\ pc'[t] \in {"sleeping", "idle"}
<1>1. t \in Tasks
  BY DEF Tasks
<1>2. CASE Connected
  BY <1>1, <1>2, MovesAt DEF HoldAndCall, CallEntry, InCall
<1>3. CASE ~Connected
  BY <1>1, <1>3, MovesAt DEF HoldAndCall
<1> QED
  BY <1>2, <1>3

\* An owner gets the lock and waits for the poller, or finds it gone and goes on.
LEMMA HoldAndSilenceEffect ==
  ASSUME TypeOK, NEW o \in Owners, HoldAndSilence(o)
  PROVE  /\ \A u \in Tasks \ {o, Poller} : pc'[u] = pc[u]
         /\ holder' = o
         /\ wasRunning'[o] <=> pollerTask
         /\ \A u \in Owners \ {o} : wasRunning'[u] = wasRunning[u]
         /\ \/ /\ pollerTask /\ pc[Poller] # "done"
               /\ pc'[o] = "reaping" /\ pc'[Poller] = pc[Poller]
               /\ cancelled' = cancelled \cup {Poller}
               /\ UNCHANGED <<pollerTask, busy>>
            \/ /\ pollerTask => pc[Poller] = "done"
               /\ pc'[o] = "body"
               /\ pc'[Poller] = IF pollerTask THEN "off" ELSE pc[Poller]
               /\ ~pollerTask' /\ busy' /\ UNCHANGED cancelled
<1>1. o \in Tasks /\ Poller \in Tasks /\ o # Poller
  BY TasksAssumption DEF Tasks
<1>2. wasRunning' = [wasRunning EXCEPT ![o] = pollerTask] /\ holder' = o
  BY DEF HoldAndSilence
<1>3. wasRunning'[o] <=> pollerTask
  BY <1>2, Zenon DEF TypeOK, DataOK
<1>4. \A u \in Owners \ {o} : wasRunning'[u] = wasRunning[u]
  BY <1>2, Zenon DEF TypeOK, DataOK
<1>5. CASE pollerTask /\ pc[Poller] # "done"
  BY <1>1, <1>2, <1>3, <1>4, <1>5, MovesAt DEF HoldAndSilence, TypeOK
<1>6. CASE ~(pollerTask /\ pc[Poller] # "done")
  BY <1>1, <1>2, <1>3, <1>4, <1>6 DEF HoldAndSilence, TypeOK, ControlOK
<1> QED
  BY <1>5, <1>6

\* Leaving a call: a sharer leaves the lock too, unless the poller goes straight on
\* to its next sensor, with a call that respects the dirty bit; an owner stays.
LEMMA ResumeEffect ==
  ASSUME ControlOK, NEW t \in Tasks, Resume(t)
  PROVE  /\ \A u \in Tasks \ {t} : pc'[u] = pc[u]
         /\ \/ t \notin Owners /\ holder' = NoTask /\ pc'[t] \in {"idle", "sleeping", "queued"}
            \/ /\ t = Poller /\ holder' = holder
               /\ pc'[t] \in InCall /\ (pc'[t] = "exec" => ~dirty')
            \/ t \in Owners /\ holder' = holder /\ pc'[t] = "body"
<1>1. CASE t \in Callers /\ Moves(t, "idle") /\ holder' = NoTask
  BY <1>1, MovesAt, TasksAssumption
<1>2. CASE t \in Owners /\ Moves(t, "body") /\ UNCHANGED lockVars
  BY <1>2, MovesAt DEF lockVars
<1>3. CASE t = Poller /\ NextSensor
  BY <1>3, MovesAt, TasksAssumption DEF NextSensor, CallEntry, InCall, lockVars
<1> QED
  BY <1>1, <1>2, <1>3 DEF Resume

\* A step of a task that takes the lock, keeps it or gives it back preserves the
\* discipline, provided all others stay where they are.
LEMMA OneMover ==
  ASSUME TypeOK, LockDiscipline, NoCodeOnDirtyLine, NEW t \in Tasks,
         \A u \in Tasks \ {t} : pc'[u] = pc[u] \/ (~HoldsLock(u) /\ ~HoldsLock(u)'),
         holder' = holder \/ holder \in {t, NoTask},
         holder' = holder \/ holder' \in {t, NoTask},
         HoldsLock(t)' <=> holder' = t,
         dirty' = dirty \/ holder = t,
         pc'[t] = "exec" => ~dirty'
  PROVE  LockDiscipline' /\ NoCodeOnDirtyLine'
<1>1. NoTask \notin Tasks
  BY TasksAssumption DEF Tasks
<1>2. ASSUME NEW u \in Tasks \ {t} PROVE HoldsLock(u)' <=> holder' = u
  BY <1>1, <1>2 DEF LockDiscipline, HoldsLock
<1>3. ASSUME NEW u \in Tasks \ {t}, pc'[u] = "exec" PROVE ~dirty'
  <2>1. HoldsLock(u)' /\ HoldsLock(u)
    BY <1>3 DEF HoldsLock, InBody, InCall
  <2>2. pc[u] = "exec" /\ holder = u
    BY <1>3, <2>1 DEF LockDiscipline
  <2> QED
    BY <2>2, <1>3 DEF NoCodeOnDirtyLine
<1>4. LockDiscipline'
  BY <1>2 DEF LockDiscipline
<1> QED
  BY <1>3, <1>4 DEF NoCodeOnDirtyLine

-----------------------------------------------------------------------------
\* Mutual exclusion and the dirty line.

\* Every step keeps holder and control points in agreement and sends no code down
\* a dirty line.
LEMMA LockStep ==
  TypeOK /\ SessionInv /\ [Next]_vars => LockDiscipline' /\ NoCodeOnDirtyLine'
<1> SUFFICES ASSUME TypeOK, ControlOK, LockDiscipline, NoCodeOnDirtyLine, SessionInv,
                    [Next]_vars
             PROVE  LockDiscipline' /\ NoCodeOnDirtyLine'
  BY DEF TypeOK, SessionInv
<1> DEFINE Goal == LockDiscipline' /\ NoCodeOnDirtyLine'
<1> USE DEF HoldsLock, InBody, InCall
<1>a. /\ Poller \in Tasks /\ Callers \subseteq Tasks /\ Owners \subseteq Tasks
      /\ NoTask \notin Tasks /\ Callers \cap Owners = {} /\ Poller \notin Callers \cup Owners
  BY TasksAssumption DEF Tasks
<1>b. \A t \in Tasks : pc[t] \in InCall => holder = t /\ (pc[t] = "exec" => ~dirty)
  BY DEF LockDiscipline, NoCodeOnDirtyLine
<1>1. ASSUME NEW t \in Callers, Request(t) PROVE Goal
  <2>1. CASE LockFree
    BY <1>1, <1>a, <2>1, HoldAndCallEffect, OneMover DEF Request, LockFree
  <2>2. CASE ~LockFree
    BY <1>1, <1>a, <2>2, MovesAt, OneMover DEF Request, Enqueue, LockDiscipline
  <2> QED
    BY <2>1, <2>2
<1>2. ASSUME NEW o \in Owners, Enter(o) PROVE Goal
  <2>1. CASE LockFree
    <3>1. HoldAndSilence(o) /\ holder = NoTask /\ dirty' = dirty
      BY <1>2, <2>1 DEF Enter, LockFree
    <3> QED
      BY <1>a, <3>1, HoldAndSilenceEffect, OneMover DEF LockDiscipline
  <2>2. CASE ~LockFree
    BY <1>2, <1>a, <2>2, MovesAt, OneMover DEF Enter, Enqueue, LockDiscipline
  <2> QED
    BY <2>1, <2>2
<1>3. CASE PollRound
  <2>1. CASE Moves(Poller, "sleeping") /\ UNCHANGED lockVars
    BY <1>3, <1>a, <2>1, MovesAt, OneMover DEF PollRound, LockDiscipline, lockVars
  <2>2. CASE LockFree /\ HoldAndCall(Poller)
    BY <1>3, <1>a, <2>2, HoldAndCallEffect, OneMover DEF PollRound, LockFree
  <2>3. CASE Enqueue(Poller)
    BY <1>3, <1>a, <2>3, MovesAt, OneMover DEF PollRound, Enqueue, LockDiscipline
  <2> QED
    BY <1>3, <2>1, <2>2, <2>3 DEF PollRound
<1>4. ASSUME NEW t \in Callers \cup {Poller}, GrantCall(t) PROVE Goal
  BY <1>4, <1>a, HoldAndCallEffect, OneMover DEF GrantCall, IsWoken
<1>5. ASSUME NEW o \in Owners, GrantExclusive(o) PROVE Goal
  <2>1. HoldAndSilence(o) /\ holder = NoTask /\ dirty' = dirty
    BY <1>5 DEF GrantExclusive, IsWoken
  <2> QED
    BY <1>a, <2>1, HoldAndSilenceEffect, OneMover DEF LockDiscipline
<1>6. ASSUME NEW t \in Tasks, CallStep(t) PROVE Goal
  <2>1. holder = t
    BY <1>6, <1>b DEF CallStep, ExecReturns, ExecTimesOut, ResyncReturns, ResetReturns, ResetRaises
  <2>2. CASE Resume(t) /\ dirty' \in {dirty, TRUE, FALSE}
    BY <2>1, <2>2, <1>a, ResumeEffect, OneMover
  <2>3. CASE Moves(t, "reset") /\ UNCHANGED lockVars
    BY <2>1, <2>3, <1>a, MovesAt, OneMover DEF lockVars
  <2>4. CASE Moves(t, "exec") /\ ~dirty' /\ UNCHANGED lockVars
    BY <2>1, <2>4, <1>a, MovesAt, OneMover DEF lockVars
  <2>5. CASE t = Poller /\ Moves(t, "sleeping") /\ holder' = NoTask
    BY <2>1, <2>5, <1>a, MovesAt, OneMover
  <2> QED
    BY <1>6, <2>2, <2>3, <2>4, <2>5
       DEF CallStep, ExecReturns, ExecTimesOut, ResyncReturns, ResetReturns, ResetRaises
<1>7. ASSUME NEW o \in Owners, Reaped(o) PROVE Goal
  BY <1>7, <1>a, OneMover DEF Reaped, LockDiscipline, ControlOK, lockVars
<1>8. ASSUME NEW o \in Owners, BodyCalls(o) PROVE Goal
  <2>1. PICK at \in {CallEntry(dirty), "reset"} : Moves(o, IF Connected THEN at ELSE "body")
    BY <1>8 DEF BodyCalls
  <2>2. holder = o
    BY <1>8, <1>a DEF BodyCalls, LockDiscipline
  <2> QED
    BY <1>8, <1>a, <2>1, <2>2, MovesAt, OneMover DEF BodyCalls, lockVars, CallEntry
<1>9. ASSUME NEW o \in Owners, Exit(o) PROVE Goal
  <2>1. holder = o
    BY <1>9, <1>a DEF Exit, LockDiscipline
  <2>2. pc'[o] = "idle" /\ pc'[Poller] \in {pc[Poller], "new"}
        /\ \A u \in Tasks \ {o, Poller} : pc'[u] = pc[u]
    BY <1>9, <1>a DEF Exit, Moves, ControlOK
  <2>3. pc'[Poller] = "new" => ~HoldsLock(Poller)
    BY <2>1, <1>a DEF LockDiscipline
  <2> QED
    BY <1>9, <1>a, <2>1, <2>2, <2>3, OneMover DEF Exit
<1>10. ASSUME NEW t \in Tasks, CancelLands(t) PROVE Goal
  BY <1>10, <1>a, MovesAt, OneMover DEF CancelLands, LockDiscipline
<1>11. ASSUME UNCHANGED <<pc, holder, dirty>> PROVE Goal
  BY <1>11 DEF LockDiscipline, NoCodeOnDirtyLine
<1>12. CASE Shutdown
  <2>1. CASE StopPoller \/ StopPollerReturns
    <3>1. pc[Poller] \in {"done", "off"} \/ UNCHANGED pc
      BY <2>1, <1>a DEF StopPoller, StopPollerReturns, StopperReady, SessionInv, PollerAccounted,
                        Moves, ControlOK
    <3>2. pc'[Poller] \in {"done", "off"} \/ UNCHANGED pc
      BY <2>1, <1>a, <3>1, MovesAt DEF StopPoller, StopPollerReturns
    <3>3. \A u \in Tasks \ {Poller} : pc'[u] = pc[u]
      BY <2>1, <1>a, MovesAt DEF StopPoller, StopPollerReturns
    <3>4. UNCHANGED <<holder, dirty>>
      BY <2>1 DEF StopPoller, StopPollerReturns, lockVars
    <3> QED
      BY <1>a, <1>11, <3>1, <3>2, <3>3, <3>4, OneMover DEF LockDiscipline
  <2> QED
    BY <1>11, <1>12, <2>1 DEF Shutdown, StopDaemon, CloseReturns, lockVars
<1>13. CASE UNCHANGED vars
  BY <1>11, <1>13 DEF vars
<1> QED
  BY <1>1, <1>2, <1>3, <1>4, <1>5, <1>6, <1>7, <1>8, <1>9, <1>10, <1>11, <1>12, <1>13
     DEF Next, OwnerStep, ThreadEnds, lockVars

-----------------------------------------------------------------------------
\* The poller, and who is answerable for its absence.

PollerInv == PollerAccounted /\ PollerSilenced /\ BusyMeansOwned
UpInv == OnlyOwnersCancel /\ NoOrphanWhileUp /\ SilencerRemembers

\* A step that moves only sharers, the poller from one live point to another, or an
\* owner between points of the same side of exclusive()'s yield, keeps both parts.
LEMMA QuietMove ==
  ASSUME TypeOK, PollerInv, UpInv, NEW t \in Tasks,
         \A u \in Tasks \ {t} : pc'[u] = pc[u],
         t \in Owners => pc[t] # "reaping" /\ pc'[t] # "reaping"
                         /\ (pc[t] \in InBody <=> pc'[t] \in InBody),
         t = Poller => pc[t] # "off" /\ pc'[t] \notin {"off", "done"},
         UNCHANGED <<pollVars, cancelled, busy, orphans, life>>
  PROVE  PollerInv' /\ UpInv'
<1>1. Poller \in Tasks /\ Owners \subseteq Tasks /\ Poller \notin Owners
  BY TasksAssumption DEF Tasks
<1>2. \A o \in Owners : /\ pc[o] \in InBody <=> pc'[o] \in InBody
                        /\ pc[o] = "reaping" <=> pc'[o] = "reaping"
  BY <1>1
<1>3. PollerAccounted'
  BY <1>1 DEF PollerInv, PollerAccounted, pollVars
<1>4. PollerSilenced'
  BY <1>1, <1>2 DEF PollerInv, PollerSilenced, PollerAccounted, pollVars
<1>5. BusyMeansOwned'
  BY <1>2 DEF PollerInv, BusyMeansOwned
<1>6. OnlyOwnersCancel' /\ NoOrphanWhileUp'
  BY <1>2 DEF UpInv, OnlyOwnersCancel, NoOrphanWhileUp
<1>7. SilencerRemembers'
  BY <1>2 DEF UpInv, SilencerRemembers, pollVars
<1> QED
  BY <1>3, <1>4, <1>5, <1>6, <1>7 DEF PollerInv, UpInv

\* Entering exclusive() while nobody holds the lock.
LEMMA SilenceMove ==
  ASSUME TypeOK, LockDiscipline, PollerInv, UpInv, NEW o \in Owners,
         holder = NoTask, HoldAndSilence(o), UNCHANGED <<orphans, life>>
  PROVE  PollerInv' /\ UpInv'
<1>1. /\ o \in Tasks /\ Poller \in Tasks /\ Owners \subseteq Tasks /\ Poller \notin Owners
      /\ NoTask \notin Tasks
  BY TasksAssumption DEF Tasks
<1>2. \A u \in Owners : pc[u] \notin InBody \cup {"reaping"}
  BY <1>1 DEF LockDiscipline, HoldsLock
<1>3. \A u \in Owners \ {o} : pc'[u] = pc[u] /\ wasRunning'[u] = wasRunning[u]
  BY <1>1, HoldAndSilenceEffect
<1>4. CASE pollerTask /\ pc[Poller] # "done"
  <2>1. /\ pc'[o] = "reaping" /\ pc'[Poller] = pc[Poller] /\ wasRunning'[o]
        /\ cancelled' = cancelled \cup {Poller} /\ UNCHANGED <<pollerTask, busy>>
    BY <1>4, HoldAndSilenceEffect
  <2>2. \A u \in Owners : pc'[u] \notin InBody
    BY <1>2, <1>3, <2>1 DEF InBody, InCall
  <2>3. PollerInv'
    BY <1>2, <1>4, <2>1, <2>2 DEF PollerInv, PollerAccounted, PollerSilenced, BusyMeansOwned
  <2>4. OnlyOwnersCancel' /\ NoOrphanWhileUp'
    BY <2>1 DEF UpInv, OnlyOwnersCancel, NoOrphanWhileUp
  <2>5. SilencerRemembers'
    BY <1>2, <1>3, <1>4, <2>1 DEF UpInv, SilencerRemembers
  <2> QED
    BY <2>3, <2>4, <2>5 DEF UpInv
<1>5. CASE ~(pollerTask /\ pc[Poller] # "done")
  <2>1. /\ pc'[o] = "body" /\ ~pollerTask' /\ busy' /\ UNCHANGED cancelled
        /\ pc'[Poller] = IF pollerTask THEN "off" ELSE pc[Poller]
        /\ wasRunning'[o] <=> pollerTask
    BY <1>5, HoldAndSilenceEffect
  <2>2. pc'[Poller] = "off"
    BY <2>1 DEF PollerInv, PollerAccounted
  <2>3. Poller \notin cancelled
    BY <1>5 DEF PollerInv, PollerAccounted
  <2>4. PollerInv'
    BY <2>1, <2>2, <2>3 DEF PollerInv, PollerAccounted, PollerSilenced, BusyMeansOwned, InBody
  <2>5. OnlyOwnersCancel' /\ NoOrphanWhileUp'
    BY <2>1, <2>3 DEF UpInv, OnlyOwnersCancel, NoOrphanWhileUp
  <2>6. life = "up" => pollerTask
    BY <1>2 DEF UpInv, SilencerRemembers
  <2>7. SilencerRemembers'
    BY <1>2, <1>3, <2>1, <2>6 DEF UpInv, SilencerRemembers, InBody
  <2> QED
    BY <2>4, <2>5, <2>7 DEF UpInv
<1> QED
  BY <1>4, <1>5

\* Every step keeps the poller accounted for and silenced while it must be.
LEMMA PollerStep ==
  TypeOK /\ SessionInv /\ [Next]_vars => PollerInv' /\ UpInv'
<1> SUFFICES ASSUME TypeOK, ControlOK, DataOK, LockDiscipline, PollerInv, UpInv, [Next]_vars
             PROVE  PollerInv' /\ UpInv'
  BY DEF TypeOK, SessionInv, PollerInv, UpInv
<1> DEFINE Goal == PollerInv' /\ UpInv'
<1>a. /\ Poller \in Tasks /\ Callers \subseteq Tasks /\ Owners \subseteq Tasks
      /\ NoTask \notin Tasks /\ Callers \cap Owners = {} /\ Poller \notin Callers \cup Owners
  BY TasksAssumption DEF Tasks
<1>1. ASSUME NEW t \in Callers, Request(t) PROVE Goal
  <2>1. \A u \in Tasks \ {t} : pc'[u] = pc[u]
    BY <1>1, <1>a, HoldAndCallEffect, MovesAt DEF Request, Enqueue
  <2> QED
    BY <1>1, <1>a, <2>1, QuietMove DEF Request, threadVars
<1>2. ASSUME NEW o \in Owners, Enter(o) PROVE Goal
  <2>1. CASE LockFree
    BY <1>2, <2>1, SilenceMove DEF Enter, LockFree, threadVars
  <2>2. CASE ~LockFree
    <3>1. pc[o] = "idle" /\ pc'[o] = "queued" /\ \A u \in Tasks \ {o} : pc'[u] = pc[u]
      BY <1>2, <1>a, <2>2, MovesAt DEF Enter, Enqueue
    <3> QED
      BY <1>2, <1>a, <2>2, <3>1, QuietMove DEF Enter, threadVars, InBody, InCall
  <2> QED
    BY <2>1, <2>2
<1>3. CASE PollRound
  <2>1. /\ \A u \in Tasks \ {Poller} : pc'[u] = pc[u]
        /\ pc'[Poller] \notin {"off", "done"}
    BY <1>3, <1>a, HoldAndCallEffect, MovesAt DEF PollRound, Enqueue, InCall
  <2> QED
    BY <1>3, <1>a, <2>1, QuietMove DEF PollRound, threadVars
<1>4. ASSUME NEW t \in Callers \cup {Poller}, GrantCall(t) PROVE Goal
  <2>1. /\ \A u \in Tasks \ {t} : pc'[u] = pc[u]
        /\ pc'[t] \notin {"off", "done"}
    BY <1>4, HoldAndCallEffect DEF GrantCall, InCall
  <2> QED
    BY <1>4, <1>a, <2>1, QuietMove DEF GrantCall, threadVars
<1>5. ASSUME NEW o \in Owners, GrantExclusive(o) PROVE Goal
  BY <1>5, SilenceMove DEF GrantExclusive, IsWoken, threadVars
<1>6. ASSUME NEW t \in Tasks, CallStep(t) PROVE Goal
  <2>1. pc[t] \in InCall /\ UNCHANGED <<pollVars, cancelled, busy, orphans, life>>
    BY <1>6 DEF CallStep, ExecReturns, ExecTimesOut, ResyncReturns, ResetReturns, ResetRaises,
                InCall, AfterCall, threadVars
  <2>2. /\ \A u \in Tasks \ {t} : pc'[u] = pc[u]
        /\ pc'[t] \in InBody \/ (t \notin Owners /\ pc'[t] \in {"idle", "sleeping", "queued"})
    BY <1>6, <1>a, ResumeEffect, MovesAt
       DEF CallStep, ExecReturns, ExecTimesOut, ResyncReturns, ResetReturns, ResetRaises,
           InBody, InCall
  <2> QED
    BY <1>a, <2>1, <2>2, QuietMove DEF InBody, InCall
<1>7. ASSUME NEW o \in Owners, Reaped(o) PROVE Goal
  <2>1. /\ pc[o] = "reaping" /\ pc[Poller] \in {"done", "off"}
        /\ pc'[o] = "body" /\ pc'[Poller] = "off" /\ ~pollerTask' /\ busy'
        /\ \A u \in Tasks \ {o, Poller} : pc'[u] = pc[u]
        /\ UNCHANGED <<wasRunning, cancelled, orphans, life>>
    BY <1>7, <1>a DEF Reaped, ControlOK, threadVars
  <2>2. \A u \in Owners \ {o} : pc[u] \notin InBody \cup {"reaping"}
    BY <1>a, <2>1 DEF LockDiscipline, HoldsLock
  <2>3. Poller \notin cancelled
    BY <2>1 DEF PollerInv, PollerAccounted
  <2>4. PollerInv'
    BY <2>1, <2>3 DEF PollerInv, PollerAccounted, PollerSilenced, BusyMeansOwned, InBody
  <2>5. OnlyOwnersCancel' /\ NoOrphanWhileUp'
    BY <2>1, <2>3 DEF UpInv, OnlyOwnersCancel, NoOrphanWhileUp
  <2>6. SilencerRemembers'
    BY <1>a, <2>1, <2>2 DEF UpInv, SilencerRemembers, InBody
  <2> QED
    BY <2>4, <2>5, <2>6 DEF UpInv
<1>8. ASSUME NEW o \in Owners, BodyCalls(o) PROVE Goal
  <2>1. PICK at \in {CallEntry(dirty), "reset"} : Moves(o, IF Connected THEN at ELSE "body")
    BY <1>8 DEF BodyCalls
  <2>2. /\ \A u \in Tasks \ {o} : pc'[u] = pc[u]
        /\ pc[o] = "body" /\ pc'[o] \in InBody
    BY <1>8, <1>a, <2>1, MovesAt DEF BodyCalls, CallEntry, InBody, InCall
  <2> QED
    BY <1>8, <1>a, <2>2, QuietMove DEF BodyCalls, threadVars, InBody, InCall
<1>9. ASSUME NEW o \in Owners, Exit(o) PROVE Goal
  <2>1. pc[o] = "body" /\ ~busy' /\ UNCHANGED <<wasRunning, cancelled, orphans, life>>
    BY <1>9 DEF Exit, threadVars
  <2>2. ~pollerTask /\ pc[Poller] = "off"
    BY <2>1 DEF PollerInv, PollerSilenced, InBody
  <2>3. /\ pc'[o] = "idle"
        /\ \A u \in Tasks \ {o, Poller} : pc'[u] = pc[u]
        /\ pc'[Poller] = IF wasRunning[o] THEN "new" ELSE "off"
        /\ pollerTask' <=> wasRunning[o]
    BY <1>9, <1>a, <2>2 DEF Exit, Moves, ControlOK
  <2>4. \A u \in Owners \ {o} : pc[u] \notin InBody \cup {"reaping"}
    BY <1>a, <2>1 DEF LockDiscipline, HoldsLock, InBody
  <2>5. \A u \in Owners : pc'[u] \notin InBody \cup {"reaping"}
    BY <1>a, <2>3, <2>4 DEF InBody, InCall
  <2>6. Poller \notin cancelled
    BY <2>2 DEF PollerInv, PollerAccounted
  <2>7. PollerInv'
    BY <2>1, <2>3, <2>5, <2>6 DEF PollerInv, PollerAccounted, PollerSilenced, BusyMeansOwned
  <2>8. OnlyOwnersCancel' /\ NoOrphanWhileUp'
    BY <2>1, <2>6 DEF UpInv, OnlyOwnersCancel, NoOrphanWhileUp
  <2>9. life = "up" => wasRunning[o]
    BY <2>2, <2>4 DEF UpInv, SilencerRemembers
  <2>10. SilencerRemembers'
    BY <2>1, <2>3, <2>5, <2>9 DEF SilencerRemembers
  <2> QED
    BY <2>7, <2>8, <2>10 DEF UpInv
<1>10. ASSUME NEW t \in Tasks, CancelLands(t) PROVE Goal
  <2>1. /\ t \in cancelled /\ cancelled' = cancelled \ {t}
        /\ UNCHANGED <<pollVars, busy, life>>
        /\ pc'[t] = IF t = Poller THEN "done" ELSE "stopped"
        /\ \A u \in Tasks \ {t} : pc'[u] = pc[u]
        /\ orphans' = orphans \/ pc[t] \in InCall
    BY <1>10, MovesAt DEF CancelLands
  <2>2. t \notin Owners
    BY <2>1, TasksAssumption DEF DataOK
  <2>3. PollerInv'
    BY <1>a, <2>1, <2>2 DEF PollerInv, PollerAccounted, PollerSilenced, BusyMeansOwned, pollVars
  <2>4. OnlyOwnersCancel'
    BY <1>a, <2>1, <2>2 DEF UpInv, OnlyOwnersCancel
  <2>5. NoOrphanWhileUp'
    <3>1. SUFFICES ASSUME life = "up", pc[t] \in InCall PROVE FALSE
      BY <2>1 DEF UpInv, NoOrphanWhileUp
    <3>2. PICK o \in Owners : t = Poller /\ pc[o] = "reaping"
      BY <2>1, <3>1 DEF UpInv, OnlyOwnersCancel
    <3> QED
      BY <1>a, <3>1, <3>2 DEF LockDiscipline, HoldsLock, InBody
  <2>6. SilencerRemembers'
    BY <1>a, <2>1, <2>2 DEF UpInv, SilencerRemembers, pollVars
  <2> QED
    BY <2>3, <2>4, <2>5, <2>6 DEF UpInv
<1>11. ASSUME NEW t \in Tasks, ThreadEnds(t) PROVE Goal
  <2>1. orphans = {} => orphans' = {}
    BY <1>11 DEF ThreadEnds
  <2> QED
    BY <1>11, <2>1
       DEF ThreadEnds, pollVars, PollerInv, UpInv, PollerAccounted, PollerSilenced,
           BusyMeansOwned, OnlyOwnersCancel, NoOrphanWhileUp, SilencerRemembers
<1>12. CASE Shutdown
  <2>1. ASSUME NEW d \in Daemons, StopDaemon(d) PROVE Goal
    <3>1. d # Poller
      BY TasksAssumption
    <3> QED
      BY <2>1, <3>1
         DEF StopDaemon, pollVars, threadVars, PollerInv, UpInv, PollerAccounted, PollerSilenced,
             BusyMeansOwned, OnlyOwnersCancel, NoOrphanWhileUp, SilencerRemembers
  <2>2. CASE StopPoller \/ StopPollerReturns
    <3>1. life' # "up" /\ UNCHANGED <<wasRunning, busy>>
      BY <2>2 DEF StopPoller, StopPollerReturns
    <3>2. \A u \in Owners : pc'[u] = pc[u]
      BY <1>a, <2>2, MovesAt DEF StopPoller, StopPollerReturns
    <3>3. \/ /\ UNCHANGED <<pc, pollerTask>>
             /\ pollerTask /\ pc[Poller] # "done"
          \/ ~pollerTask' /\ pc'[Poller] = "off" /\ UNCHANGED cancelled /\ Poller \notin cancelled
      BY <1>a, <2>2, MovesAt DEF StopPoller, StopPollerReturns, StopperReady,
                                 PollerInv, PollerAccounted
    <3>4. PollerAccounted'
      BY <3>3 DEF PollerInv, PollerAccounted
    <3>5. PollerSilenced'
      BY <3>2, <3>3 DEF PollerInv, PollerSilenced
    <3>6. BusyMeansOwned'
      BY <3>1, <3>2 DEF PollerInv, BusyMeansOwned
    <3>7. UpInv'
      BY <3>1, <3>2 DEF UpInv, OnlyOwnersCancel, NoOrphanWhileUp, SilencerRemembers
    <3> QED
      BY <3>4, <3>5, <3>6, <3>7 DEF PollerInv
  <2>3. CASE CloseReturns
    BY <2>3
       DEF CloseReturns, pollVars, threadVars, PollerInv, UpInv, PollerAccounted, PollerSilenced,
           BusyMeansOwned, OnlyOwnersCancel, NoOrphanWhileUp, SilencerRemembers
  <2> QED
    BY <1>12, <2>1, <2>2, <2>3 DEF Shutdown
<1>13. CASE UNCHANGED vars
  BY <1>13 DEF vars, PollerInv, UpInv, PollerAccounted, PollerSilenced, BusyMeansOwned,
               OnlyOwnersCancel, NoOrphanWhileUp, SilencerRemembers
<1> QED
  BY <1>1, <1>2, <1>3, <1>4, <1>5, <1>6, <1>7, <1>8, <1>9, <1>10, <1>11, <1>12, <1>13
     DEF Next, OwnerStep

-----------------------------------------------------------------------------
\* The theorems.

\* At boot nobody holds the lock, a poller exists, and nothing is cancelled.
LEMMA SessionInit == Init => SessionInv
<1> SUFFICES ASSUME Init PROVE SessionInv
  OBVIOUS
<1>1. /\ NoTask \notin Tasks /\ Poller \in Tasks /\ Owners \subseteq Tasks /\ Poller \notin Owners
      /\ \A t \in Tasks : pc[t] = IF t = Poller THEN "new" ELSE "idle"
  BY TasksAssumption DEF Init, Tasks
<1>2. LockDiscipline /\ NoCodeOnDirtyLine
  BY <1>1 DEF Init, LockDiscipline, NoCodeOnDirtyLine, HoldsLock, InBody, InCall
<1>3. PollerAccounted /\ PollerSilenced /\ BusyMeansOwned
  BY <1>1 DEF Init, PollerAccounted, PollerSilenced, BusyMeansOwned, InBody, InCall
<1>4. OnlyOwnersCancel /\ NoOrphanWhileUp /\ SilencerRemembers
  BY <1>1 DEF Init, OnlyOwnersCancel, NoOrphanWhileUp, SilencerRemembers
<1> QED
  BY <1>2, <1>3, <1>4 DEF SessionInv

\* Every step of every task preserves the invariant.
LEMMA SessionStep == TypeOK /\ SessionInv /\ [Next]_vars => SessionInv'
BY LockStep, PollerStep DEF SessionInv, PollerInv, UpInv

\* The inductive invariant holds in every reachable state.
THEOREM SessionCorrect == Spec => [](TypeOK /\ SessionInv)
<1>1. Init => TypeOK /\ SessionInv
  BY TypeInit, SessionInit
<1>2. TypeOK /\ SessionInv /\ [Next]_vars => (TypeOK /\ SessionInv)'
  BY TypeStep, SessionStep
<1> QED
  BY <1>1, <1>2, PTL DEF Spec

\* Mutual exclusion on the board: whoever is between the acquire and the release of
\* THE lock is its holder, for any tasks and in every phase, shutdown included.
THEOREM MutualExclusion == Spec => []LockDiscipline
<1>1. TypeOK /\ SessionInv => LockDiscipline
  BY DEF SessionInv
<1> QED
  BY <1>1, SessionCorrect, PTL

\* exclusive() owns the board in silence: no poller exists between its yield and its
\* release, however many commissions, callers and cancellations there are.
THEOREM CommissionsInSilence == Spec => []PollerSilenced
<1>1. TypeOK /\ SessionInv => PollerSilenced
  BY DEF SessionInv
<1> QED
  BY <1>1, SessionCorrect, PTL

\* No exec starts on a line whose last timeout has not been resynced.
THEOREM CleanExec == Spec => []NoCodeOnDirtyLine
<1>1. TypeOK /\ SessionInv => NoCodeOnDirtyLine
  BY DEF SessionInv
<1> QED
  BY <1>1, SessionCorrect, PTL

\* Acquire, then cancel, then reap: until shutdown begins there is at most one worker
\* thread on the wire that was not left behind by a wedged read.
THEOREM OneThread == Spec => []OneThreadOnTheWire
<1>1. TypeOK /\ SessionInv => OneThreadOnTheWire
  <2> SUFFICES ASSUME SessionInv, life = "up", NEW a \in Threads, NEW b \in Threads
               PROVE  a = b
    BY DEF OneThreadOnTheWire
  <2>1. Threads = {<<t, "awaited">> : t \in Writers}
    BY DEF Threads, SessionInv, NoOrphanWhileUp
  <2>2. PICK t \in Writers, u \in Writers : a = <<t, "awaited">> /\ b = <<u, "awaited">>
    BY <2>1
  <2>3. holder = t /\ holder = u
    BY <2>2 DEF Writers, SessionInv, LockDiscipline, HoldsLock, InBody
  <2> QED
    BY <2>2, <2>3
<1> QED
  BY <1>1, SessionCorrect, PTL

\* Telemetry is never lost to a commission: while the program is up the poller is
\* missing only as long as some commission holds the board.
THEOREM TelemetryReturns == Spec => []TelemetrySurvives
<1>1. TypeOK /\ SessionInv => TelemetrySurvives
  BY DEF SessionInv, SilencerRemembers, TelemetrySurvives, HoldsLock
<1> QED
  BY <1>1, SessionCorrect, PTL

-----------------------------------------------------------------------------
\* The lock's queue.

\* The places of a queue that t has joined.
LEMMA JoinPlaces ==
  ASSUME NEW S, NEW q \in Seq(S), NEW t \in S
  PROVE  /\ Len(q) \in Nat /\ Len(Append(q, t)) = Len(q) + 1
         /\ \A i \in 1 .. Len(q) : Append(q, t)[i] = q[i]
         /\ Append(q, t)[Len(q) + 1] = t
OBVIOUS

\* r is q without its k-th entry.
IsWithout(r, q, k) ==
  /\ k \in 1 .. Len(q) /\ Len(q) \in Nat /\ Len(r) = Len(q) - 1
  /\ \A i \in 1 .. Len(r) : r[i] = IF i < k THEN q[i] ELSE q[i + 1]

LEMMA TailWithout ==
  ASSUME NEW S, NEW q \in Seq(S), q # <<>>
  PROVE  IsWithout(Tail(q), q, 1) /\ Head(q) = q[1]
BY DEF IsWithout

LEMMA RemoveWithout ==
  ASSUME NEW S, NEW q \in Seq(S), NEW k \in 1 .. Len(q)
  PROVE  IsWithout(RemoveAt(q, k), q, k)
<1>0. Len(q) \in Nat OBVIOUS
<1> DEFINE left == SubSeq(q, 1, k - 1)
           right == SubSeq(q, k + 1, Len(q))
<1>1. left \in Seq(S) /\ Len(left) = k - 1 /\ \A i \in 1 .. k - 1 : left[i] = q[i]
  BY <1>0
<1>2. right \in Seq(S) /\ Len(right) = Len(q) - k /\ \A i \in 1 .. Len(q) - k : right[i] = q[k + i]
  BY <1>0
<1>3. RemoveAt(q, k) = left \o right BY DEF RemoveAt
<1> HIDE DEF left, right
<1>4. /\ Len(left \o right) = Len(left) + Len(right)
      /\ \A i \in 1 .. Len(left) + Len(right) :
           (left \o right)[i] = IF i <= Len(left) THEN left[i] ELSE right[i - Len(left)]
  BY <1>1, <1>2, ConcatProperties
<1>5. ASSUME NEW i \in 1 .. Len(q) - 1
      PROVE  (left \o right)[i] = IF i < k THEN q[i] ELSE q[i + 1]
  <2>1. CASE i < k BY <1>0, <1>1, <1>2, <1>4, <2>1
  <2>2. CASE ~(i < k)
    <3>1. i - (k - 1) \in 1 .. Len(q) - k /\ k + (i - (k - 1)) = i + 1 BY <1>0, <2>2
    <3>2. (left \o right)[i] = right[i - (k - 1)] BY <1>0, <1>1, <1>2, <1>4, <2>2
    <3>3. right[i - (k - 1)] = q[k + (i - (k - 1))] BY <1>2, <3>1
    <3> QED BY <2>2, <3>1, <3>2, <3>3
  <2> QED BY <2>1, <2>2
<1>6. Len(left \o right) = Len(q) - 1 BY <1>0, <1>1, <1>2, <1>4
<1> QED BY <1>0, <1>3, <1>5, <1>6 DEF IsWithout

\* What a step may do to the queue: nothing, let a task join it, let one leave it.
QueueSame ==
  UNCHANGED waiters /\ \A u \in Tasks : pc'[u] = "queued" <=> pc[u] = "queued"
QueueJoin(t) ==
  /\ t \in Tasks /\ pc[t] # "queued" /\ waiters' = Append(waiters, t)
  /\ \A u \in Tasks : pc'[u] = "queued" <=> pc[u] = "queued" \/ u = t
QueueLeave(k) ==
  /\ k \in 1 .. Len(waiters) /\ IsWithout(waiters', waiters, k)
  /\ \A u \in Tasks : pc'[u] = "queued" <=> pc[u] = "queued" /\ u # waiters[k]
QueueMove ==
  QueueSame \/ (\E t \in Tasks : QueueJoin(t)) \/ (\E k \in 1 .. Len(waiters) : QueueLeave(k))

\* The lock changes hands only from the head of its queue, if there is one.
HeadServed ==
  holder' # holder /\ holder' # NoTask /\ waiters # <<>> => holder' = Head(waiters)

\* One task moves, and joins the queue.
LEMMA EnqueueJoins ==
  ASSUME ControlOK, NEW t \in Tasks, pc[t] # "queued", Enqueue(t)
  PROVE  QueueMove /\ HeadServed
<1>1. QueueJoin(t) BY MovesAt DEF Enqueue, QueueJoin
<1> QED BY <1>1 DEF QueueMove, HeadServed, Enqueue

\* Tasks move outside the queue.
LEMMA OthersMove ==
  ASSUME UNCHANGED waiters, \A u \in Tasks : pc'[u] = "queued" <=> pc[u] = "queued",
         holder' \in {holder, NoTask} \/ waiters = <<>>
  PROVE  QueueMove /\ HeadServed
BY DEF QueueMove, QueueSame, HeadServed

\* The woken head leaves the queue and takes the lock.
LEMMA HeadLeaves ==
  ASSUME LockOK, QueueInv, NEW t \in Tasks, IsWoken(t), waiters' = Tail(waiters),
         \A u \in Tasks : pc'[u] = "queued" <=> pc[u] = "queued" /\ u # t,
         holder' \in {t, NoTask}
  PROVE  QueueMove /\ HeadServed
<1>1. waiters # <<>> /\ Head(waiters) = t BY DEF IsWoken
<1>2. IsWithout(waiters', waiters, 1) /\ waiters[1] = t BY <1>1, TailWithout DEF LockOK
<1>3. QueueLeave(1) BY <1>2 DEF QueueLeave, IsWithout
<1>4. 1 \in 1 .. Len(waiters) BY <1>2 DEF IsWithout
<1> QED BY <1>1, <1>3, <1>4 DEF QueueMove, HeadServed

\* Every step leaves the queue alone, puts one task behind it or takes one out of it.
LEMMA QueueStep ==
  TypeOK /\ SessionInv /\ QueueInv /\ [Next]_vars => QueueMove /\ HeadServed
<1> SUFFICES ASSUME TypeOK, ControlOK, LockOK, PollerInv, QueueInv, [Next]_vars
             PROVE  QueueMove /\ HeadServed
  BY DEF TypeOK, SessionInv, PollerInv
<1> DEFINE Goal == QueueMove /\ HeadServed
<1>a. /\ Poller \in Tasks /\ Callers \subseteq Tasks /\ Owners \subseteq Tasks
      /\ NoTask \notin Tasks /\ Callers \cap Owners = {} /\ Poller \notin Callers \cup Owners
  BY TasksAssumption DEF Tasks
<1>b. waiters \in Seq(Tasks) BY DEF LockOK
<1>1. ASSUME NEW t \in Callers, Request(t) PROVE Goal
  <2>1. CASE LockFree
    <3>1. waiters = <<>> /\ UNCHANGED waiters /\ pc[t] = "idle" /\ HoldAndCall(t)
      BY <1>1, <2>1 DEF Request, LockFree
    <3>2. \A u \in Tasks : pc'[u] = "queued" <=> pc[u] = "queued"
      BY <1>a, <3>1, HoldAndCallEffect DEF InCall
    <3> QED BY <3>1, <3>2, OthersMove
  <2>2. CASE ~LockFree
    BY <1>1, <1>a, <2>2, EnqueueJoins DEF Request
  <2> QED BY <2>1, <2>2
<1>2. ASSUME NEW o \in Owners, Enter(o) PROVE Goal
  <2>1. CASE LockFree
    <3>1. waiters = <<>> /\ UNCHANGED waiters /\ pc[o] = "idle" /\ HoldAndSilence(o)
      BY <1>2, <2>1 DEF Enter, LockFree
    <3>2. \A u \in Tasks : pc'[u] = "queued" <=> pc[u] = "queued"
      BY <1>a, <3>1, HoldAndSilenceEffect
    <3> QED BY <3>1, <3>2, OthersMove
  <2>2. CASE ~LockFree
    BY <1>2, <1>a, <2>2, EnqueueJoins DEF Enter
  <2> QED BY <2>1, <2>2
<1>3. CASE PollRound
  <2>0. pc[Poller] # "queued" BY <1>3 DEF PollRound
  <2>1. CASE Moves(Poller, "sleeping") /\ UNCHANGED lockVars
    <3>1. \A u \in Tasks : pc'[u] = "queued" <=> pc[u] = "queued"
      BY <1>a, <2>0, <2>1, MovesAt
    <3> QED BY <2>1, <3>1, OthersMove DEF lockVars
  <2>2. CASE LockFree /\ HoldAndCall(Poller) /\ UNCHANGED waiters
    <3>1. \A u \in Tasks : pc'[u] = "queued" <=> pc[u] = "queued"
      BY <1>a, <2>0, <2>2, HoldAndCallEffect DEF InCall
    <3> QED BY <2>2, <3>1, OthersMove DEF LockFree
  <2>3. CASE Enqueue(Poller)
    BY <1>a, <2>0, <2>3, EnqueueJoins
  <2> QED BY <1>3, <2>1, <2>2, <2>3 DEF PollRound
<1>4. ASSUME NEW t \in Callers \cup {Poller}, GrantCall(t) PROVE Goal
  <2>1. IsWoken(t) /\ waiters' = Tail(waiters) /\ HoldAndCall(t) /\ t \in Tasks
    BY <1>4, <1>a DEF GrantCall
  <2>2. \A u \in Tasks : pc'[u] = "queued" <=> pc[u] = "queued" /\ u # t
    BY <2>1, HoldAndCallEffect DEF InCall
  <2>3. holder' \in {t, NoTask} BY <2>1, HoldAndCallEffect
  <2> QED BY <2>1, <2>2, <2>3, HeadLeaves
<1>5. ASSUME NEW o \in Owners, GrantExclusive(o) PROVE Goal
  <2>1. IsWoken(o) /\ waiters' = Tail(waiters) /\ HoldAndSilence(o) /\ o \in Tasks
    BY <1>5, <1>a DEF GrantExclusive
  <2>2. \A u \in Tasks : pc'[u] = "queued" <=> pc[u] = "queued" /\ u # o
    BY <1>a, <2>1, HoldAndSilenceEffect
  <2>3. holder' = o BY <2>1, HoldAndSilenceEffect
  <2> QED BY <2>1, <2>2, <2>3, HeadLeaves
<1>6. ASSUME NEW t \in Tasks, CallStep(t) PROVE Goal
  <2>0. pc[t] \in InCall
    BY <1>6 DEF CallStep, ExecReturns, ExecTimesOut, ResyncReturns, ResetReturns, ResetRaises, InCall
  <2>1. ASSUME NEW at \in {"idle", "body", "sleeping", "exec", "reset"}, Moves(t, at),
               UNCHANGED waiters, holder' \in {holder, NoTask}
        PROVE  Goal
    <3>1. \A u \in Tasks : pc'[u] = "queued" <=> pc[u] = "queued"
      BY <2>0, <2>1, MovesAt DEF InCall
    <3> QED BY <2>1, <3>1, OthersMove
  <2>2. CASE Resume(t)
    <3>1. CASE t \in Callers /\ Moves(t, "idle") /\ holder' = NoTask /\ UNCHANGED waiters
      BY <2>1, <3>1
    <3>2. CASE t \in Owners /\ Moves(t, "body") /\ UNCHANGED lockVars
      BY <2>1, <3>2 DEF lockVars
    <3>3. CASE t = Poller /\ NextSensor
      <4>1. CASE Moves(Poller, "sleeping") /\ holder' = NoTask /\ UNCHANGED waiters
        BY <2>1, <3>3, <4>1
      <4>2. CASE Moves(Poller, CallEntry(dirty')) /\ UNCHANGED lockVars
        <5>1. \A u \in Tasks : pc'[u] = "queued" <=> pc[u] = "queued"
          BY <2>0, <3>3, <4>2, MovesAt DEF InCall, CallEntry
        <5> QED BY <4>2, <5>1, OthersMove DEF lockVars
      <4>3. CASE /\ Moves(Poller, "queued") /\ holder' = NoTask
                 /\ waiters' = Append(waiters, Poller)
        <5>1. QueueJoin(Poller) BY <2>0, <3>3, <4>3, MovesAt DEF QueueJoin, InCall
        <5> QED BY <1>a, <4>3, <5>1 DEF QueueMove, HeadServed
      <4> QED BY <3>3, <4>1, <4>2, <4>3 DEF NextSensor
    <3> QED BY <2>2, <3>1, <3>2, <3>3 DEF Resume
  <2>3. CASE Moves(t, "reset") /\ UNCHANGED lockVars BY <2>1, <2>3 DEF lockVars
  <2>4. CASE Moves(t, "exec") /\ UNCHANGED lockVars BY <2>1, <2>4 DEF lockVars
  <2>5. CASE Moves(t, "sleeping") /\ holder' = NoTask /\ UNCHANGED waiters BY <2>1, <2>5
  <2> QED
    BY <1>6, <2>2, <2>3, <2>4, <2>5
       DEF CallStep, ExecReturns, ExecTimesOut, ResyncReturns, ResetReturns, ResetRaises
<1>7. ASSUME NEW o \in Owners, Reaped(o) PROVE Goal
  <2>1. \A u \in Tasks : pc'[u] = "queued" <=> pc[u] = "queued"
    BY <1>7, <1>a DEF Reaped, ControlOK
  <2> QED BY <1>7, <2>1, OthersMove DEF Reaped, lockVars
<1>8. ASSUME NEW o \in Owners, BodyCalls(o) PROVE Goal
  <2>1. PICK at \in {CallEntry(dirty), "reset"} : Moves(o, IF Connected THEN at ELSE "body")
    BY <1>8 DEF BodyCalls
  <2>2. \A u \in Tasks : pc'[u] = "queued" <=> pc[u] = "queued"
    BY <1>8, <1>a, <2>1, MovesAt DEF BodyCalls, CallEntry
  <2> QED BY <1>8, <2>2, OthersMove DEF BodyCalls, lockVars
<1>9. ASSUME NEW o \in Owners, Exit(o) PROVE Goal
  <2>1. ~pollerTask => pc[Poller] = "off" BY DEF PollerInv, PollerAccounted
  <2>2. \A u \in Tasks : pc'[u] = "queued" <=> pc[u] = "queued"
    BY <1>9, <1>a, <2>1 DEF Exit, Moves, ControlOK
  <2> QED BY <1>9, <2>2, OthersMove DEF Exit
<1>10. ASSUME NEW t \in Tasks, CancelLands(t) PROVE Goal
  <2>1. /\ pc'[t] \in {"done", "stopped"} /\ \A u \in Tasks \ {t} : pc'[u] = pc[u]
        /\ holder' \in {holder, NoTask}
    BY <1>10, MovesAt DEF CancelLands
  <2>2. CASE t \notin Range(waiters) /\ UNCHANGED waiters
    <3>1. pc[t] # "queued" BY <1>b, <2>2 DEF QueueInv, Range
    <3> QED BY <2>1, <2>2, <3>1, OthersMove
  <2>3. CASE \E i \in 1 .. Len(waiters) : waiters[i] = t /\ waiters' = RemoveAt(waiters, i)
    <3>1. PICK i \in 1 .. Len(waiters) : waiters[i] = t /\ waiters' = RemoveAt(waiters, i)
      BY <2>3
    <3>2. IsWithout(RemoveAt(waiters, i), waiters, i) BY <1>b, RemoveWithout
    <3>3. QueueLeave(i) BY <2>1, <3>1, <3>2 DEF QueueLeave
    <3> QED BY <2>1, <3>3 DEF QueueMove, HeadServed
  <2> QED BY <1>10, <2>2, <2>3 DEF CancelLands
<1>11. ASSUME UNCHANGED <<pc, lockVars>> PROVE Goal
  BY <1>11, OthersMove DEF lockVars
<1>12. CASE Shutdown
  <2>1. CASE StopPoller \/ StopPollerReturns
    <3>1. pc[Poller] \in {"done", "off"} \/ UNCHANGED pc
      BY <2>1, <1>a DEF StopPoller, StopPollerReturns, StopperReady, PollerInv, PollerAccounted,
                        Moves, ControlOK
    <3>2. pc'[Poller] \in {"done", "off"} \/ UNCHANGED pc
      BY <2>1, <1>a, <3>1, MovesAt DEF StopPoller, StopPollerReturns
    <3>3. \A u \in Tasks \ {Poller} : pc'[u] = pc[u]
      BY <2>1, <1>a, MovesAt DEF StopPoller, StopPollerReturns
    <3>4. UNCHANGED <<holder, waiters>>
      BY <2>1 DEF StopPoller, StopPollerReturns, lockVars
    <3>5. \A u \in Tasks : pc'[u] = "queued" <=> pc[u] = "queued" BY <3>1, <3>2, <3>3
    <3> QED BY <3>4, <3>5, OthersMove
  <2> QED BY <1>11, <1>12, <2>1 DEF Shutdown, StopDaemon, CloseReturns
<1>13. CASE UNCHANGED vars BY <1>11, <1>13 DEF vars, lockVars
<1> QED
  BY <1>1, <1>2, <1>3, <1>4, <1>5, <1>6, <1>7, <1>8, <1>9, <1>10, <1>11, <1>12, <1>13
     DEF Next, OwnerStep, ThreadEnds

\* A task in the queue is suspended there, once, and the other way round.
LEMMA QueueInvStep == TypeOK /\ QueueInv /\ QueueMove => QueueInv'
<1> SUFFICES ASSUME LockOK, QueueInv, QueueMove PROVE QueueInv' BY DEF TypeOK
<1>1. CASE QueueSame BY <1>1 DEF QueueSame, QueueInv
<1>2. ASSUME NEW t \in Tasks, QueueJoin(t) PROVE QueueInv'
  <2>1. /\ Len(waiters) \in Nat /\ Len(waiters') = Len(waiters) + 1
        /\ \A i \in 1 .. Len(waiters) : waiters'[i] = waiters[i]
        /\ waiters'[Len(waiters) + 1] = t
    BY <1>2, JoinPlaces DEF QueueJoin, LockOK
  <2>2. \A i \in 1 .. Len(waiters) : waiters[i] # t BY <1>2 DEF QueueJoin, QueueInv
  <2>3. \A i \in 1 .. Len(waiters') : i \in 1 .. Len(waiters) \/ i = Len(waiters) + 1
    BY <2>1
  <2>4. \A i, j \in 1 .. Len(waiters') : waiters'[i] = waiters'[j] => i = j
    BY <2>1, <2>2, <2>3 DEF QueueInv
  <2>5. ASSUME NEW u \in Tasks
        PROVE  pc'[u] = "queued" <=> \E i \in 1 .. Len(waiters') : waiters'[i] = u
    <3>1. (\E i \in 1 .. Len(waiters') : waiters'[i] = u)
            <=> (\E i \in 1 .. Len(waiters) : waiters[i] = u) \/ u = t
      BY <2>1, <2>3
    <3> QED BY <1>2, <3>1 DEF QueueJoin, QueueInv
  <2> QED BY <2>4, <2>5 DEF QueueInv
<1>3. ASSUME NEW k \in 1 .. Len(waiters), QueueLeave(k) PROVE QueueInv'
  <2> DEFINE At(i) == IF i < k THEN i ELSE i + 1
  <2>1. /\ Len(waiters) \in Nat /\ Len(waiters') = Len(waiters) - 1
        /\ \A i \in 1 .. Len(waiters') : waiters'[i] = waiters[At(i)]
    BY <1>3 DEF QueueLeave, IsWithout
  <2>2. \A i \in 1 .. Len(waiters') : At(i) \in 1 .. Len(waiters) /\ At(i) # k
    BY <2>1
  <2>3. \A i, j \in 1 .. Len(waiters') : At(i) = At(j) => i = j
    BY <2>1
  <2>4. \A i \in 1 .. Len(waiters) : i # k => \E j \in 1 .. Len(waiters') : At(j) = i
    <3> SUFFICES ASSUME NEW i \in 1 .. Len(waiters), i # k
                 PROVE  \E j \in 1 .. Len(waiters') : At(j) = i
      OBVIOUS
    <3> DEFINE j == IF i < k THEN i ELSE i - 1
    <3>1. j \in 1 .. Len(waiters') /\ At(j) = i BY <2>1
    <3> QED BY <3>1
  <2> HIDE DEF At
  <2>5. \A i, j \in 1 .. Len(waiters') : waiters'[i] = waiters'[j] => i = j
    BY <2>1, <2>2, <2>3, SMTT(30) DEF QueueInv
  <2>6. ASSUME NEW u \in Tasks
        PROVE  pc'[u] = "queued" <=> \E i \in 1 .. Len(waiters') : waiters'[i] = u
    <3>1. (\E i \in 1 .. Len(waiters') : waiters'[i] = u)
            <=> (\E i \in 1 .. Len(waiters) : waiters[i] = u /\ i # k)
      BY <2>1, <2>2, <2>4
    <3>2. (\E i \in 1 .. Len(waiters) : waiters[i] = u /\ i # k)
            <=> (\E i \in 1 .. Len(waiters) : waiters[i] = u) /\ u # waiters[k]
      BY DEF QueueInv
    <3> QED BY <1>3, <3>1, <3>2 DEF QueueLeave, QueueInv
  <2> QED BY <2>5, <2>6 DEF QueueInv
<1> QED BY <1>1, <1>2, <1>3 DEF QueueMove

\* None of these moves puts a task ahead of a waiter that it was not ahead of.
LEMMA QueueOrder ==
  ASSUME LockOK, QueueInv, QueueMove
  PROVE  \A a \in Range(waiters), b \in Tasks : Before(waiters', b, a) => Before(waiters, b, a)
<1> SUFFICES ASSUME NEW a \in Range(waiters), NEW b \in Tasks, Before(waiters', b, a)
             PROVE  Before(waiters, b, a)
  OBVIOUS
<1>0. PICK i \in 1 .. Len(waiters'), j \in 1 .. Len(waiters') :
        i < j /\ waiters'[i] = b /\ waiters'[j] = a
  BY DEF Before
<1>1. CASE QueueSame BY <1>1 DEF QueueSame
<1>2. ASSUME NEW t \in Tasks, QueueJoin(t) PROVE Before(waiters, b, a)
  <2>1. /\ Len(waiters) \in Nat /\ Len(waiters') = Len(waiters) + 1
        /\ \A n \in 1 .. Len(waiters) : waiters'[n] = waiters[n]
        /\ waiters'[Len(waiters) + 1] = t
    BY <1>2, JoinPlaces DEF QueueJoin, LockOK
  <2>2. \E n \in 1 .. Len(waiters) : waiters[n] = a BY DEF Range, LockOK
  <2>3. a # t BY <1>2, <2>2 DEF QueueJoin, QueueInv
  <2>4. j # Len(waiters) + 1 BY <1>0, <2>1, <2>3
  <2>5. i \in 1 .. Len(waiters) /\ j \in 1 .. Len(waiters) BY <1>0, <2>1, <2>4
  <2> QED BY <1>0, <2>1, <2>5 DEF Before
<1>3. ASSUME NEW k \in 1 .. Len(waiters), QueueLeave(k) PROVE Before(waiters, b, a)
  <2> DEFINE At(n) == IF n < k THEN n ELSE n + 1
  <2>1. /\ Len(waiters) \in Nat /\ Len(waiters') = Len(waiters) - 1
        /\ \A n \in 1 .. Len(waiters') : waiters'[n] = waiters[At(n)]
    BY <1>3 DEF QueueLeave, IsWithout
  <2>2. At(i) \in 1 .. Len(waiters) /\ At(j) \in 1 .. Len(waiters) /\ At(i) < At(j)
    BY <1>0, <2>1
  <2> HIDE DEF At
  <2>3. waiters[At(i)] = b /\ waiters[At(j)] = a BY <1>0, <2>1
  <2> QED BY <2>2, <2>3 DEF Before
<1> QED BY <1>1, <1>2, <1>3 DEF QueueMove

\* The queue of THE lock holds exactly the tasks that wait for it, each once.
THEOREM WaitersAccounted == Spec => []QueueInv
<1>1. Init => QueueInv
  BY DEF Init, QueueInv
<1>2. TypeOK /\ SessionInv /\ QueueInv /\ [Next]_vars => QueueInv'
  BY QueueStep, QueueInvStep
<1> QED BY <1>1, <1>2, SessionCorrect, PTL DEF Spec

\* A task that waits for the board is not overtaken by another, newly arrived or not,
\* and only the head of the queue is given the lock.
THEOREM FirstComeFirstServed == Spec => NoOvertaking
<1>1. TypeOK /\ SessionInv /\ QueueInv /\ [Next]_vars =>
        [/\ \A a \in Range(waiters), b \in Tasks : Before(waiters', b, a) => Before(waiters, b, a)
         /\ holder' # holder /\ holder' # NoTask /\ waiters # <<>>
              => holder' = Head(waiters)]_vars
  BY QueueStep, QueueOrder DEF TypeOK, HeadServed
<1> QED BY <1>1, SessionCorrect, WaitersAccounted, PTL DEF Spec, NoOvertaking

-----------------------------------------------------------------------------
\* BoardSession implements BoardAccess.

Working == holder # NoTask /\ pc[holder] \in InCall
Owed == holder \in Owners /\ wasRunning[holder]
AccessStep == [Access!Next]_(Access!vars)

\* A step that leaves the abstract state alone.
LEMMA Stutters ==
  ASSUME UNCHANGED <<holder, pollerTask>>, Working' <=> Working, Owed' <=> Owed
  PROVE  AccessStep
BY DEF AccessStep, Access!vars, Working, Owed

\* A sharer's step takes the board with a call on the wire, gives it back, goes on
\* with its call, or happens away from the board.
LEMMA SharerMaps ==
  ASSUME TypeOK, LockDiscipline, NEW t \in Callers \cup {Poller},
         \A u \in Tasks \ {t} : pc'[u] = pc[u],
         UNCHANGED pollVars,
         \/ holder = NoTask /\ holder' = t /\ pc'[t] \in InCall
         \/ holder = t /\ holder' = NoTask
         \/ holder = t /\ holder' = t /\ pc'[t] \in InCall
         \/ holder # t /\ holder' = holder
  PROVE  AccessStep
<1>1. /\ t \in Tasks /\ t \notin Owners /\ NoTask \notin Tasks /\ NoTask \notin Owners
      /\ holder \in Tasks \cup {NoTask}
  BY TasksAssumption DEF Tasks, TypeOK, LockOK
<1>2. holder = t => pc[t] \in InCall
  BY <1>1, TasksAssumption
     DEF LockDiscipline, HoldsLock, InBody, TypeOK, ControlOK, CallerPc, PollerPc, InCall
<1>3. CASE holder = NoTask /\ holder' = t /\ pc'[t] \in InCall
  <2>1. Access!Borrow(t)
    BY <1>1, <1>3 DEF Access!Borrow, pollVars
  <2> QED
    BY <2>1 DEF AccessStep, Access!Next
<1>4. CASE holder = t /\ holder' = NoTask
  <2>1. Access!GiveBack(t)
    BY <1>1, <1>4 DEF Access!GiveBack, pollVars
  <2> QED
    BY <2>1 DEF AccessStep, Access!Next
<1>5. CASE holder = t /\ holder' = t /\ pc'[t] \in InCall
  BY <1>1, <1>2, <1>5, Stutters DEF Working, Owed, pollVars
<1>6. CASE holder # t /\ holder' = holder
  BY <1>1, <1>6, Stutters DEF Working, Owed, pollVars
<1> QED
  BY <1>3, <1>4, <1>5, <1>6

\* An owner that takes the lock seizes the board, with telemetry on its account.
LEMMA OwnerSeizes ==
  ASSUME TypeOK, NEW o \in Owners, holder = NoTask, HoldAndSilence(o)
  PROVE  AccessStep
<1>1. o # NoTask /\ NoTask \notin Owners
  BY TasksAssumption
<1>2. holder' = o /\ pc'[o] \notin InCall /\ (wasRunning'[o] <=> pollerTask)
  BY HoldAndSilenceEffect DEF InCall
<1>3. pollerTask' = pollerTask \/ ~pollerTask'
  BY HoldAndSilenceEffect
<1>4. pollerTask \in BOOLEAN /\ pollerTask' \in BOOLEAN
  BY HoldAndSilenceType DEF TypeOK, DataOK
<1>5. pollerTask' \in {pollerTask, FALSE}
  BY <1>3, <1>4
<1>6. (holder' # NoTask /\ pc'[holder'] \in InCall) = FALSE
  BY <1>1, <1>2
<1>7. (holder' \in Owners /\ wasRunning'[holder']) = pollerTask
  BY <1>2, <1>4
<1>8. Access!Seize(o)
  BY <1>2, <1>5, <1>6, <1>7 DEF Access!Seize
<1> QED
  BY <1>8 DEF AccessStep, Access!Next

\* An owner's call begins or ends, in silence, or it goes on.
LEMMA OwnerOperates ==
  ASSUME TypeOK, SessionInv, NEW o \in Owners, holder = o, holder' = o,
         pc[o] \in InBody, UNCHANGED pollVars
  PROVE  AccessStep
<1>1. o # NoTask
  BY TasksAssumption
<1>2. ~pollerTask
  BY DEF SessionInv, PollerSilenced
<1>3. CASE Working' <=> Working
  BY <1>3, Stutters DEF Owed, pollVars
<1>4. CASE ~(Working' <=> Working)
  <2>1. Access!Operate(o)
    BY <1>1, <1>2, <1>4 DEF Access!Operate, Working, pollVars
  <2> QED
    BY <2>1 DEF AccessStep, Access!Next
<1> QED
  BY <1>3, <1>4

\* A step of the shutdown either does not concern the board or hushes telemetry.
LEMMA ShutdownMaps ==
  ASSUME UNCHANGED <<holder, wasRunning>>, Working' <=> Working,
         pollerTask' = pollerTask \/ ~pollerTask'
  PROVE  AccessStep
<1>1. CASE pollerTask' = pollerTask
  BY <1>1, Stutters DEF Owed
<1>2. CASE ~pollerTask'
  <2>1. Access!Hush
    BY <1>2 DEF Access!Hush, Working
  <2> QED
    BY <2>1 DEF AccessStep, Access!Next
<1> QED
  BY <1>1, <1>2

\* Every step of the session is a step of the promise, or none.
LEMMA AccessRefines ==
  TypeOK /\ SessionInv /\ [Next]_vars => AccessStep
<1> SUFFICES ASSUME TypeOK, SessionInv, ControlOK, LockDiscipline, [Next]_vars
             PROVE  AccessStep
  BY DEF TypeOK, SessionInv
<1>a. /\ Poller \in Tasks /\ Callers \subseteq Tasks /\ Owners \subseteq Tasks
      /\ NoTask \notin Tasks /\ Callers \cap Owners = {} /\ Poller \notin Callers \cup Owners
      /\ Tasks = Callers \cup {Poller} \cup Owners
  BY TasksAssumption DEF Tasks
<1>b. \A t \in Tasks : pc[t] \in InCall => holder = t
  BY DEF LockDiscipline, HoldsLock, InBody
<1>1. ASSUME NEW t \in Callers, Request(t) PROVE AccessStep
  <2>1. holder # t
    BY <1>1, <1>a DEF Request, LockDiscipline, HoldsLock, InBody, InCall
  <2>2. CASE LockFree
    BY <1>1, <2>1, <2>2, HoldAndCallEffect, SharerMaps DEF Request, LockFree
  <2>3. CASE ~LockFree
    BY <1>1, <1>a, <2>1, <2>3, MovesAt, SharerMaps DEF Request, Enqueue
  <2> QED
    BY <2>2, <2>3
<1>2. ASSUME NEW o \in Owners, Enter(o) PROVE AccessStep
  <2>1. CASE LockFree
    BY <1>2, <2>1, OwnerSeizes DEF Enter, LockFree
  <2>2. CASE ~LockFree
    <3>1. pc[o] = "idle" /\ pc'[o] = "queued" /\ \A u \in Tasks \ {o} : pc'[u] = pc[u]
      BY <1>2, <1>a, <2>2, MovesAt DEF Enter, Enqueue
    <3>2. holder # o
      BY <1>a, <3>1 DEF LockDiscipline, HoldsLock, InBody, InCall
    <3>3. UNCHANGED <<holder, pollerTask, wasRunning>>
      BY <1>2, <2>2 DEF Enter, Enqueue, pollVars
    <3> QED
      BY <3>1, <3>2, <3>3, Stutters DEF Working, Owed, TypeOK, LockOK
  <2> QED
    BY <2>1, <2>2
<1>3. CASE PollRound
  <2>1. holder # Poller
    BY <1>3, <1>a DEF PollRound, LockDiscipline, HoldsLock, InBody, InCall
  <2>2. CASE LockFree /\ HoldAndCall(Poller)
    BY <1>3, <2>1, <2>2, HoldAndCallEffect, SharerMaps DEF PollRound, LockFree
  <2>3. CASE Enqueue(Poller) \/ (Moves(Poller, "sleeping") /\ UNCHANGED lockVars)
    BY <1>3, <1>a, <2>1, <2>3, MovesAt, SharerMaps DEF PollRound, Enqueue, lockVars
  <2> QED
    BY <1>3, <2>2, <2>3 DEF PollRound
<1>4. ASSUME NEW t \in Callers \cup {Poller}, GrantCall(t) PROVE AccessStep
  <2>1. holder # t
    BY <1>4, <1>a DEF GrantCall, IsWoken
  <2> QED
    BY <1>4, <2>1, HoldAndCallEffect, SharerMaps DEF GrantCall, IsWoken
<1>5. ASSUME NEW o \in Owners, GrantExclusive(o) PROVE AccessStep
  BY <1>5, OwnerSeizes DEF GrantExclusive, IsWoken
<1>6. ASSUME NEW t \in Tasks, CallStep(t) PROVE AccessStep
  <2>1. pc[t] \in InCall /\ holder = t /\ UNCHANGED pollVars
    BY <1>6, <1>b DEF CallStep, ExecReturns, ExecTimesOut, ResyncReturns, ResetReturns,
                      ResetRaises, InCall, AfterCall
  <2>2. CASE t \in Owners
    <3>1. holder' = holder
      BY <1>6, <1>a, <2>2, ResumeEffect
         DEF CallStep, ExecReturns, ExecTimesOut, ResyncReturns, ResetReturns, ResetRaises,
             lockVars
    <3> QED
      BY <2>1, <2>2, <3>1, OwnerOperates DEF InBody
  <2>3. CASE t \notin Owners
    <3>1. /\ \A u \in Tasks \ {t} : pc'[u] = pc[u]
          /\ holder' = NoTask \/ (holder' = holder /\ pc'[t] \in InCall)
      BY <1>6, <1>a, <2>3, ResumeEffect, MovesAt
         DEF CallStep, ExecReturns, ExecTimesOut, ResyncReturns, ResetReturns, ResetRaises,
             lockVars, InCall
    <3> QED
      BY <1>a, <2>1, <2>3, <3>1, SharerMaps
  <2> QED
    BY <2>2, <2>3
<1>7. ASSUME NEW o \in Owners, Reaped(o) PROVE AccessStep
  <2>1. /\ pc[o] = "reaping" /\ pc'[o] = "body" /\ ~pollerTask'
        /\ UNCHANGED <<holder, wasRunning>>
    BY <1>7, <1>a DEF Reaped, ControlOK, lockVars
  <2>2. holder = o
    BY <1>a, <2>1 DEF LockDiscipline, HoldsLock
  <2> QED
    BY <2>1, <2>2, ShutdownMaps DEF Working, InCall
<1>8. ASSUME NEW o \in Owners, BodyCalls(o) PROVE AccessStep
  <2>1. pc[o] = "body" /\ UNCHANGED <<holder, pollerTask, wasRunning>>
    BY <1>8 DEF BodyCalls, lockVars, pollVars
  <2>2. holder = o
    BY <1>a, <2>1 DEF LockDiscipline, HoldsLock, InBody
  <2> QED
    BY <2>1, <2>2, OwnerOperates DEF InBody, pollVars
<1>9. ASSUME NEW o \in Owners, Exit(o) PROVE AccessStep
  <2>1. pc[o] = "body" /\ holder' = NoTask /\ UNCHANGED wasRunning
    BY <1>9 DEF Exit
  <2>2. holder = o /\ o # NoTask /\ NoTask \notin Owners
    BY <1>a, <2>1 DEF LockDiscipline, HoldsLock, InBody
  <2>3. ~pollerTask
    BY <2>1 DEF SessionInv, PollerSilenced, InBody
  <2>4. pollerTask' <=> wasRunning[o]
    BY <1>9, <2>3 DEF Exit
  <2>5. Access!Leave(o)
    BY <2>1, <2>2, <2>3, <2>4, <1>a DEF Access!Leave, InCall, TypeOK, DataOK
  <2> QED
    BY <2>5 DEF AccessStep, Access!Next
<1>10. ASSUME NEW t \in Tasks, CancelLands(t) PROVE AccessStep
  <2>1. t \in Callers \cup {Poller}
    BY <1>10, TasksAssumption DEF CancelLands, TypeOK, DataOK
  <2>2. /\ \A u \in Tasks \ {t} : pc'[u] = pc[u]
        /\ holder' = IF holder = t THEN NoTask ELSE holder
        /\ UNCHANGED pollVars
    BY <1>10, MovesAt DEF CancelLands
  <2> QED
    BY <2>1, <2>2, SharerMaps
<1>11. ASSUME UNCHANGED <<pc, holder, pollerTask, wasRunning>> PROVE AccessStep
  BY <1>11, Stutters DEF Working, Owed
<1>12. CASE Shutdown
  <2>1. CASE StopPoller \/ StopPollerReturns
    <3>1. \A u \in Tasks \ {Poller} : pc'[u] = pc[u]
      BY <1>a, <2>1, MovesAt DEF StopPoller, StopPollerReturns
    <3>2. pc'[Poller] = pc[Poller] \/ (pc[Poller] \notin InCall /\ pc'[Poller] \notin InCall)
      BY <1>a, <2>1, MovesAt
         DEF StopPoller, StopPollerReturns, StopperReady, SessionInv, PollerAccounted, InCall
    <3>3. UNCHANGED <<holder, wasRunning>> /\ (pollerTask' = pollerTask \/ ~pollerTask')
      BY <2>1 DEF StopPoller, StopPollerReturns, lockVars
    <3>4. Working' <=> Working
      BY <3>1, <3>2, <3>3 DEF Working, TypeOK, LockOK
    <3> QED
      BY <3>3, <3>4, ShutdownMaps
  <2> QED
    BY <1>11, <1>12, <2>1 DEF Shutdown, StopDaemon, CloseReturns, lockVars, pollVars
<1>13. CASE UNCHANGED vars
  BY <1>11, <1>13 DEF vars
<1> QED
  BY <1>1, <1>2, <1>3, <1>4, <1>5, <1>6, <1>7, <1>8, <1>9, <1>10, <1>11, <1>12, <1>13
     DEF Next, OwnerStep, ThreadEnds, lockVars, pollVars

\* The session implements the promise of BoardAccess for any tasks: one user at a
\* time, commissions in silence, telemetry brought back on leaving.
THEOREM Implementation == Spec => ImplementsBoardAccess
<1>1. Init => Access!Init
  BY TasksAssumption DEF Init, Access!Init, Tasks
<1>2. TypeOK /\ SessionInv /\ [Next]_vars => [Access!Next]_(Access!vars)
  BY AccessRefines DEF AccessStep
<1> QED
  BY <1>1, <1>2, SessionCorrect, PTL DEF Spec, ImplementsBoardAccess, Access!Spec
=============================================================================
