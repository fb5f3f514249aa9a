----------------------- MODULE ActuatorControlProofs -----------------------
(***************************************************************************)
(* The last word wins and a test whose off call returns leaves the         *)
(* actuator off, for any set of clients and levels and any number of sets  *)
(* and commissions.  Inductive: the order of the queue with the last set   *)
(* that had its turn, and what each phase says about the report, the tests *)
(* and the output.                                                         *)
(***************************************************************************)
EXTENDS ActuatorControl, SequenceTheorems, TLAPS

\* A place in the queue.
Place == [n : 0 .. MaxAsks, level : Levels]

\* Every step does one of four things to the queue.
Joins(n, level) ==
  /\ line' = Append(line, Request(n, level)) /\ UNCHANGED <<phase, last>>

Leaves ==
  /\ phase # "free" /\ phase' = "free" /\ line' = Tail(line)
  /\ last'.n = last.n /\ UNCHANGED <<asks, word>>

Stays ==
  /\ phase # "free" /\ phase' # "free"
  /\ last'.n = last.n /\ UNCHANGED <<line, asks, word>>

\* The queue without its head: what was behind it, one place further on.
LEMMA TailPlaces ==
  ASSUME line \in Seq(Place), line # <<>>
  PROVE  /\ Tail(line) \in Seq(Place) /\ Len(Tail(line)) = Len(line) - 1
         /\ Len(line) \in Nat \ {0}
         /\ \A i \in 1 .. Len(Tail(line)) : Tail(line)[i] = line[i + 1] /\ i + 1 \in 1 .. Len(line)
         /\ line[1] \in Place
OBVIOUS

\* The queue with a request behind it.
LEMMA AppendPlaces ==
  ASSUME line \in Seq(Place), NEW r \in Place
  PROVE  /\ Append(line, r) \in Seq(Place) /\ Len(Append(line, r)) = Len(line) + 1
         /\ Len(line) \in Nat
         /\ \A i \in 1 .. Len(line) : Append(line, r)[i] = line[i]
         /\ Append(line, r)[Len(line) + 1] = r
OBVIOUS

\* Both bounds are natural numbers, and the levels contain 0 and 1.
LEMMA Constants ==
  /\ MaxAsks \in Nat /\ MaxCommissions \in Nat
  /\ 0 \in Levels /\ 1 \in Levels /\ \A l \in Levels : l \in Nat
BY LevelsAssumption, AskBounds

LEMMA InitType == Init => TypeOK
<1> SUFFICES ASSUME Init PROVE TypeOK OBVIOUS
<1> USE Constants
<1>1. line \in Seq([n : 0 .. MaxAsks, level : Levels]) BY DEF Init
<1>2. waits \in [Clients -> 0 .. MaxAsks] BY DEF Init, Nothing
<1>3. last \in [n : 0 .. MaxAsks, ok : BOOLEAN] BY DEF Init
<1>4. registered \in BOOLEAN /\ raised \in BOOLEAN /\ tested \in {"no", "started", "drove", "broken"}
  BY DEF Init
<1>5. output = Unsure /\ card = NoLevel /\ asks \in 0 .. MaxAsks /\ comms \in 0 .. MaxCommissions
  BY DEF Init
<1>6. phase = "free" /\ word \in Levels BY DEF Init
<1> QED BY <1>1, <1>2, <1>3, <1>4, <1>5, <1>6 DEF TypeOK

\* What a reply does, whatever it says.
LEMMA ReplyType ==
  ASSUME TypeOK, phase # "free", NEW ok \in BOOLEAN, Replies(ok),
         output' \in Levels \cup {Unsure}, tested' \in {"no", "started", "drove", "broken"}
  PROVE  TypeOK'
<1> USE DEF TypeOK, Place
<1>1. line \in Seq(Place) /\ line # <<>> OBVIOUS
<1>2. /\ Tail(line) \in Seq(Place) /\ line[1] \in Place
  BY <1>1, TailPlaces
<1>3. raised' \in BOOLEAN BY DEF Replies
<1>4. CASE Testing
  <2>1. Judges(ok) BY <1>4 DEF Replies
  <2>2. registered' \in BOOLEAN BY <2>1, Zenon DEF Judges
  <2>3. UNCHANGED <<card, waits, asks, comms, word, last>> BY <2>1 DEF Judges, callers
  <2>4. /\ line' \in Seq(Place) /\ phase' \in {"free", "drafting"}
        /\ phase' # "free" => line' # <<>>
    BY <1>1, <1>2, <2>1 DEF Judges
  <2> QED BY <1>3, <2>2, <2>3, <2>4
<1>5. CASE ~Testing
  <2>1. Reports(ok) BY <1>5 DEF Replies
  <2>2. card' \in Levels BY <1>2, <2>1 DEF Reports, Holder
  <2>3. last' \in [n : 0 .. MaxAsks, ok : BOOLEAN] BY <2>1 DEF Reports
  <2>4. waits' \in [Clients -> 0 .. MaxAsks] BY Constants, <2>1 DEF Reports, Nothing
  <2>5. line' \in Seq(Place) /\ phase' = "free" BY <1>2, <2>1 DEF Reports
  <2>6. UNCHANGED <<registered, asks, comms, word>> BY <2>1 DEF Reports
  <2> QED BY <1>3, <2>2, <2>3, <2>4, <2>5, <2>6
<1> QED BY <1>4, <1>5

\* Every step keeps the types.
LEMMA TypeStep == TypeOK /\ [Next]_vars => TypeOK'
<1> SUFFICES ASSUME TypeOK, [Next]_vars PROVE TypeOK' OBVIOUS
<1>0. /\ line \in Seq(Place) /\ \A r \in Place : Append(line, r) \in Seq(Place) /\ Append(line, r) # <<>>
  <2>1. line \in Seq(Place) BY DEF TypeOK, Place
  <2>2. ASSUME NEW r \in Place
        PROVE  Append(line, r) \in Seq(Place) /\ Len(Append(line, r)) # 0
    BY <2>1, AppendPlaces
  <2> QED BY <2>1, <2>2
<1>t. line # <<>> => Tail(line) \in Seq(Place) /\ line[1] \in Place
  BY <1>0, TailPlaces
<1> USE Constants
<1>1. ASSUME NEW c \in Clients, Ask(c) PROVE TypeOK'
  <2>1. PICK level \in Levels : line' = Append(line, Request(asks + 1, level)) /\ word' = level
    BY <1>1 DEF Ask
  <2>2. asks + 1 \in 0 .. MaxAsks /\ Request(asks + 1, level) \in Place
    BY <1>1 DEF Ask, TypeOK, Request, Place
  <2>3. line' \in Seq(Place) /\ line' # <<>> BY <1>0, <2>1, <2>2
  <2>4. waits' \in [Clients -> 0 .. MaxAsks] BY <1>1, <2>2 DEF Ask, TypeOK
  <2>5. asks' = asks + 1 /\ UNCHANGED <<bench, card, comms, last, tested>> BY <1>1 DEF Ask
  <2> QED BY <2>1, <2>2, <2>3, <2>4, <2>5 DEF TypeOK, Place, bench
<1>2. ASSUME NEW c \in Clients, GiveUp(c) PROVE TypeOK'
  BY <1>2 DEF GiveUp, TypeOK, bench, Nothing
<1>3. CASE Commission
  <2>1. Request(Bench, Full) \in Place BY DEF Request, Bench, Full, Place
  <2>2. line' \in Seq(Place) /\ line' # <<>> BY <1>0, <1>3, <2>1 DEF Commission
  <2>3. comms' \in 0 .. MaxCommissions BY <1>3 DEF Commission, TypeOK
  <2>4. UNCHANGED <<bench, card, waits, asks, word, last, tested>> BY <1>3 DEF Commission
  <2> QED BY <2>2, <2>3, <2>4 DEF TypeOK, Place, bench
<1>4. CASE Starts
  <2>1. line # <<>> /\ Holder.n \in 0 .. MaxAsks BY <1>4, <1>t DEF Starts, Holder, Place
  <2>2. last' \in [n : 0 .. MaxAsks, ok : BOOLEAN] /\ tested' \in {"no", "started", "drove", "broken"}
    <3>1. CASE Testing BY <1>4, <3>1 DEF Starts, TypeOK
    <3>2. CASE ~Testing
      <4>1. last' = [n |-> Holder.n, ok |-> FALSE] /\ tested' = "no" BY <1>4, <3>2 DEF Starts
      <4> QED BY <2>1, <4>1
    <3> QED BY <3>1, <3>2
  <2>3. phase' \in {"drafting", "constructing"} BY <1>4 DEF Starts
  <2>4. UNCHANGED <<registered, raised, output, line, card, callers>> BY <1>4 DEF Starts
  <2> QED BY <2>1, <2>2, <2>3, <2>4 DEF TypeOK, callers
<1>5. CASE TestStarts
  BY <1>5 DEF TestStarts, TypeOK, callers
<1>6. CASE CommissionFails
  <2>1. line' \in Seq(Place) BY <1>t, <1>6 DEF CommissionFails, TypeOK
  <2> QED BY <1>6, <2>1 DEF CommissionFails, TypeOK, callers, Place
<1>7. CASE Constructs
  BY <1>7 DEF Constructs, TypeOK, callers
<1>8. CASE ConstructorRaises
  BY <1>8, ReplyType DEF ConstructorRaises, TypeOK
<1>9. CASE Drives
  <2>1. phase = "driving" /\ output' = Holder.level /\ Drove BY <1>9 DEF Drives
  <2>2. output' \in Levels /\ line # <<>> BY <1>t, <2>1 DEF TypeOK, Holder, Place
  <2>3. tested' \in {"no", "started", "drove", "broken"} BY <2>1 DEF Drove, TypeOK
  <2>4. CASE Testing
    BY <1>9, <2>2, <2>3, <2>4 DEF Drives, TypeOK, callers
  <2>5. CASE ~Testing
    BY <1>9, <2>1, <2>2, <2>3, <2>5, ReplyType DEF Drives
  <2> QED BY <2>4, <2>5
<1>10. CASE DriveRaises
  BY <1>10 DEF DriveRaises, Drove, TypeOK, callers
<1>11. CASE Forces
  BY <1>11, ReplyType DEF Forces, TypeOK
<1>12. CASE ForceRaises
  <2>1. phase # "free" /\ output' = Unsure /\ Replies(FALSE) BY <1>12 DEF ForceRaises
  <2>2. tested' \in {"no", "started", "drove", "broken"} BY <1>12 DEF ForceRaises, Broke, TypeOK
  <2> QED BY <2>1, <2>2, ReplyType
<1>13. CASE Hangs
  <2>1. phase # "free" /\ phase' = "hung" /\ output' \in Levels \cup {Unsure}
    BY <1>13 DEF Hangs, InPayload
  <2>2. tested' \in {"no", "started", "drove", "broken"} BY <1>13 DEF Hangs, Broke, TypeOK
  <2>3. UNCHANGED <<registered, raised, line, card, callers, last>> BY <1>13 DEF Hangs
  <2> QED BY <2>1, <2>2, <2>3 DEF TypeOK, callers
<1>14. CASE TimesOut
  BY <1>14, ReplyType DEF TimesOut, TypeOK
<1>15. CASE ResetRaises
  <2>1. line' \in Seq(Place) BY <1>t, <1>15 DEF ResetRaises, TypeOK
  <2>2. waits' \in [Clients -> 0 .. MaxAsks] BY <1>15 DEF ResetRaises, TypeOK, Nothing
  <2> QED BY <1>15, <2>1, <2>2 DEF ResetRaises, TypeOK, Place
<1>16. CASE UNCHANGED vars
  BY <1>16 DEF TypeOK, vars, bench, callers
<1> QED
  BY <1>1, <1>2, <1>3, <1>4, <1>5, <1>6, <1>7, <1>8, <1>9, <1>10, <1>11, <1>12, <1>13, <1>14,
     <1>15, <1>16 DEF Next, Payload

-----------------------------------------------------------------------------
\* A request that joins the queue is newer than all of it, and than the last set.
LEMMA JoinKeepsOrder ==
  ASSUME TypeOK, QueueInOrder, NEW n \in 0 .. MaxAsks, NEW level \in Levels, Joins(n, level),
         \/ n = asks + 1 /\ asks' = asks + 1 /\ word' = level
         \/ n = Bench /\ UNCHANGED <<asks, word>>
  PROVE  QueueInOrder'
<1> DEFINE r == Request(n, level)
<1>1. line \in Seq(Place) /\ asks \in Nat /\ last.n \in Nat /\ n \in Nat
  BY Constants DEF TypeOK, Place
<1>2. r \in Place /\ r.n = n /\ r.level = level BY DEF Request, Place
<1>3. /\ Len(line') = Len(line) + 1 /\ Len(line) \in Nat
      /\ \A i \in 1 .. Len(line) : line'[i] = line[i]
      /\ line'[Len(line) + 1] = r
  BY <1>1, <1>2, AppendPlaces DEF Joins
<1>4. UNCHANGED <<phase, last>> BY DEF Joins
<1>5. \A i \in 1 .. Len(line) : line[i].n \in Nat
  <2>1. \A i \in 1 .. Len(line) : line[i] \in Place BY <1>1
  <2> QED BY <2>1 DEF Place
<1>6. \A i \in 1 .. Len(line') : i \in 1 .. Len(line) \/ i = Len(line) + 1 BY <1>3
<1>7. ASSUME phase # "free" PROVE Len(line) # 0
  <2>1. line # <<>> BY <1>7 DEF TypeOK
  <2>2. Len(line) \in Nat \ {0} BY <1>1, <2>1, TailPlaces
  <2> QED BY <2>2
<1> HIDE DEF r
<1> USE DEF QueueInOrder, Bench
<1>8. \A i, j \in 1 .. Len(line') :
        i < j /\ line'[i].n # Bench /\ line'[j].n # Bench => line'[i].n < line'[j].n
  <2> SUFFICES ASSUME NEW i \in 1 .. Len(line'), NEW j \in 1 .. Len(line'),
                      i < j, line'[i].n # Bench, line'[j].n # Bench
               PROVE  line'[i].n < line'[j].n
    OBVIOUS
  <2>1. i \in 1 .. Len(line) /\ line'[i] = line[i] BY <1>3, <1>6
  <2>2. CASE j \in 1 .. Len(line) BY <1>3, <2>1, <2>2
  <2>3. CASE j = Len(line) + 1
    <3>1. line'[j].n = asks + 1 BY <1>2, <1>3, <2>3
    <3>2. line[i].n <= asks BY <2>1
    <3> QED BY <1>1, <1>5, <2>1, <3>1, <3>2
  <2> QED BY <1>6, <2>2, <2>3
<1>9. \A i \in 1 .. Len(line') :
        line'[i].n # Bench =>
          /\ line'[i].n <= asks'
          /\ line'[i].n = asks' => line'[i].level = word'
          /\ IF i = 1 /\ phase' # "free" THEN line'[i].n = last'.n ELSE last'.n < line'[i].n
  <2> SUFFICES ASSUME NEW i \in 1 .. Len(line'), line'[i].n # Bench
               PROVE  /\ line'[i].n <= asks'
                      /\ line'[i].n = asks' => line'[i].level = word'
                      /\ IF i = 1 /\ phase' # "free" THEN line'[i].n = last'.n
                                                      ELSE last'.n < line'[i].n
    OBVIOUS
  <2>1. CASE i \in 1 .. Len(line)
    <3>1. line'[i] = line[i] /\ line[i].n <= asks BY <1>3, <2>1
    <3>2. line'[i].n <= asks' /\ (line'[i].n = asks' => line'[i].level = word')
      BY <1>1, <1>5, <2>1, <3>1
    <3> QED BY <1>4, <2>1, <3>1, <3>2
  <2>2. CASE i = Len(line) + 1
    <3>1. line'[i] = r /\ n = asks + 1 BY <1>2, <1>3, <2>2
    <3>2. ~(i = 1 /\ phase' # "free") BY <1>3, <1>4, <1>7, <2>2
    <3> QED BY <1>1, <1>2, <1>4, <3>1, <3>2
  <2> QED BY <1>6, <2>1, <2>2
<1>10. last'.n <= asks' BY <1>1, <1>4
<1>11. asks' > 0 => last'.n = asks' \/ \E i \in 1 .. Len(line') : line'[i].n = asks'
  <2>1. CASE n = asks + 1 /\ asks' = asks + 1
    <3>1. Len(line) + 1 \in 1 .. Len(line') BY <1>3
    <3> QED BY <1>2, <1>3, <2>1, <3>1
  <2>2. CASE UNCHANGED asks
    <3>1. CASE asks > 0 /\ last.n # asks
      <4>1. PICK i \in 1 .. Len(line) : line[i].n = asks BY <3>1
      <4>2. i \in 1 .. Len(line') /\ line'[i] = line[i] BY <1>3
      <4> QED BY <2>2, <4>1, <4>2
    <3> QED BY <1>4, <2>2, <3>1
  <2> QED BY <2>1, <2>2
<1> QED BY <1>8, <1>9, <1>10, <1>11

\* The head leaves at the end of its turn; who is left is newer than the last set.
LEMMA LeaveKeepsOrder ==
  ASSUME TypeOK, QueueInOrder, Leaves
  PROVE  QueueInOrder'
<1>1. line \in Seq(Place) /\ line # <<>> /\ asks \in Nat /\ last.n \in Nat
  BY Constants DEF TypeOK, Place, Leaves
<1>2. /\ Len(line') = Len(line) - 1 /\ Len(line) \in Nat \ {0}
      /\ \A i \in 1 .. Len(line') : line'[i] = line[i + 1] /\ i + 1 \in 1 .. Len(line)
  BY <1>1, TailPlaces DEF Leaves
<1>3. /\ phase # "free" /\ phase' = "free" /\ last'.n = last.n /\ asks' = asks /\ word' = word
  BY DEF Leaves
<1> USE DEF QueueInOrder, Bench
<1>4. \A i, j \in 1 .. Len(line') :
        i < j /\ line'[i].n # Bench /\ line'[j].n # Bench => line'[i].n < line'[j].n
  <2> SUFFICES ASSUME NEW i \in 1 .. Len(line'), NEW j \in 1 .. Len(line'),
                      i < j, line'[i].n # Bench, line'[j].n # Bench
               PROVE  line'[i].n < line'[j].n
    OBVIOUS
  <2>1. i + 1 < j + 1 OBVIOUS
  <2> QED BY <1>2, <2>1
<1>5. \A i \in 1 .. Len(line') :
        line'[i].n # Bench =>
          /\ line'[i].n <= asks'
          /\ line'[i].n = asks' => line'[i].level = word'
          /\ IF i = 1 /\ phase' # "free" THEN line'[i].n = last'.n ELSE last'.n < line'[i].n
  <2> SUFFICES ASSUME NEW i \in 1 .. Len(line'), line'[i].n # Bench
               PROVE  /\ line'[i].n <= asks'
                      /\ line'[i].n = asks' => line'[i].level = word'
                      /\ last'.n < line'[i].n
    BY <1>3
  <2>1. line'[i] = line[i + 1] /\ i + 1 \in 1 .. Len(line) /\ i + 1 # 1 BY <1>2
  <2> QED BY <1>3, <2>1
<1>6. last'.n <= asks' BY <1>3
<1>7. asks' > 0 => last'.n = asks' \/ \E i \in 1 .. Len(line') : line'[i].n = asks'
  <2> SUFFICES ASSUME asks > 0, last.n # asks
               PROVE  \E i \in 1 .. Len(line') : line'[i].n = asks
    BY <1>3
  <2>1. PICK i \in 1 .. Len(line) : line[i].n = asks OBVIOUS
  <2>2. i # 1 BY <1>1, <1>3, <2>1
  <2>3. i - 1 \in 1 .. Len(line') BY <1>2, <2>2
  <2>4. line'[i - 1] = line[i] BY <1>2, <2>3
  <2> QED BY <2>1, <2>3, <2>4
<1> QED BY <1>4, <1>5, <1>6, <1>7

LEMMA StayKeepsOrder ==
  ASSUME QueueInOrder, Stays
  PROVE  QueueInOrder'
BY DEF QueueInOrder, Stays

\* The set at the head has its turn: it is the oldest of those that wait.
LEMMA StartKeepsOrder ==
  ASSUME TypeOK, QueueInOrder, Starts
  PROVE  QueueInOrder'
<1>1. line \in Seq(Place) /\ line # <<>> /\ asks \in Nat /\ last.n \in Nat
  BY Constants DEF TypeOK, Place, Starts
<1>2. Len(line) \in Nat \ {0} /\ \A i \in 1 .. Len(line) : line[i].n \in Nat
  <2>1. Len(line) \in Nat \ {0} BY <1>1, TailPlaces
  <2>2. \A i \in 1 .. Len(line) : line[i] \in Place BY <1>1
  <2> QED BY <2>1, <2>2 DEF Place
<1>3. phase = "free" /\ phase' # "free" /\ UNCHANGED <<line, asks, word>>
  BY DEF Starts, callers
<1> USE DEF QueueInOrder, Bench
<1>4. CASE Testing
  <2>1. last' = last /\ line[1].n = 0 BY <1>4 DEF Starts, Testing, Holder
  <2> QED BY <1>1, <1>2, <1>3, <2>1
<1>5. CASE ~Testing
  <2>1. last'.n = line[1].n /\ line[1].n # 0 BY <1>5 DEF Starts, Testing, Holder
  <2>2. 1 \in 1 .. Len(line) /\ \A i \in 1 .. Len(line) : i # 1 => 1 < i BY <1>2
  <2>3. last.n < line[1].n /\ line[1].n <= asks BY <1>3, <2>1, <2>2
  <2>4. \A i \in 1 .. Len(line) : line[i].n # Bench /\ i # 1 => line[1].n < line[i].n
    BY <2>1, <2>2
  <2>5. asks > 0 => \E i \in 1 .. Len(line) : line[i].n = asks BY <1>1, <1>2, <2>2, <2>3
  <2>6. \A i \in 1 .. Len(line) :
          line[i].n # Bench =>
            IF i = 1 /\ phase' # "free" THEN line[i].n = last'.n ELSE last'.n < line[i].n
    BY <1>3, <2>1, <2>4
  <2>7. last'.n <= asks BY <2>1, <2>3
  <2> QED BY <1>3, <2>5, <2>6, <2>7
<1> QED BY <1>4, <1>5

-----------------------------------------------------------------------------
\* Each action is one of the four: a request joins, a set starts, the holder leaves, or
\* the queue stays as it is while the holder works.
LEMMA OrderStep == TypeOK /\ TurnKept /\ QueueInOrder /\ [Next]_vars => QueueInOrder'
<1> SUFFICES ASSUME TypeOK, TurnKept, QueueInOrder, [Next]_vars PROVE QueueInOrder' OBVIOUS
<1> USE Constants
<1>1. ASSUME NEW c \in Clients, Ask(c) PROVE QueueInOrder'
  <2>1. PICK level \in Levels : line' = Append(line, Request(asks + 1, level)) /\ word' = level
    BY <1>1 DEF Ask
  <2>2. asks + 1 \in 0 .. MaxAsks /\ asks' = asks + 1 /\ UNCHANGED <<phase, last>>
    BY <1>1 DEF Ask, TypeOK, bench
  <2>3. Joins(asks + 1, level) BY <2>1, <2>2 DEF Joins
  <2> QED BY <2>1, <2>2, <2>3, JoinKeepsOrder
<1>2. CASE Commission
  <2>1. Bench \in 0 .. MaxAsks /\ Full \in Levels BY DEF Bench, Full
  <2>2. Joins(Bench, Full) BY <1>2 DEF Commission, Joins, bench
  <2>3. UNCHANGED <<asks, word>> BY <1>2 DEF Commission
  <2> QED BY <2>1, <2>2, <2>3, JoinKeepsOrder
<1>3. CASE Starts BY <1>3, StartKeepsOrder
<1>4. ASSUME NEW ok \in BOOLEAN, phase # "free", Replies(ok) PROVE Leaves \/ Stays
  <2>1. CASE Testing BY <1>4, <2>1 DEF Replies, Judges, Leaves, Stays, callers
  <2>2. CASE ~Testing
    <3>1. last'.n = last.n BY <1>4, <2>2 DEF Replies, Reports, TypeOK
    <3> QED BY <1>4, <2>2, <3>1 DEF Replies, Reports, Leaves
  <2> QED BY <2>1, <2>2
<1>5. CASE TestStarts \/ Constructs \/ DriveRaises \/ Hangs
  <2>1. Stays
    BY <1>5 DEF TestStarts, Constructs, DriveRaises, Hangs, InPayload, Stays, callers
  <2> QED BY <2>1, StayKeepsOrder
<1>6. CASE CommissionFails \/ ResetRaises
  <2>1. Leaves BY <1>6 DEF CommissionFails, ResetRaises, Leaves, callers
  <2> QED BY <2>1, LeaveKeepsOrder
<1>7. CASE ConstructorRaises \/ Forces \/ ForceRaises \/ TimesOut
  <2>1. PICK ok \in BOOLEAN : phase # "free" /\ Replies(ok)
    BY <1>7 DEF ConstructorRaises, Forces, ForceRaises, TimesOut, TypeOK
  <2>2. Leaves \/ Stays BY <1>4, <2>1
  <2> QED BY <2>2, LeaveKeepsOrder, StayKeepsOrder
<1>8. CASE Drives
  <2>1. CASE Testing
    <3>1. Stays BY <1>8, <2>1 DEF Drives, Stays, callers
    <3> QED BY <3>1, StayKeepsOrder
  <2>2. CASE ~Testing
    <3>1. Leaves \/ Stays BY <1>4, <1>8, <2>2 DEF Drives
    <3> QED BY <3>1, LeaveKeepsOrder, StayKeepsOrder
  <2> QED BY <2>1, <2>2
<1>9. CASE UNCHANGED <<line, phase, asks, word, last>> BY <1>9 DEF QueueInOrder
<1>10. ASSUME NEW c \in Clients, GiveUp(c) PROVE QueueInOrder'
  BY <1>9, <1>10 DEF GiveUp, bench
<1> QED
  BY <1>1, <1>2, <1>3, <1>5, <1>6, <1>7, <1>8, <1>9, <1>10 DEF Next, Payload, vars, bench, callers

\* The head is the same as long as the queue only grows behind it.
LEMMA HeadStays ==
  ASSUME TypeOK, line # <<>>, NEW r \in Place, line' = Append(line, r)
  PROVE  Holder' = Holder
<1>1. line \in Seq(Place) BY DEF TypeOK, Place
<1>2. Len(line) \in Nat \ {0} BY <1>1, TailPlaces
<1> QED BY <1>1, <1>2, AppendPlaces DEF Holder

\* A step that leaves the phase and who holds the lock alone keeps what the turn says.
LEMMA TurnStep == TypeOK /\ TurnKept /\ [Next]_vars => TurnKept'
<1> SUFFICES ASSUME TypeOK, TurnKept, [Next]_vars PROVE TurnKept' OBVIOUS
<1> USE Constants DEF TurnKept
<1>1. ASSUME NEW r \in Place, line' = Append(line, r), UNCHANGED <<phase, last, tested, raised>>
      PROVE  TurnKept'
  <2>1. CASE phase = "free" BY <1>1, <2>1
  <2>2. CASE phase # "free"
    <3>1. line # <<>> BY <2>2 DEF TypeOK
    <3>2. Holder' = Holder BY <1>1, <3>1, HeadStays
    <3> QED BY <1>1, <3>2 DEF Testing
  <2> QED BY <2>1, <2>2
<1>2. ASSUME NEW c \in Clients, Ask(c) PROVE TurnKept'
  <2>1. PICK level \in Levels : line' = Append(line, Request(asks + 1, level)) BY <1>2 DEF Ask
  <2>2. Request(asks + 1, level) \in Place BY <1>2 DEF Ask, TypeOK, Request, Place
  <2> QED BY <1>1, <1>2, <2>1, <2>2 DEF Ask, bench
<1>3. CASE Commission
  <2>1. Request(Bench, Full) \in Place BY DEF Request, Bench, Full, Place
  <2> QED BY <1>1, <1>3, <2>1 DEF Commission, bench
<1>4. CASE Starts
  <2>1. Testing' = Testing BY <1>4 DEF Starts, Testing, Holder
  <2>2. CASE Testing BY <1>4, <2>1, <2>2 DEF Starts
  <2>3. CASE ~Testing
    <3>1. last' = [n |-> Holder.n, ok |-> FALSE] /\ tested' = "no" /\ phase' = "constructing"
      BY <1>4, <2>3 DEF Starts
    <3> QED BY <2>1, <2>3, <3>1
  <2> QED BY <2>2, <2>3
<1>5. ASSUME NEW ok \in BOOLEAN, phase # "free", Replies(ok) PROVE TurnKept'
  <2>1. CASE Testing
    <3>1. CASE ok BY <1>5, <2>1, <3>1 DEF Replies, Judges
    <3>2. CASE ~ok
      <4>1. phase' = "drafting" /\ line' = line BY <1>5, <2>1, <3>2 DEF Replies, Judges
      <4> QED BY <2>1, <4>1 DEF Testing, Holder
    <3> QED BY <3>1, <3>2
  <2>2. CASE ~Testing BY <1>5, <2>2 DEF Replies, Reports
  <2> QED BY <2>1, <2>2
<1>6. CASE TestStarts
  <2>1. Testing /\ Testing' BY <1>6 DEF TestStarts, Testing, Holder
  <2>2. phase' = "constructing" /\ tested' = "started" BY <1>6 DEF TestStarts
  <2> QED BY <2>1, <2>2
<1>7. CASE CommissionFails \/ ResetRaises BY <1>7 DEF CommissionFails, ResetRaises
<1>8. CASE Constructs
  BY <1>8 DEF Constructs, Testing, Holder
<1>9. CASE DriveRaises
  <2>1. Testing' = Testing BY <1>9 DEF DriveRaises, Testing, Holder
  <2> QED BY <1>9, <2>1 DEF DriveRaises, Drove
<1>10. CASE Hangs
  <2>1. Testing' = Testing /\ phase' = "hung" BY <1>10 DEF Hangs, Testing, Holder
  <2>2. CASE phase = "constructing"
    <3>1. UNCHANGED <<tested, last>> BY <1>10, <2>2 DEF Hangs
    <3> QED BY <2>1, <2>2, <3>1
  <2>3. CASE phase # "constructing"
    <3>1. phase \notin {"free", "drafting"} /\ last' = last BY <1>10 DEF Hangs, InPayload
    <3>2. tested' = IF Testing THEN "broken" ELSE tested BY <1>10, <2>3 DEF Hangs, Broke
    <3> QED BY <2>1, <3>1, <3>2
  <2> QED BY <2>2, <2>3
<1>11. CASE ConstructorRaises \/ Forces \/ ForceRaises \/ TimesOut
  <2>1. PICK ok \in BOOLEAN : phase # "free" /\ Replies(ok)
    BY <1>11 DEF ConstructorRaises, Forces, ForceRaises, TimesOut, TypeOK
  <2> QED BY <1>5, <2>1
<1>12. CASE Drives
  <2>1. CASE Testing
    <3>1. Testing' = Testing BY <1>12, <2>1 DEF Drives, Testing, Holder
    <3>2. phase' = "forcing" /\ tested' = "drove" BY <1>12, <2>1 DEF Drives, Drove
    <3> QED BY <2>1, <3>1, <3>2
  <2>2. CASE ~Testing BY <1>5, <1>12, <2>2 DEF Drives
  <2> QED BY <2>1, <2>2
<1>13. CASE UNCHANGED <<line, phase, raised, last, tested>>
  BY <1>13 DEF Testing, Holder
<1>14. ASSUME NEW c \in Clients, GiveUp(c) PROVE TurnKept'
  BY <1>13, <1>14 DEF GiveUp, bench
<1> QED
  BY <1>2, <1>3, <1>4, <1>6, <1>7, <1>8, <1>9, <1>10, <1>11, <1>12, <1>13, <1>14
  DEF Next, Payload, vars, bench

-----------------------------------------------------------------------------
\* A reply of a payload that is known to have failed, or that was a test's.
LEMMA WordAfterReply ==
  ASSUME TypeOK, WordKept, NEW ok \in BOOLEAN, Replies(ok),
         IF Testing THEN tested' # "no" ELSE ~ok
  PROVE  WordKept'
<1>1. CASE Testing
  <2>1. tested' # "no" BY <1>1
  <2>2. UNCHANGED <<card, word, asks, last>> BY <1>1 DEF Replies, Judges, callers
  <2> QED BY <2>1, <2>2 DEF WordKept
<1>2. CASE ~Testing
  <2>1. ~last'.ok BY <1>2 DEF Replies, Reports, TypeOK
  <2> QED BY <2>1 DEF WordKept
<1> QED BY <1>1, <1>2

\* What the last reported set told the driver stays told: by the queue, the set that
\* reports and is the newest carries the level that was asked for last.
LEMMA WordStep == TypeOK /\ QueueInOrder /\ TurnKept /\ WordKept /\ [Next]_vars => WordKept'
<1> SUFFICES ASSUME TypeOK, QueueInOrder, TurnKept, WordKept, [Next]_vars PROVE WordKept' OBVIOUS
<1> USE Constants
<1>1. ASSUME NEW c \in Clients, Ask(c) PROVE WordKept'
  <2>1. last' = last /\ asks' = asks + 1 /\ last.n <= asks BY <1>1 DEF Ask, QueueInOrder
  <2>2. last'.n # asks' BY <2>1 DEF TypeOK
  <2> QED BY <2>2 DEF WordKept
<1>2. CASE Starts
  <2>1. CASE Testing BY <1>2, <2>1 DEF Starts, WordKept, callers
  <2>2. CASE ~Testing
    <3>1. ~last'.ok BY <1>2, <2>2 DEF Starts
    <3> QED BY <3>1 DEF WordKept
  <2> QED BY <2>1, <2>2
<1>3. CASE TestStarts
  <2>1. tested' # "no" /\ UNCHANGED <<card, word, asks, last>> BY <1>3 DEF TestStarts, callers
  <2> QED BY <2>1 DEF WordKept
<1>4. CASE Constructs
  <2>1. UNCHANGED <<card, word, asks, last, tested>> BY <1>4 DEF Constructs, callers
  <2>2. tested # "no" \/ ~last.ok BY <1>4 DEF Constructs, TurnKept
  <2> QED BY <2>1, <2>2 DEF WordKept
<1>11. CASE Hangs
  <2>1. UNCHANGED <<card, word, asks, last>> BY <1>11 DEF Hangs, callers
  <2>2. tested # "no" \/ ~last.ok BY <1>11 DEF Hangs, InPayload, TurnKept
  <2>3. tested' # "no" \/ tested' = tested BY <1>11 DEF Hangs, Broke
  <2> QED BY <2>1, <2>2, <2>3 DEF WordKept
<1>12. CASE ConstructorRaises \/ TimesOut
  <2>1. phase \in {"constructing", "hung"} /\ UNCHANGED tested /\ Replies(FALSE)
    BY <1>12 DEF ConstructorRaises, TimesOut
  <2>2. Testing => tested # "no" BY <2>1 DEF TurnKept
  <2> QED BY <2>1, <2>2, WordAfterReply
<1>13. CASE ForceRaises
  <2>1. Replies(FALSE) /\ (Testing => tested' = "broken") BY <1>13 DEF ForceRaises, Broke
  <2> QED BY <2>1, WordAfterReply
<1>5. CASE Forces
  <2>1. phase = "forcing" /\ UNCHANGED tested /\ Replies(~raised) BY <1>5 DEF Forces
  <2>2. IF Testing THEN tested # "no" ELSE raised BY <2>1 DEF TurnKept
  <2>3. (~raised) \in BOOLEAN BY DEF TypeOK
  <2> QED BY <2>1, <2>2, <2>3, WordAfterReply
<1>6. CASE DriveRaises
  <2>1. UNCHANGED <<card, word, asks, last>> BY <1>6 DEF DriveRaises, callers
  <2>2. CASE Testing
    <3>1. tested' = "drove" BY <1>6, <2>2 DEF DriveRaises, Drove
    <3> QED BY <2>1, <3>1 DEF WordKept
  <2>3. CASE ~Testing
    <3>1. ~last.ok BY <1>6, <2>3 DEF DriveRaises, TurnKept
    <3> QED BY <2>1, <3>1 DEF WordKept
  <2> QED BY <2>2, <2>3
<1>7. CASE Drives
  <2>1. CASE Testing
    <3>1. tested' = "drove" /\ UNCHANGED <<card, word, asks, last>>
      BY <1>7, <2>1 DEF Drives, Drove, callers
    <3> QED BY <3>1 DEF WordKept
  <2>2. CASE ~Testing
    <3>1. Reports(TRUE) /\ output' = Holder.level /\ phase = "driving"
      BY <1>7, <2>2 DEF Drives, Replies
    <3>2. card' = Holder.level /\ last'.n = last.n /\ UNCHANGED <<asks, word>>
      BY <3>1 DEF Reports, TypeOK
    <3>3. 1 \in 1 .. Len(line)
      <4>1. line \in Seq(Place) /\ line # <<>> BY <3>1 DEF TypeOK, Place
      <4>2. Len(line) \in Nat \ {0} BY <4>1, TailPlaces
      <4> QED BY <4>2
    <3>4. Holder.n = last.n /\ (Holder.n = asks => Holder.level = word)
      BY <2>2, <3>1, <3>3 DEF QueueInOrder, Testing, Holder
    <3> QED BY <3>1, <3>2, <3>4 DEF WordKept
  <2> QED BY <2>1, <2>2
<1>8. CASE UNCHANGED <<last, asks, card, word, tested, output>> BY <1>8 DEF WordKept
<1>9. ASSUME NEW c \in Clients, GiveUp(c) PROVE WordKept'
  BY <1>8, <1>9 DEF GiveUp, bench
<1>10. CASE Commission \/ CommissionFails \/ ResetRaises
  BY <1>8, <1>10 DEF Commission, CommissionFails, ResetRaises, bench, callers
<1> QED
  BY <1>1, <1>2, <1>3, <1>4, <1>5, <1>6, <1>7, <1>8, <1>9, <1>10, <1>11, <1>12,
     <1>13
  DEF Next, Payload, vars, bench, callers

\* A driver that a test called is off, outside its `finally`, or the test was broken off.
LEMMA OffStep == TypeOK /\ TurnKept /\ OffKept /\ [Next]_vars => OffKept'
<1> SUFFICES ASSUME TypeOK, TurnKept, OffKept, [Next]_vars PROVE OffKept' OBVIOUS
<1>1. ASSUME phase # "forcing", UNCHANGED <<tested, output>> PROVE OffKept' BY <1>1 DEF OffKept
<1>2. ASSUME tested' # "drove" PROVE OffKept' BY <1>2 DEF OffKept
<1>3. ASSUME UNCHANGED <<phase, tested, output>> PROVE OffKept' BY <1>3 DEF OffKept
<1>4. ASSUME NEW c \in Clients, Ask(c) \/ GiveUp(c) PROVE OffKept'
  BY <1>3, <1>4 DEF Ask, GiveUp, bench
<1>5. CASE Commission BY <1>3, <1>5 DEF Commission, bench
<1>6. CASE Starts
  <2>1. CASE Testing BY <1>1, <1>6, <2>1 DEF Starts
  <2>2. CASE ~Testing BY <1>2, <1>6, <2>2 DEF Starts
  <2> QED BY <2>1, <2>2
<1>7. CASE TestStarts BY <1>2, <1>7 DEF TestStarts
<1>8. CASE CommissionFails BY <1>1, <1>8 DEF CommissionFails
<1>9. CASE Constructs \/ ConstructorRaises
  <2>1. phase = "constructing" /\ UNCHANGED tested BY <1>9 DEF Constructs, ConstructorRaises
  <2>2. tested # "drove" BY <2>1 DEF TurnKept
  <2> QED BY <1>2, <2>1, <2>2
<1>10. CASE Drives
  <2>1. CASE Testing BY <1>10, <2>1 DEF Drives, OffKept
  <2>2. CASE ~Testing
    <3>1. phase = "driving" /\ tested' = tested BY <1>10, <2>2 DEF Drives, Drove
    <3>2. tested = "no" BY <2>2, <3>1 DEF TurnKept
    <3> QED BY <1>2, <3>1, <3>2
  <2> QED BY <2>1, <2>2
<1>11. CASE DriveRaises BY <1>11 DEF DriveRaises, OffKept
<1>12. CASE Hangs \/ ForceRaises
  <2>1. phase \in {"constructing", "driving", "forcing"}
    BY <1>12 DEF Hangs, InPayload, ForceRaises
  <2>2. ~Testing \/ phase = "constructing" => tested # "drove" BY <2>1 DEF TurnKept
  <2>3. tested' = tested \/ tested' = "broken" BY <1>12 DEF Hangs, ForceRaises, Broke
  <2>4. tested' = tested => ~Testing \/ phase = "constructing" \/ tested' = "broken"
    BY <1>12 DEF Hangs, ForceRaises, Broke
  <2> QED BY <1>2, <2>2, <2>3, <2>4
<1>13. CASE Forces BY <1>13 DEF Forces, OffKept
<1>14. CASE TimesOut \/ ResetRaises BY <1>1, <1>14 DEF TimesOut, ResetRaises
<1> QED
  BY <1>3, <1>4, <1>5, <1>6, <1>7, <1>8, <1>9, <1>10, <1>11, <1>12, <1>13, <1>14
  DEF Next, Payload, vars, bench

-----------------------------------------------------------------------------
\* The state of the queue, the payload, the card and the clients is well typed, for any
\* clients, levels and bounds.
THEOREM TypeCorrect == Spec => []TypeOK
<1>1. Init => TypeOK BY InitType
<1>2. TypeOK /\ [Next]_vars => TypeOK' BY TypeStep
<1> QED BY <1>1, <1>2, PTL DEF Spec

\* The inductive invariant.
THEOREM ActuatorCorrect == Spec => []ActuatorInv
<1>1. Init => ActuatorInv
  <2> SUFFICES ASSUME Init PROVE ActuatorInv OBVIOUS
  <2>1. line = <<>> /\ Len(line) = 0 /\ asks = 0 /\ last = [n |-> 0, ok |-> FALSE]
    BY EmptySeq DEF Init
  <2>2. QueueInOrder BY <2>1 DEF QueueInOrder
  <2>3. phase = "free" /\ tested = "no" BY DEF Init
  <2>4. TurnKept /\ OffKept BY <2>3 DEF TurnKept, OffKept
  <2>5. WordKept BY <2>1 DEF WordKept
  <2> QED BY <2>2, <2>4, <2>5 DEF ActuatorInv
<1>2. TypeOK /\ ActuatorInv /\ [Next]_vars => ActuatorInv'
  BY OrderStep, TurnStep, WordStep, OffStep DEF ActuatorInv
<1> QED BY <1>1, <1>2, TypeCorrect, PTL DEF Spec

\* With nothing under way, the set asked for last is the one that had its turn last, and
\* if it was reported ok its level is the one set and shown (perform_set and the lock).
THEOREM LastWord == Spec => []LastWordWins
<1>1. TypeOK /\ ActuatorInv => LastWordWins
  <2> SUFFICES ASSUME TypeOK, ActuatorInv, line = <<>>, asks > 0
               PROVE  /\ last.n = asks
                      /\ last.ok => card = word /\ (tested = "no" => output = word)
    BY DEF LastWordWins
  <2>1. Len(line) = 0 BY EmptySeq
  <2>2. last.n = asks BY <2>1 DEF ActuatorInv, QueueInOrder
  <2> QED BY <2>2 DEF ActuatorInv, WordKept
<1> QED BY <1>1, TypeCorrect, ActuatorCorrect, PTL

\* A test that called set(), was not broken off and whose set(0) returned leaves the actuator
\* off until a set has its turn, also after a set(1) that raised and after tests that were
\* broken off (build_output_payload).
THEOREM LeftOff == Spec => []TestLeavesOff
<1>1. ActuatorInv => TestLeavesOff BY DEF ActuatorInv, OffKept, TestLeavesOff
<1> QED BY <1>1, ActuatorCorrect, PTL
=============================================================================
