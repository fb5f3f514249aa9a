------------------------ MODULE DriverRegistryProofs ------------------------
(***************************************************************************)
(* A call is at most one swap behind, the poller never is, and the history *)
(* never mixes more than two drivers: for any set of callers, any number   *)
(* of versions, any length of the queues and any capacity of the series.   *)
(* The staleness bound is the order of the lock's queue: a call that one   *)
(* commission has overtaken in time has no other in front of it.  The      *)
(* history's bound is that of the calls, carried through the bus.          *)
(***************************************************************************)
EXTENDS DriverRegistry, SequenceTheorems, TLAPS

Versions == 0 .. MaxVersions
States == {"idle", "waiting", "onWire", "body", "leaving", "off"}
Events == [kind : {"sensor.reading", "driver.registered", "driver.updated"}, version : 1 .. MaxVersions]

\* The users are told apart.
LEMMA Names ==
  /\ Commission \in Users /\ Poller \in Users /\ Commission # Poller
  /\ Nobody \notin Users
  /\ \A t \in Tools : t \in Users /\ t \in Readers /\ t # Commission /\ t # Poller
  /\ \A r \in Readers : r \in Users /\ r # Commission /\ (r \in Tools \/ r = Poller)
  /\ \A u \in Users : u \in Readers \/ u = Commission
  /\ MaxVersions \in Nat /\ Capacity \in Nat /\ Capacity > 0
BY UsersAssumption, CapacityAssumption DEF Users, Readers

-----------------------------------------------------------------------------
\* The places of a queue without its head, with one more element, and without any one.
LEMMA TailPlaces ==
  ASSUME NEW S, NEW q \in Seq(S), q # <<>>
  PROVE  /\ Tail(q) \in Seq(S) /\ Len(Tail(q)) = Len(q) - 1
         /\ Len(q) \in Nat /\ Len(q) > 0
         /\ \A i \in 1 .. Len(Tail(q)) : Tail(q)[i] = q[i + 1] /\ i + 1 \in 1 .. Len(q)
         /\ Head(q) = q[1] /\ q[1] \in S
OBVIOUS

LEMMA AppendPlaces ==
  ASSUME NEW S, NEW q \in Seq(S), NEW e \in S
  PROVE  /\ Append(q, e) \in Seq(S) /\ Len(Append(q, e)) = Len(q) + 1
         /\ Len(q) \in Nat
         /\ \A i \in 1 .. Len(q) : Append(q, e)[i] = q[i]
         /\ Append(q, e)[Len(q) + 1] = e
OBVIOUS

LEMMA RemovePlaces ==
  ASSUME NEW S, NEW q \in Seq(S), NEW k \in 1 .. Len(q)
  PROVE  /\ RemoveAt(q, k) \in Seq(S) /\ Len(RemoveAt(q, k)) = Len(q) - 1 /\ Len(q) \in Nat
         /\ \A i \in 1 .. Len(q) - 1 : RemoveAt(q, k)[i] = IF i < k THEN q[i] ELSE q[i + 1]
<1>0. Len(q) \in Nat OBVIOUS
<1> DEFINE left == SubSeq(q, 1, k - 1)
           right == SubSeq(q, k + 1, Len(q))
<1>1. /\ left \in Seq(S) /\ Len(left) = k - 1
      /\ \A i \in 1 .. k - 1 : left[i] = q[i]
  BY <1>0
<1>2. /\ right \in Seq(S) /\ Len(right) = Len(q) - k
      /\ \A i \in 1 .. Len(q) - k : right[i] = q[k + i]
  BY <1>0
<1>3. RemoveAt(q, k) = left \o right BY DEF RemoveAt
<1> HIDE DEF left, right
<1>4. /\ left \o right \in Seq(S) /\ Len(left \o right) = Len(left) + Len(right)
      /\ \A i \in 1 .. Len(left) + Len(right) :
           (left \o right)[i] = IF i <= Len(left) THEN left[i] ELSE right[i - Len(left)]
  <2>1. left \in Seq(S) /\ right \in Seq(S) BY <1>1, <1>2
  <2> QED BY <2>1, ConcatProperties
<1>5. Len(left) = k - 1 /\ Len(left) + Len(right) = Len(q) - 1 BY <1>0, <1>1, <1>2
<1>6. ASSUME NEW i \in 1 .. Len(q) - 1
      PROVE  (left \o right)[i] = IF i < k THEN q[i] ELSE q[i + 1]
  <2>1. CASE i < k BY <1>0, <1>1, <1>4, <1>5, <2>1
  <2>2. CASE ~(i < k)
    <3>1. (left \o right)[i] = right[i - (k - 1)] BY <1>0, <1>4, <1>5, <2>2
    <3>2. i - (k - 1) \in 1 .. Len(q) - k /\ k + (i - (k - 1)) = i + 1 BY <1>0, <2>2
    <3> QED BY <1>2, <2>2, <3>1, <3>2
  <2> QED BY <2>1, <2>2
<1> QED BY <1>0, <1>3, <1>4, <1>5, <1>6

-----------------------------------------------------------------------------
\* Types.

\* A payload is written as the board is asked for.
LEMMA AskType ==
  ASSUME TypeOK, NEW r \in Readers, AskForBoard(r), payload' \in [Readers -> Versions]
  PROVE  TypeOK'
<1> USE Names
<1>1. pc' \in [Users -> States] /\ holder' \in Users \cup {Nobody} /\ waiters' \in Seq(Users)
  <2>1. CASE Free BY <2>1 DEF AskForBoard, TypeOK, States
  <2>2. CASE ~Free
    <3>1. Append(waiters, r) \in Seq(Users) BY AppendPlaces DEF TypeOK
    <3> QED BY <2>2, <3>1 DEF AskForBoard, Wait, TypeOK, States
  <2> QED BY <2>1, <2>2
<1>2. UNCHANGED <<version, armed, queue, series>> BY DEF AskForBoard
<1> QED BY <1>1, <1>2 DEF TypeOK, States, Versions

LEMMA TakeOverType ==
  ASSUME TypeOK, NEW q \in Seq(Users), TakeOver(q), UNCHANGED <<version, armed, payload, queue, series>>
  PROVE  TypeOK'
<1> USE Names
<1>1. pc' \in [Users -> States] /\ holder' \in Users BY DEF TakeOver, TypeOK, States
<1>2. waiters' \in Seq(Users)
  <2>1. CASE \E i \in DOMAIN q : q[i] = Poller
    <3>1. PICK i \in 1 .. Len(q) : waiters' = RemoveAt(q, i) BY <2>1 DEF TakeOver
    <3> QED BY <3>1, RemovePlaces
  <2>2. CASE ~\E i \in DOMAIN q : q[i] = Poller BY <2>2 DEF TakeOver
  <2> QED BY <2>1, <2>2
<1> QED BY <1>1, <1>2 DEF TypeOK, States

LEMMA PublishType ==
  ASSUME TypeOK, NEW e \in Events, Publish(e)
  PROVE  queue' \in Seq(Events)
BY AppendPlaces DEF TypeOK, Publish, Events

LEMMA InitType == Init => TypeOK
<1> SUFFICES ASSUME Init PROVE TypeOK OBVIOUS
<1>1. waiters \in Seq(Users) /\ series \in Seq(1 .. MaxVersions) /\ Len(series) = 0
  BY DEF Init
<1>2. queue \in Seq(Events) BY DEF Init
<1> QED BY <1>1, <1>2, Names DEF Init, TypeOK, Events

\* Every step keeps the types; that a reading has a version is CallsKept's.
LEMMA TypeStep == TypeOK /\ LockKept /\ CallsKept /\ [Next]_vars => TypeOK'
<1> SUFFICES ASSUME TypeOK, LockKept, CallsKept, [Next]_vars PROVE TypeOK' OBVIOUS
<1> USE Names
<1>1. ASSUME NEW t \in Tools, ArmTool(t) PROVE TypeOK' BY <1>1 DEF ArmTool, TypeOK
<1>2. ASSUME NEW t \in Tools, Call(t) PROVE TypeOK'
  BY <1>2, AskType DEF Call, TypeOK, Versions
<1>3. CASE Poll BY <1>3, AskType DEF Poll, TypeOK, Versions
<1>4. CASE Recommission
  <2>1. CASE Free
    <3>1. TakeOver(waiters) /\ UNCHANGED <<version, armed, payload, queue, series>>
      BY <1>4, <2>1 DEF Recommission
    <3>2. waiters \in Seq(Users) BY DEF TypeOK
    <3> QED BY <3>1, <3>2, TakeOverType
  <2>2. CASE ~Free
    <3>1. Append(waiters, Commission) \in Seq(Users) BY AppendPlaces DEF TypeOK
    <3> QED BY <1>4, <2>2, <3>1 DEF Recommission, Wait, TypeOK
  <2> QED BY <2>1, <2>2
<1>5. CASE Grant
  <2>1. Tail(waiters) \in Seq(Users) /\ Head(waiters) \in Users
    BY <1>5, TailPlaces DEF Grant, TypeOK
  <2>2. CASE Head(waiters) = Commission
    <3>1. TakeOver(Tail(waiters)) /\ UNCHANGED <<version, armed, payload, queue, series>>
      BY <1>5, <2>2 DEF Grant
    <3> QED BY <2>1, <3>1, TakeOverType
  <2>3. CASE Head(waiters) # Commission BY <1>5, <2>1, <2>3 DEF Grant, TypeOK
  <2> QED BY <2>2, <2>3
<1>6. CASE Admit
  <2>1. version' \in 1 .. MaxVersions BY <1>6 DEF Admit, TypeOK
  <2>2. Swap(version') \in Events BY <2>1 DEF Swap, Events
  <2>3. queue' \in Seq(Events) BY <1>6, <2>2, PublishType DEF Admit
  <2> QED BY <1>6, <2>1, <2>3 DEF Admit, TypeOK, Events
<1>7. CASE Leave BY <1>7 DEF Leave, TypeOK
<1>8. CASE Drain
  <2>0. queue \in Seq(Events) /\ queue # <<>> BY <1>8 DEF Drain, TypeOK, Events
  <2>1. /\ Tail(queue) \in Seq(Events) /\ Head(queue).version \in 1 .. MaxVersions
    <3>1. Tail(queue) \in Seq(Events) /\ Head(queue) \in Events BY <2>0, TailPlaces
    <3> QED BY <3>1 DEF Events
  <2> DEFINE longer == Append(series, Head(queue).version)
  <2>2. longer \in Seq(1 .. MaxVersions) /\ Len(longer) = Len(series) + 1 /\ Len(series) \in Nat
    BY <2>1, AppendPlaces DEF TypeOK
  <2>3. longer # <<>> => Tail(longer) \in Seq(1 .. MaxVersions) /\ Len(Tail(longer)) = Len(series)
    BY <2>2, TailPlaces
  <2>4. series' \in {series, IF Len(longer) > Capacity THEN Tail(longer) ELSE longer, <<>>}
    BY <1>8 DEF Drain
  <2>5. longer # <<>> BY <2>2
  <2> HIDE DEF longer
  <2>6. series' \in Seq(1 .. MaxVersions) /\ Len(series') <= Capacity
    <3>1. CASE series' = series BY <3>1 DEF TypeOK
    <3>2. CASE series' = <<>> BY <3>2
    <3>3. CASE series' = IF Len(longer) > Capacity THEN Tail(longer) ELSE longer
      <4>1. Len(series) <= Capacity BY DEF TypeOK
      <4>2. CASE Len(longer) > Capacity BY <2>2, <2>3, <2>5, <3>3, <4>1, <4>2
      <4>3. CASE ~(Len(longer) > Capacity) BY <2>2, <3>3, <4>3
      <4> QED BY <4>2, <4>3
    <3> QED BY <2>4, <3>1, <3>2, <3>3
  <2> QED BY <1>8, <2>1, <2>6 DEF Drain, TypeOK, Events
<1>9. ASSUME NEW r \in Readers, ReadEnds(r) PROVE TypeOK'
  <2>1. payload[r] \in 1 .. MaxVersions
    BY <1>9 DEF ReadEnds, TypeOK, CallsKept, InCall
  <2>2. Reading(payload[r]) \in Events BY <2>1 DEF Reading, Events
  <2>3. queue' \in Seq(Events) BY <1>9, <2>2, PublishType DEF ReadEnds, TypeOK, Events
  <2> QED BY <1>9, <2>3 DEF ReadEnds, TypeOK, Events
<1>10. CASE UNCHANGED vars BY <1>10 DEF vars, TypeOK
<1> QED
  BY <1>1, <1>2, <1>3, <1>4, <1>5, <1>6, <1>7, <1>8, <1>9, <1>10 DEF Next

-----------------------------------------------------------------------------
\* The lock and its queue.

LEMMA InitLock == Init => LockKept
BY Names DEF Init, LockKept

\* A user that idled joins the queue.
LEMMA WaitKeepsLock ==
  ASSUME TypeOK, LockKept, NEW u \in Users, pc[u] = "idle", Wait(u), UNCHANGED holder
  PROVE  LockKept'
<1> USE Names
<1>1. /\ waiters' \in Seq(Users) /\ Len(waiters') = Len(waiters) + 1 /\ Len(waiters) \in Nat
      /\ \A i \in 1 .. Len(waiters) : waiters'[i] = waiters[i]
      /\ waiters'[Len(waiters) + 1] = u
  BY AppendPlaces DEF Wait, TypeOK
<1>2. pc' = [pc EXCEPT ![u] = "waiting"] /\ pc \in [Users -> States]
  BY DEF Wait, TypeOK, States
<1>3. \A i \in 1 .. Len(waiters) : waiters[i] # u BY DEF LockKept
<1>4. \A i, j \in 1 .. Len(waiters') : waiters'[i] = waiters'[j] => i = j
  <2> SUFFICES ASSUME NEW i \in 1 .. Len(waiters'), NEW j \in 1 .. Len(waiters'),
                      waiters'[i] = waiters'[j]
               PROVE  i = j
    OBVIOUS
  <2>1. CASE i \in 1 .. Len(waiters) /\ j \in 1 .. Len(waiters)
    BY <1>1, <2>1 DEF LockKept
  <2>2. CASE ~(i \in 1 .. Len(waiters) /\ j \in 1 .. Len(waiters))
    BY <1>1, <1>3, <2>2
  <2> QED BY <2>1, <2>2
<1>5. ASSUME NEW v \in Users
      PROVE  pc'[v] = "waiting" <=> \E i \in 1 .. Len(waiters') : waiters'[i] = v
  <2>1. CASE v = u BY <1>1, <1>2, <2>1
  <2>2. CASE v # u
    <3>1. pc'[v] = pc[v] BY <1>2, <2>2
    <3>2. (\E i \in 1 .. Len(waiters') : waiters'[i] = v)
            <=> \E i \in 1 .. Len(waiters) : waiters[i] = v
      BY <1>1, <2>2
    <3> QED BY <3>1, <3>2 DEF LockKept
  <2> QED BY <2>1, <2>2
<1>6. /\ pc'[Commission] \in {"idle", "waiting", "body", "leaving"}
      /\ pc'[Poller] \in {"idle", "waiting", "onWire", "off"}
      /\ \A t \in Tools : pc'[t] \in {"idle", "waiting", "onWire"}
      /\ pc'[Poller] = "off" <=> pc'[Commission] \in {"body", "leaving"}
  BY <1>2 DEF LockKept
<1>7. \A v \in Users : holder' = v <=> pc'[v] \in {"onWire", "body", "leaving"}
  BY <1>2 DEF LockKept
<1> QED BY <1>4, <1>5, <1>6, <1>7 DEF LockKept

\* A commission takes the lock, with what is left of the queue in q.
LEMMA TakeOverKeepsLock ==
  ASSUME TypeOK, LockKept, holder = Nobody, pc[Commission] \in {"idle", "waiting"},
         NEW q \in Seq(Users), TakeOver(q),
         \A i, j \in 1 .. Len(q) : q[i] = q[j] => i = j,
         \A i \in 1 .. Len(q) : q[i] # Commission,
         \A r \in Readers : pc[r] = "waiting" <=> \E i \in 1 .. Len(q) : q[i] = r
  PROVE  LockKept'
<1> USE Names
<1>0. Len(q) \in Nat OBVIOUS
<1>1. pc' = [pc EXCEPT ![Commission] = "body", ![Poller] = "off"] /\ pc \in [Users -> States]
      /\ holder' = Commission
  BY DEF TakeOver, TypeOK, States
<1>2. /\ waiters' \in Seq(Users)
      /\ \A i, j \in 1 .. Len(waiters') : waiters'[i] = waiters'[j] => i = j
      /\ \A v \in Users : (\E i \in 1 .. Len(waiters') : waiters'[i] = v)
                            <=> v # Poller /\ \E i \in 1 .. Len(q) : q[i] = v
  <2>1. CASE \E k \in DOMAIN q : q[k] = Poller
    <3>1. PICK k \in 1 .. Len(q) : q[k] = Poller /\ waiters' = RemoveAt(q, k)
      BY <2>1 DEF TakeOver
    <3>2. /\ waiters' \in Seq(Users) /\ Len(waiters') = Len(q) - 1
          /\ \A i \in 1 .. Len(q) - 1 : waiters'[i] = IF i < k THEN q[i] ELSE q[i + 1]
      <4>1. /\ RemoveAt(q, k) \in Seq(Users) /\ Len(RemoveAt(q, k)) = Len(q) - 1
            /\ \A i \in 1 .. Len(q) - 1 : RemoveAt(q, k)[i] = IF i < k THEN q[i] ELSE q[i + 1]
        BY RemovePlaces
      <4> QED BY <3>1, <4>1
    <3>3. ASSUME NEW i \in 1 .. Len(waiters'), NEW j \in 1 .. Len(waiters'),
                 waiters'[i] = waiters'[j]
          PROVE  i = j
      <4> DEFINE place(n) == IF n < k THEN n ELSE n + 1
      <4>1. place(i) \in 1 .. Len(q) /\ waiters'[i] = q[place(i)] BY <1>0, <3>2
      <4>2. place(j) \in 1 .. Len(q) /\ waiters'[j] = q[place(j)] BY <1>0, <3>2
      <4>3. q[place(i)] = q[place(j)] BY <3>3, <4>1, <4>2
      <4>4. place(i) = place(j)
        <5> HIDE DEF place
        <5> QED BY <4>1, <4>2, <4>3
      <4> QED BY <4>4
    <3>4. ASSUME NEW v \in Users, NEW i \in 1 .. Len(waiters'), waiters'[i] = v
          PROVE  v # Poller /\ \E a \in 1 .. Len(q) : q[a] = v
      <4>1. PICK a \in 1 .. Len(q) : waiters'[i] = q[a] /\ a = IF i < k THEN i ELSE i + 1
        BY <1>0, <3>2
      <4>2. a # k BY <4>1
      <4>3. q[a] # q[k] BY <4>2
      <4> QED BY <3>1, <3>4, <4>1, <4>3
    <3>5. ASSUME NEW v \in Users, v # Poller, NEW a \in 1 .. Len(q), q[a] = v
          PROVE  \E i \in 1 .. Len(waiters') : waiters'[i] = v
      <4>1. a # k BY <3>1, <3>5
      <4>2. CASE a < k
        <5>1. a \in 1 .. Len(waiters') BY <1>0, <3>2, <4>2
        <5> QED BY <3>2, <3>5, <4>2, <5>1
      <4>3. CASE a > k
        <5>1. a - 1 \in 1 .. Len(waiters') /\ ~(a - 1 < k) /\ (a - 1) + 1 = a
          BY <1>0, <3>2, <4>3
        <5>2. waiters'[a - 1] = q[a] BY <1>0, <3>2, <5>1
        <5> QED BY <3>5, <5>1, <5>2
      <4> QED BY <4>1, <4>2, <4>3
    <3> QED BY <3>2, <3>3, <3>4, <3>5
  <2>2. CASE ~\E k \in DOMAIN q : q[k] = Poller
    <3>1. waiters' = q BY <2>2 DEF TakeOver
    <3>2. \A i \in 1 .. Len(q) : q[i] # Poller BY <2>2
    <3> QED BY <3>1, <3>2
  <2> QED BY <2>1, <2>2
<1>3. ASSUME NEW v \in Users
      PROVE  pc'[v] = "waiting" <=> \E i \in 1 .. Len(waiters') : waiters'[i] = v
  <2>1. CASE v = Commission BY <1>1, <1>2, <2>1
  <2>2. CASE v = Poller BY <1>1, <1>2, <2>2
  <2>3. CASE v \notin {Commission, Poller}
    <3>1. v \in Readers /\ pc'[v] = pc[v] BY <1>1, <2>3
    <3> QED BY <1>2, <2>3, <3>1
  <2> QED BY <2>1, <2>2, <2>3
<1>4. ASSUME NEW v \in Users
      PROVE  holder' = v <=> pc'[v] \in {"onWire", "body", "leaving"}
  <2>1. CASE v \in {Commission, Poller} BY <1>1, <2>1
  <2>2. CASE v \notin {Commission, Poller}
    <3>1. pc'[v] = pc[v] /\ holder # v BY <1>1, <2>2
    <3> QED BY <1>1, <2>2, <3>1 DEF LockKept
  <2> QED BY <2>1, <2>2
<1>5. /\ pc'[Commission] = "body" /\ pc'[Poller] = "off"
      /\ \A t \in Tools : pc'[t] \in {"idle", "waiting", "onWire"}
  BY <1>1 DEF LockKept
<1> QED BY <1>2, <1>3, <1>4, <1>5 DEF LockKept

\* A user leaves the lock, or moves on while it keeps it: the queue stays.
LEMMA MoveKeepsLock ==
  ASSUME TypeOK, LockKept, UNCHANGED waiters,
         pc' \in [Users -> States],
         \A u \in Users : pc'[u] = "waiting" <=> pc[u] = "waiting",
         \A u \in Users : holder' = u <=> pc'[u] \in {"onWire", "body", "leaving"},
         pc'[Commission] \in {"idle", "waiting", "body", "leaving"},
         pc'[Poller] \in {"idle", "waiting", "onWire", "off"},
         \A t \in Tools : pc'[t] \in {"idle", "waiting", "onWire"},
         pc'[Poller] = "off" <=> pc'[Commission] \in {"body", "leaving"}
  PROVE  LockKept'
BY Names DEF LockKept

\* A reader asks for the board.
LEMMA AskKeepsLock ==
  ASSUME TypeOK, LockKept, NEW r \in Readers, pc[r] = "idle", AskForBoard(r)
  PROVE  LockKept'
<1> USE Names
<1>1. CASE Free
  <2>1. /\ pc' = [pc EXCEPT ![r] = "onWire"] /\ holder' = r /\ UNCHANGED waiters
        /\ holder = Nobody /\ pc \in [Users -> States]
    BY <1>1 DEF AskForBoard, Free, TypeOK, States
  <2>2. \A u \in Users : pc[u] \notin {"onWire", "body", "leaving"} BY <2>1 DEF LockKept
  <2>3. /\ pc'[Commission] \in {"idle", "waiting"} /\ pc'[Poller] \in {"idle", "waiting", "onWire"}
        /\ \A t \in Tools : pc'[t] \in {"idle", "waiting", "onWire"}
    BY <2>1, <2>2 DEF LockKept
  <2>4. pc' \in [Users -> States] BY <2>1 DEF States
  <2>5. \A u \in Users : pc'[u] = "waiting" <=> pc[u] = "waiting" BY <2>1
  <2>6. \A u \in Users : holder' = u <=> pc'[u] \in {"onWire", "body", "leaving"} BY <2>1, <2>2
  <2> QED BY <2>1, <2>3, <2>4, <2>5, <2>6, MoveKeepsLock
<1>2. CASE ~Free
  BY <1>2, WaitKeepsLock DEF AskForBoard
<1> QED BY <1>1, <1>2

\* The head of the queue gets the free lock.
LEMMA GrantKeepsLock ==
  ASSUME TypeOK, LockKept, Grant
  PROVE  LockKept'
<1> USE Names
<1> DEFINE rest == Tail(waiters)
<1>1. /\ rest \in Seq(Users) /\ Len(rest) = Len(waiters) - 1
      /\ Len(waiters) \in Nat /\ Len(waiters) > 0
      /\ \A i \in 1 .. Len(rest) : rest[i] = waiters[i + 1] /\ i + 1 \in 1 .. Len(waiters)
      /\ Head(waiters) = waiters[1] /\ waiters[1] \in Users
  BY TailPlaces DEF Grant, TypeOK
<1> HIDE DEF rest
<1>2. \A i, j \in 1 .. Len(rest) : rest[i] = rest[j] => i = j
  <2> SUFFICES ASSUME NEW i \in 1 .. Len(rest), NEW j \in 1 .. Len(rest), rest[i] = rest[j]
               PROVE  i = j
    OBVIOUS
  <2>1. waiters[i + 1] = waiters[j + 1] BY <1>1
  <2>2. i + 1 = j + 1 BY <1>1, <2>1 DEF LockKept
  <2> QED BY <2>2
<1>3. \A i \in 1 .. Len(rest) : rest[i] # waiters[1]
  <2> SUFFICES ASSUME NEW i \in 1 .. Len(rest), waiters[i + 1] = waiters[1] PROVE FALSE
    BY <1>1
  <2>1. 1 \in 1 .. Len(waiters) BY <1>1
  <2>2. i + 1 = 1 BY <1>1, <2>1 DEF LockKept
  <2> QED BY <2>2
<1>4. \A u \in Users : pc[u] = "waiting" <=> u = waiters[1] \/ \E i \in 1 .. Len(rest) : rest[i] = u
  <2> SUFFICES ASSUME NEW u \in Users
               PROVE  (\E i \in 1 .. Len(waiters) : waiters[i] = u)
                        <=> u = waiters[1] \/ \E i \in 1 .. Len(rest) : rest[i] = u
    BY DEF LockKept
  <2>1. ASSUME NEW i \in 1 .. Len(waiters), waiters[i] = u
        PROVE  u = waiters[1] \/ \E k \in 1 .. Len(rest) : rest[k] = u
    <3>1. CASE i = 1 BY <2>1, <3>1
    <3>2. CASE i # 1
      <4>1. i - 1 \in 1 .. Len(rest) /\ (i - 1) + 1 = i BY <1>1, <3>2
      <4>2. rest[i - 1] = waiters[i] BY <1>1, <4>1
      <4> QED BY <2>1, <4>1, <4>2
    <3> QED BY <3>1, <3>2
  <2>2. ASSUME NEW k \in 1 .. Len(rest), rest[k] = u
        PROVE  \E i \in 1 .. Len(waiters) : waiters[i] = u
    BY <1>1, <2>2
  <2>3. u = waiters[1] => \E i \in 1 .. Len(waiters) : waiters[i] = u BY <1>1
  <2> QED BY <2>1, <2>2, <2>3
<1>5. holder = Nobody /\ pc[waiters[1]] = "waiting" BY <1>1, <1>4 DEF Grant
<1>6. CASE waiters[1] = Commission
  <2>1. TakeOver(rest) BY <1>1, <1>6 DEF Grant, rest
  <2>2. \A r \in Readers : pc[r] = "waiting" <=> \E i \in 1 .. Len(rest) : rest[i] = r
    BY <1>4, <1>6
  <2>3. pc[Commission] \in {"idle", "waiting"} /\ \A i \in 1 .. Len(rest) : rest[i] # Commission
    BY <1>3, <1>5, <1>6
  <2> QED BY <1>1, <1>2, <1>5, <2>1, <2>2, <2>3, TakeOverKeepsLock
<1>7. CASE waiters[1] # Commission
  <2>1. /\ holder' = waiters[1] /\ waiters' = rest
        /\ pc' = [pc EXCEPT ![waiters[1]] = "onWire"] /\ pc \in [Users -> States]
    BY <1>1, <1>7 DEF Grant, TypeOK, States, rest
  <2>2. \A u \in Users : pc[u] \notin {"onWire", "body", "leaving"} BY <1>5 DEF LockKept
  <2>3. /\ pc'[Commission] \in {"idle", "waiting"} /\ pc'[Poller] \in {"idle", "waiting", "onWire"}
        /\ \A t \in Tools : pc'[t] \in {"idle", "waiting", "onWire"}
    BY <1>1, <1>7, <2>1, <2>2 DEF LockKept
  <2>4. \A u \in Users : holder' = u <=> pc'[u] \in {"onWire", "body", "leaving"}
    BY <1>1, <2>1, <2>2
  <2>5. \A u \in Users : pc'[u] = "waiting" <=> \E i \in 1 .. Len(rest) : rest[i] = u
    BY <1>1, <1>3, <1>4, <2>1
  <2>6. pc'[Poller] = "off" <=> pc'[Commission] \in {"body", "leaving"} BY <2>3
  <2> QED BY <1>2, <2>1, <2>3, <2>4, <2>5, <2>6 DEF LockKept
<1> QED BY <1>6, <1>7

\* Every step keeps the lock's invariant.
LEMMA LockStep == TypeOK /\ LockKept /\ [Next]_vars => LockKept'
<1> SUFFICES ASSUME TypeOK, LockKept, [Next]_vars PROVE LockKept' OBVIOUS
<1> USE Names
<1>1. ASSUME UNCHANGED <<pc, holder, waiters>> PROVE LockKept' BY <1>1 DEF LockKept
<1>2. ASSUME NEW t \in Tools, ArmTool(t) PROVE LockKept' BY <1>1, <1>2 DEF ArmTool
<1>3. ASSUME NEW t \in Tools, Call(t) PROVE LockKept' BY <1>3, AskKeepsLock DEF Call
<1>4. CASE Poll BY <1>4, AskKeepsLock DEF Poll
<1>5. CASE Recommission
  <2>1. CASE Free
    <3>1. TakeOver(waiters) /\ holder = Nobody /\ waiters = <<>> /\ pc[Commission] = "idle"
      BY <1>5, <2>1 DEF Recommission, Free
    <3>2. Len(waiters) = 0 /\ waiters \in Seq(Users) BY <3>1
    <3>3. \A r \in Readers : pc[r] = "waiting" <=> \E i \in 1 .. Len(waiters) : waiters[i] = r
      BY DEF LockKept
    <3>4. /\ \A i, j \in 1 .. Len(waiters) : waiters[i] = waiters[j] => i = j
          /\ \A i \in 1 .. Len(waiters) : waiters[i] # Commission
      BY <3>2
    <3>5. pc[Commission] \in {"idle", "waiting"} BY <3>1
    <3> QED BY <3>1, <3>2, <3>3, <3>4, <3>5, TakeOverKeepsLock
  <2>2. CASE ~Free BY <1>5, <2>2, WaitKeepsLock DEF Recommission
  <2> QED BY <2>1, <2>2
<1>6. CASE Grant BY <1>6, GrantKeepsLock
<1>7. CASE Admit
  <2>1. pc[Commission] = "body" /\ pc' = [pc EXCEPT ![Commission] = "leaving"]
        /\ UNCHANGED <<holder, waiters>> /\ pc \in [Users -> States]
    BY <1>7 DEF Admit, TypeOK, States
  <2>2. holder = Commission /\ pc[Poller] = "off" BY <2>1 DEF LockKept
  <2>3. \A u \in Users : holder' = u <=> pc'[u] \in {"onWire", "body", "leaving"}
    BY <2>1 DEF LockKept
  <2>4. \A t \in Tools : pc'[t] \in {"idle", "waiting", "onWire"} BY <2>1 DEF LockKept
  <2>5. pc' \in [Users -> States] BY <2>1 DEF States
  <2>6. \A u \in Users : pc'[u] = "waiting" <=> pc[u] = "waiting" BY <2>1
  <2> QED BY <2>1, <2>2, <2>3, <2>4, <2>5, <2>6, MoveKeepsLock
<1>8. CASE Leave
  <2>1. pc[Commission] \in {"body", "leaving"} /\ holder' = Nobody /\ UNCHANGED waiters
        /\ pc \in [Users -> States]
    BY <1>8 DEF Leave, TypeOK, States
  <2>2. holder = Commission /\ pc[Poller] = "off" BY <2>1 DEF LockKept
  <2>3. pc' = [pc EXCEPT ![Commission] = "idle", ![Poller] = "idle"]
    BY <1>8, <2>2 DEF Leave
  <2>4. \A u \in Users : holder' = u <=> pc'[u] \in {"onWire", "body", "leaving"}
    <3>1. \A u \in Users : u # Commission => pc[u] \notin {"onWire", "body", "leaving"}
      BY <2>2 DEF LockKept
    <3> QED BY <2>1, <2>3, <3>1
  <2>5. \A t \in Tools : pc'[t] \in {"idle", "waiting", "onWire"} BY <2>1, <2>3 DEF LockKept
  <2>6. pc' \in [Users -> States] BY <2>1, <2>3 DEF States
  <2>7. \A u \in Users : pc'[u] = "waiting" <=> pc[u] = "waiting" BY <2>1, <2>2, <2>3
  <2>8. pc'[Commission] = "idle" /\ pc'[Poller] = "idle" BY <2>1, <2>3
  <2> QED BY <2>1, <2>4, <2>5, <2>6, <2>7, <2>8, MoveKeepsLock
<1>9. CASE Drain BY <1>1, <1>9 DEF Drain
<1>10. ASSUME NEW r \in Readers, ReadEnds(r) PROVE LockKept'
  <2>1. pc[r] = "onWire" /\ pc' = [pc EXCEPT ![r] = "idle"] /\ holder' = Nobody
        /\ UNCHANGED waiters /\ pc \in [Users -> States]
    BY <1>10 DEF ReadEnds, TypeOK, States
  <2>2. holder = r BY <2>1 DEF LockKept
  <2>3. \A u \in Users : u # r => pc[u] \notin {"onWire", "body", "leaving"}
    BY <2>2 DEF LockKept
  <2>4. \A u \in Users : holder' = u <=> pc'[u] \in {"onWire", "body", "leaving"}
    BY <2>1, <2>3
  <2>5. pc' \in [Users -> States] BY <2>1 DEF States
  <2>6. \A u \in Users : pc'[u] = "waiting" <=> pc[u] = "waiting" BY <2>1
  <2>7. /\ pc'[Commission] \in {"idle", "waiting"} /\ pc'[Poller] \in {"idle", "waiting"}
        /\ \A t \in Tools : pc'[t] \in {"idle", "waiting", "onWire"}
    BY <2>1, <2>3 DEF LockKept
  <2> QED BY <2>1, <2>4, <2>5, <2>6, <2>7, MoveKeepsLock
<1>11. CASE UNCHANGED vars BY <1>1, <1>11 DEF vars
<1> QED
  BY <1>2, <1>3, <1>4, <1>5, <1>6, <1>7, <1>8, <1>9, <1>10, <1>11 DEF Next

-----------------------------------------------------------------------------
\* What a call knows of the registered source.

LEMMA InitCalls == Init => CallsKept
BY Names DEF Init, CallsKept, InCall

\* While nothing on the board changes and no source is swapped, nobody knows less.
LEMMA SameCalls ==
  ASSUME CallsKept, UNCHANGED <<version, payload, waiters, pc>>,
         \A t \in Tools : armed'[t] > 0 => version > 0
  PROVE  CallsKept'
BY DEF CallsKept, InCall, NotBehindCommission

\* A queue that only grows at its end puts no commission in front of those in it.
LEMMA StillNotBehind ==
  ASSUME TypeOK, NEW u \in Users, NEW t \in Users, u # t,
         waiters' = Append(waiters, u), NotBehindCommission(t)
  PROVE  NotBehindCommission(t)'
<1>1. /\ Len(waiters') = Len(waiters) + 1 /\ Len(waiters) \in Nat
      /\ \A i \in 1 .. Len(waiters) : waiters'[i] = waiters[i]
      /\ waiters'[Len(waiters) + 1] = u
  BY AppendPlaces DEF TypeOK
<1> SUFFICES ASSUME NEW i \in 1 .. Len(waiters'), NEW j \in 1 .. Len(waiters'),
                    waiters'[i] = Commission, waiters'[j] = t
             PROVE  j < i
  BY DEF NotBehindCommission
<1>2. j \in 1 .. Len(waiters) BY <1>1
<1>3. CASE i \in 1 .. Len(waiters) BY <1>1, <1>2, <1>3 DEF NotBehindCommission
<1>4. CASE i \notin 1 .. Len(waiters) BY <1>1, <1>2, <1>4
<1> QED BY <1>3, <1>4

\* A call resolves the source of this moment.
LEMMA AskKeepsCalls ==
  ASSUME TypeOK, LockKept, CallsKept, NEW r \in Readers, pc[r] = "idle", version > 0,
         payload' = [payload EXCEPT ![r] = version], AskForBoard(r)
  PROVE  CallsKept'
<1> USE Names
<1>1. /\ UNCHANGED <<version, armed>> /\ pc \in [Users -> States]
      /\ payload \in [Readers -> Versions] /\ version \in Nat
  BY DEF AskForBoard, TypeOK, States, Versions
<1>2. \A u \in Users : u # r => pc'[u] = pc[u]
  BY <1>1 DEF AskForBoard, Wait
<1>3. payload'[r] = version /\ \A u \in Readers : u # r => payload'[u] = payload[u]
  BY <1>1
<1>4. ASSUME NEW t \in Tools, t # r, NotBehindCommission(t) PROVE NotBehindCommission(t)'
  <2>1. CASE Free BY <1>4, <2>1 DEF AskForBoard, NotBehindCommission
  <2>2. CASE ~Free
    <3>1. waiters' = Append(waiters, r) BY <2>2 DEF AskForBoard, Wait
    <3> QED BY <1>4, <3>1, StillNotBehind
  <2> QED BY <2>1, <2>2
<1>5. \A t \in Tools : armed'[t] > 0 => version' > 0 BY <1>1 DEF CallsKept
<1>6. ASSUME NEW u \in Readers, InCall(u)' PROVE 1 <= payload'[u] /\ payload'[u] <= version'
  BY <1>1, <1>2, <1>3, <1>6 DEF CallsKept, InCall
<1>7. ASSUME NEW t \in Tools, InCall(t)', payload'[t] # version'
      PROVE  version' = payload'[t] + 1 /\ pc'[Commission] # "body" /\ NotBehindCommission(t)'
  <2>1. t # r BY <1>1, <1>3, <1>7
  <2>2. InCall(t) /\ payload[t] # version BY <1>1, <1>2, <1>3, <1>7, <2>1 DEF InCall
  <2>3. version = payload[t] + 1 /\ pc[Commission] # "body" /\ NotBehindCommission(t)
    BY <2>2 DEF CallsKept
  <2> QED BY <1>1, <1>2, <1>3, <1>4, <2>1, <2>3
<1>8. InCall(Poller)' => payload'[Poller] = version'
  BY <1>1, <1>2, <1>3 DEF CallsKept, InCall
<1> QED BY <1>5, <1>6, <1>7, <1>8 DEF CallsKept

\* When a commission takes the lock, whoever still waits has resolved the registered source.
LEMMA TakeOverKeepsCalls ==
  ASSUME TypeOK, CallsKept, NEW q \in Seq(Users), TakeOver(q), UNCHANGED <<version, armed, payload>>,
         \A t \in Tools : InCall(t) => payload[t] = version
  PROVE  CallsKept'
<1> USE Names
<1>1. /\ pc' = [pc EXCEPT ![Commission] = "body", ![Poller] = "off"] /\ pc \in [Users -> States]
  BY DEF TakeOver, TypeOK, States
<1>2. ~InCall(Poller)' BY <1>1 DEF InCall
<1>3. \A t \in Tools : InCall(t)' => InCall(t) BY <1>1 DEF InCall
<1>4. \A t \in Tools : armed'[t] > 0 => version' > 0 BY DEF CallsKept
<1>5. \A t \in Tools : InCall(t)' => payload'[t] = version' BY <1>3
<1>6. \A r \in Readers : InCall(r)' => 1 <= payload'[r] /\ payload'[r] <= version'
  BY <1>2, <1>3 DEF CallsKept
<1> QED BY <1>2, <1>4, <1>5, <1>6 DEF CallsKept

\* Every step keeps what the calls know.
LEMMA CallsStep == TypeOK /\ LockKept /\ CallsKept /\ [Next]_vars => CallsKept'
<1> SUFFICES ASSUME TypeOK, LockKept, CallsKept, [Next]_vars PROVE CallsKept' OBVIOUS
<1> USE Names
<1>0. \A t \in Tools : armed[t] > 0 => version > 0 BY DEF CallsKept
<1>1. ASSUME NEW t \in Tools, ArmTool(t) PROVE CallsKept'
  <2>1. \A u \in Tools : armed'[u] > 0 => version > 0 BY <1>0, <1>1 DEF ArmTool, TypeOK
  <2> QED BY <1>1, <2>1, SameCalls DEF ArmTool
<1>2. ASSUME NEW t \in Tools, Call(t) PROVE CallsKept' BY <1>0, <1>2, AskKeepsCalls DEF Call
<1>3. CASE Poll BY <1>3, AskKeepsCalls DEF Poll
<1>4. ASSUME holder = Nobody PROVE \A r \in Readers : pc[r] # "onWire"
  BY <1>4 DEF LockKept
<1>5. CASE Recommission
  <2>1. CASE Free
    <3>1. TakeOver(waiters) /\ waiters = <<>> /\ UNCHANGED <<version, armed, payload>>
      BY <1>5, <2>1 DEF Recommission, Free
    <3>2. waiters \in Seq(Users) /\ Len(waiters) = 0 BY <3>1
    <3>3. \A r \in Readers : pc[r] # "waiting" BY <3>2 DEF LockKept
    <3>4. \A t \in Tools : ~InCall(t) BY <1>4, <2>1, <3>3 DEF Free, InCall
    <3> QED BY <3>1, <3>2, <3>4, TakeOverKeepsCalls
  <2>2. CASE ~Free
    <3>1. /\ pc' = [pc EXCEPT ![Commission] = "waiting"] /\ pc \in [Users -> States]
          /\ waiters' = Append(waiters, Commission) /\ UNCHANGED <<version, armed, payload>>
      BY <1>5, <2>2 DEF Recommission, Wait, TypeOK, States
    <3>2. \A r \in Readers : InCall(r)' <=> InCall(r) BY <3>1 DEF InCall
    <3>3. \A t \in Tools : NotBehindCommission(t) => NotBehindCommission(t)'
      BY <3>1, StillNotBehind
    <3>4. pc'[Commission] # "body" BY <3>1
    <3> QED BY <3>1, <3>2, <3>3, <3>4 DEF CallsKept
  <2> QED BY <2>1, <2>2
<1>6. CASE Grant
  <2> DEFINE rest == Tail(waiters)
  <2>1. /\ rest \in Seq(Users) /\ Len(rest) = Len(waiters) - 1
        /\ Len(waiters) \in Nat /\ Len(waiters) > 0
        /\ \A i \in 1 .. Len(rest) : rest[i] = waiters[i + 1] /\ i + 1 \in 1 .. Len(waiters)
        /\ Head(waiters) = waiters[1] /\ waiters[1] \in Users
    BY <1>6, TailPlaces DEF Grant, TypeOK
  <2>2. CASE waiters[1] = Commission
    <3>1. TakeOver(rest) /\ UNCHANGED <<version, armed, payload>> BY <1>6, <2>1, <2>2 DEF Grant
    <3>2. ASSUME NEW t \in Tools, InCall(t) PROVE payload[t] = version
      <4>1. pc[t] = "waiting" BY <1>4, <1>6, <3>2 DEF Grant, InCall
      <4>2. PICK j \in 1 .. Len(waiters) : waiters[j] = t BY <4>1 DEF LockKept
      <4>3. 1 \in 1 .. Len(waiters) /\ ~(j < 1) BY <2>1
      <4>4. ~NotBehindCommission(t) BY <2>2, <4>2, <4>3 DEF NotBehindCommission
      <4> QED BY <3>2, <4>4 DEF CallsKept
    <3> QED BY <2>1, <3>1, <3>2, TakeOverKeepsCalls
  <2>3. CASE waiters[1] # Commission
    <3>1. /\ pc' = [pc EXCEPT ![waiters[1]] = "onWire"] /\ pc \in [Users -> States]
          /\ waiters' = rest /\ UNCHANGED <<version, armed, payload>>
      BY <1>6, <2>1, <2>3 DEF Grant, TypeOK, States
    <3>2. pc[waiters[1]] = "waiting"
      <4>1. 1 \in 1 .. Len(waiters) BY <2>1
      <4> QED BY <2>1, <4>1 DEF LockKept
    <3>3. \A r \in Readers : InCall(r)' <=> InCall(r) BY <3>1, <3>2 DEF InCall
    <3>4. ASSUME NEW t \in Tools, NotBehindCommission(t) PROVE NotBehindCommission(t)'
      <4> SUFFICES ASSUME NEW i \in 1 .. Len(rest), NEW j \in 1 .. Len(rest),
                          rest[i] = Commission, rest[j] = t
                   PROVE  j < i
        BY <3>1 DEF NotBehindCommission
      <4>1. j + 1 < i + 1 BY <2>1, <3>4 DEF NotBehindCommission
      <4> QED BY <4>1
    <3>5. pc'[Commission] = pc[Commission] BY <2>3, <3>1
    <3> QED BY <3>1, <3>3, <3>4, <3>5 DEF CallsKept
  <2> QED BY <2>2, <2>3
<1>7. CASE Admit
  <2>1. /\ pc[Commission] = "body" /\ pc' = [pc EXCEPT ![Commission] = "leaving"]
        /\ pc \in [Users -> States] /\ version' = version + 1 /\ version \in Nat
        /\ UNCHANGED <<armed, payload, waiters>> /\ payload \in [Readers -> Versions]
    BY <1>7 DEF Admit, TypeOK, States, Versions
  <2>2. pc[Poller] = "off" BY <2>1 DEF LockKept
  <2>3. \A r \in Readers : InCall(r)' <=> InCall(r) BY <2>1 DEF InCall
  <2>4. \A t \in Tools : InCall(t) => payload[t] = version BY <2>1 DEF CallsKept
  <2>5. \A i \in 1 .. Len(waiters) : waiters[i] # Commission BY <2>1 DEF LockKept
  <2>6. \A t \in Tools : NotBehindCommission(t)' BY <2>1, <2>5 DEF NotBehindCommission
  <2>7. ~InCall(Poller) BY <2>2 DEF InCall
  <2>8. \A t \in Tools : armed'[t] > 0 => version' > 0 BY <2>1
  <2>9. \A r \in Readers : InCall(r)' => 1 <= payload'[r] /\ payload'[r] <= version'
    <3>1. \A r \in Readers : InCall(r) => 1 <= payload[r] /\ payload[r] <= version
      BY DEF CallsKept
    <3>2. \A r \in Readers : payload[r] \in Nat BY <2>1 DEF Versions
    <3> QED BY <2>1, <2>3, <3>1, <3>2
  <2>10. \A t \in Tools : InCall(t)' => version' = payload'[t] + 1 BY <2>1, <2>3, <2>4
  <2>11. pc'[Commission] # "body" BY <2>1
  <2> QED BY <2>3, <2>6, <2>7, <2>8, <2>9, <2>10, <2>11 DEF CallsKept
<1>8. CASE Leave
  <2>1. /\ pc[Commission] \in {"body", "leaving"} /\ pc \in [Users -> States]
        /\ UNCHANGED <<version, armed, payload, waiters>>
    BY <1>8 DEF Leave, TypeOK, States
  <2>2. pc[Poller] = "off" BY <2>1 DEF LockKept
  <2>3. pc' = [pc EXCEPT ![Commission] = "idle", ![Poller] = "idle"] BY <1>8, <2>2 DEF Leave
  <2>4. \A r \in Readers : InCall(r)' <=> InCall(r) BY <2>1, <2>2, <2>3 DEF InCall
  <2>5. \A t \in Tools : NotBehindCommission(t) => NotBehindCommission(t)'
    BY <2>1 DEF NotBehindCommission
  <2>6. pc'[Commission] # "body" BY <2>1, <2>3
  <2> QED BY <2>1, <2>4, <2>5, <2>6 DEF CallsKept
<1>9. CASE Drain BY <1>0, <1>9, SameCalls DEF Drain
<1>10. ASSUME NEW r \in Readers, ReadEnds(r) PROVE CallsKept'
  <2>1. /\ pc' = [pc EXCEPT ![r] = "idle"] /\ pc \in [Users -> States]
        /\ UNCHANGED <<version, armed, payload, waiters>>
    BY <1>10 DEF ReadEnds, TypeOK, States
  <2>2. \A u \in Readers : InCall(u)' => InCall(u) BY <2>1 DEF InCall
  <2>3. \A t \in Tools : NotBehindCommission(t) => NotBehindCommission(t)'
    BY <2>1 DEF NotBehindCommission
  <2>4. pc'[Commission] = pc[Commission] BY <2>1
  <2> QED BY <2>1, <2>2, <2>3, <2>4 DEF CallsKept
<1>11. CASE UNCHANGED vars BY <1>0, <1>11, SameCalls DEF vars
<1> QED
  BY <1>1, <1>2, <1>3, <1>5, <1>6, <1>7, <1>8, <1>9, <1>10, <1>11 DEF Next

-----------------------------------------------------------------------------
\* The history behind the bus.

\* HistoryKept for one account of the sources in force, of events q up to version v with a
\* series s in front of them.
Tells(inForce, q, v, s) ==
  /\ inForce[Len(q)] = v
  /\ \A i \in 1 .. Len(q) :
       IF q[i].kind = "sensor.reading"
       THEN inForce[i] = inForce[i - 1] /\ q[i].version \in Recent(inForce[i])
       ELSE inForce[i] = inForce[i - 1] + 1
  /\ \A i \in 1 .. Len(s) : s[i] \in Recent(inForce[0])

LEMMA HistoryIsTold ==
  /\ HistoryKept <=> \E inForce \in [0 .. Len(queue) -> 0 .. MaxVersions] :
                       Tells(inForce, queue, version, series)
  /\ HistoryKept' <=> \E inForce \in [0 .. Len(queue') -> 0 .. MaxVersions] :
                        Tells(inForce, queue', version', series')
BY DEF HistoryKept, Tells

LEMMA InitHistory == Init => HistoryKept
<1> SUFFICES ASSUME Init PROVE HistoryKept OBVIOUS
<1>1. Len(queue) = 0 /\ Len(series) = 0 /\ version = 0 BY DEF Init
<1>2. [i \in 0 .. 0 |-> 0] \in [0 .. Len(queue) -> 0 .. MaxVersions] BY <1>1, Names
<1>3. Tells([i \in 0 .. 0 |-> 0], queue, version, series) BY <1>1 DEF Tells
<1> QED BY <1>2, <1>3, HistoryIsTold

\* What is published is a reading of the source in force or of the one before it, or
\* the swap to the next.
LEMMA PublishKeepsHistory ==
  ASSUME TypeOK, HistoryKept, NEW e \in Events, queue' = Append(queue, e), UNCHANGED series,
         version' \in Versions,
         IF e.kind = "sensor.reading" THEN version' = version /\ e.version \in Recent(version)
                                      ELSE version' = version + 1
  PROVE  HistoryKept'
<1> USE Names
<1>1. PICK f \in [0 .. Len(queue) -> 0 .. MaxVersions] : Tells(f, queue, version, series)
  BY HistoryIsTold
<1> DEFINE n == Len(queue)
           g == [i \in 0 .. n + 1 |-> IF i = n + 1 THEN version' ELSE f[i]]
<1>2. /\ Len(queue') = n + 1 /\ n \in Nat
      /\ \A i \in 1 .. n : queue'[i] = queue[i]
      /\ queue'[n + 1] = e
  BY AppendPlaces DEF TypeOK, Events
<1>3. g \in [0 .. Len(queue') -> 0 .. MaxVersions] BY <1>2 DEF Versions
<1>4. /\ g[n + 1] = version' /\ g[n] = version /\ g[0] = f[0]
      /\ \A i \in 1 .. n : g[i] = f[i] /\ g[i - 1] = f[i - 1]
  BY <1>1, <1>2 DEF Tells
<1> HIDE DEF g
<1>5. ASSUME NEW i \in 1 .. Len(queue')
      PROVE  IF queue'[i].kind = "sensor.reading"
             THEN g[i] = g[i - 1] /\ queue'[i].version \in Recent(g[i])
             ELSE g[i] = g[i - 1] + 1
  <2>1. CASE i \in 1 .. n BY <1>1, <1>2, <1>4, <2>1 DEF Tells
  <2>2. CASE i \notin 1 .. n
    <3>1. i = n + 1 /\ i - 1 = n BY <1>2, <2>2
    <3> QED BY <1>2, <1>4, <3>1
  <2> QED BY <2>1, <2>2
<1>6. \A i \in 1 .. Len(series') : series'[i] \in Recent(g[0]) BY <1>1, <1>4 DEF Tells
<1>7. g[Len(queue')] = version' BY <1>2, <1>4
<1>8. Tells(g, queue', version', series') BY <1>5, <1>6, <1>7 DEF Tells
<1> QED BY <1>3, <1>8, HistoryIsTold

\* The history takes the next event.
LEMMA DrainKeepsHistory ==
  ASSUME TypeOK, HistoryKept, Drain
  PROVE  HistoryKept'
<1> USE Names
<1>1. PICK f \in [0 .. Len(queue) -> 0 .. MaxVersions] : Tells(f, queue, version, series)
  BY HistoryIsTold
<1>2. /\ queue' = Tail(queue) /\ Len(queue') = Len(queue) - 1 /\ Len(queue) \in Nat /\ Len(queue) > 0
      /\ \A i \in 1 .. Len(queue') : queue'[i] = queue[i + 1] /\ i + 1 \in 1 .. Len(queue)
      /\ Head(queue) = queue[1] /\ queue[1] \in Events /\ version' = version
  BY TailPlaces DEF Drain, TypeOK, Events
<1> DEFINE g == [i \in 0 .. Len(queue) - 1 |-> f[i + 1]]
<1>3. g \in [0 .. Len(queue') -> 0 .. MaxVersions] BY <1>2
<1>4. /\ g[Len(queue')] = f[Len(queue)] /\ g[0] = f[1]
      /\ \A i \in 1 .. Len(queue') : g[i] = f[i + 1] /\ g[i - 1] = f[i]
  BY <1>2
<1> HIDE DEF g
<1>5. ASSUME NEW i \in 1 .. Len(queue')
      PROVE  IF queue'[i].kind = "sensor.reading"
             THEN g[i] = g[i - 1] /\ queue'[i].version \in Recent(g[i])
             ELSE g[i] = g[i - 1] + 1
  <2>1. i + 1 \in 1 .. Len(queue) /\ (i + 1) - 1 = i BY <1>2
  <2>2. IF queue[i + 1].kind = "sensor.reading"
        THEN f[i + 1] = f[(i + 1) - 1] /\ queue[i + 1].version \in Recent(f[i + 1])
        ELSE f[i + 1] = f[(i + 1) - 1] + 1
    BY <1>1, <2>1 DEF Tells
  <2>3. queue'[i] = queue[i + 1] /\ g[i] = f[i + 1] /\ g[i - 1] = f[i] BY <1>2, <1>4
  <2> QED BY <2>1, <2>2, <2>3
<1>6. \A i \in 1 .. Len(series') : series'[i] \in Recent(g[0])
  <2>1. 1 \in 1 .. Len(queue) /\ 1 - 1 = 0 BY <1>2
  <2>2. CASE queue[1].kind = "sensor.reading"
    <3> DEFINE longer == Append(series, queue[1].version)
    <3>1. g[0] = f[0] /\ queue[1].version \in Recent(g[0])
      BY <1>1, <1>4, <2>1, <2>2 DEF Tells
    <3>2. \A i \in 1 .. Len(series) : series[i] \in Recent(g[0]) BY <1>1, <3>1 DEF Tells
    <3>3. queue[1].version \in 1 .. MaxVersions BY <1>2 DEF Events
    <3>4. /\ longer \in Seq(1 .. MaxVersions) /\ Len(longer) = Len(series) + 1 /\ Len(series) \in Nat
          /\ \A i \in 1 .. Len(series) : longer[i] = series[i]
          /\ longer[Len(series) + 1] = queue[1].version
      BY <3>3, AppendPlaces DEF TypeOK
    <3>5. series' \in {series, IF Len(longer) > Capacity THEN Tail(longer) ELSE longer}
      BY <1>2, <2>2 DEF Drain
    <3> HIDE DEF longer
    <3>6. \A i \in 1 .. Len(longer) : longer[i] \in Recent(g[0]) BY <3>1, <3>2, <3>4
    <3>7. longer # <<>> BY <3>4
    <3>8. \A i \in 1 .. Len(Tail(longer)) : Tail(longer)[i] \in Recent(g[0])
      <4>1. \A i \in 1 .. Len(Tail(longer)) : Tail(longer)[i] = longer[i + 1] /\ i + 1 \in 1 .. Len(longer)
        BY <3>4, <3>7, TailPlaces
      <4> QED BY <3>6, <4>1
    <3> QED BY <3>2, <3>5, <3>6, <3>8
  <2>3. CASE queue[1].kind # "sensor.reading"
    <3>1. series' = <<>> BY <1>2, <2>3 DEF Drain
    <3> QED BY <3>1
  <2> QED BY <2>2, <2>3
<1>7. g[Len(queue')] = version' BY <1>1, <1>2, <1>4 DEF Tells
<1>8. Tells(g, queue', version', series') BY <1>5, <1>6, <1>7 DEF Tells
<1> QED BY <1>3, <1>8, HistoryIsTold

LEMMA HistoryStep == TypeOK /\ LockKept /\ CallsKept /\ HistoryKept /\ [Next]_vars => HistoryKept'
<1> SUFFICES ASSUME TypeOK, LockKept, CallsKept, HistoryKept, [Next]_vars PROVE HistoryKept' OBVIOUS
<1> USE Names
<1>1. ASSUME UNCHANGED <<version, queue, series>> PROVE HistoryKept' BY <1>1 DEF HistoryKept, Recent
<1>2. ASSUME NEW t \in Tools, ArmTool(t) \/ Call(t) PROVE HistoryKept'
  BY <1>1, <1>2 DEF ArmTool, Call, AskForBoard
<1>3. CASE Poll \/ Recommission \/ Grant \/ Leave
  BY <1>1, <1>3 DEF Poll, AskForBoard, Recommission, Grant, Leave
<1>4. CASE Admit
  <2>1. version' \in 1 .. MaxVersions /\ version' = version + 1 /\ UNCHANGED series
    BY <1>4 DEF Admit, TypeOK
  <2>2. queue' = Append(queue, Swap(version')) BY <1>4 DEF Admit, Publish
  <2>3. Swap(version') \in Events /\ Swap(version').kind # "sensor.reading"
    BY <2>1 DEF Swap, Events
  <2>4. version' \in Versions BY <2>1 DEF Versions
  <2> QED BY <2>1, <2>2, <2>3, <2>4, PublishKeepsHistory
<1>5. CASE Drain BY <1>5, DrainKeepsHistory
<1>6. ASSUME NEW r \in Readers, ReadEnds(r) PROVE HistoryKept'
  <2>1. UNCHANGED <<version, series>> /\ InCall(r) BY <1>6 DEF ReadEnds, InCall
  <2>2. CASE UNCHANGED queue BY <1>1, <2>1, <2>2
  <2>3. CASE Publish(Reading(payload[r]))
    <3>1. queue' = Append(queue, Reading(payload[r])) BY <2>3 DEF Publish
    <3>2. payload[r] \in 1 .. MaxVersions /\ version \in Versions
      BY <2>1 DEF CallsKept, TypeOK, Versions
    <3>3. payload[r] \in Recent(version)
      <4>1. payload[r] = version \/ version = payload[r] + 1 BY <2>1 DEF CallsKept
      <4> QED BY <3>2, <4>1 DEF Recent, Versions
    <3>4. /\ Reading(payload[r]) \in Events /\ Reading(payload[r]).kind = "sensor.reading"
          /\ Reading(payload[r]).version = payload[r]
      BY <3>2 DEF Reading, Events
    <3>5. version' = version BY <2>1
    <3> QED BY <2>1, <3>1, <3>2, <3>3, <3>4, <3>5, PublishKeepsHistory
  <2> QED BY <1>6, <2>2, <2>3 DEF ReadEnds
<1>7. CASE UNCHANGED vars BY <1>1, <1>7 DEF vars
<1> QED
  BY <1>2, <1>3, <1>4, <1>5, <1>6, <1>7 DEF Next

-----------------------------------------------------------------------------
LEMMA RegistryStep == TypeOK /\ RegistryInv /\ [Next]_vars => TypeOK' /\ RegistryInv'
BY TypeStep, LockStep, CallsStep, HistoryStep DEF RegistryInv

\* The record, the readers, the lock and the history are well typed, and the series never
\* outgrows its capacity (DriverRegistry, HistoryStore).
THEOREM TypeCorrect == Spec => []TypeOK
<1>1. Init => TypeOK /\ RegistryInv BY InitType, InitLock, InitCalls, InitHistory DEF RegistryInv
<1>2. TypeOK /\ RegistryInv /\ [Next]_vars => (TypeOK /\ RegistryInv)' BY RegistryStep
<1> QED BY <1>1, <1>2, PTL DEF Spec

\* The inductive invariant: the lock and its queue, what a call has resolved, and what the
\* history is still to be told.
THEOREM RegistryCorrect == Spec => []RegistryInv
<1>1. Init => TypeOK /\ RegistryInv BY InitType, InitLock, InitCalls, InitHistory DEF RegistryInv
<1>2. TypeOK /\ RegistryInv /\ [Next]_vars => (TypeOK /\ RegistryInv)' BY RegistryStep
<1> QED BY <1>1, <1>2, PTL DEF Spec

\* perform_read: whenever its tool was armed and however long it waits, a call runs the
\* registered source or the one before it, for any number of callers and re-commissions.
THEOREM BoundedStaleness == Spec => []StaleByAtMostOneSwap
<1>1. TypeOK /\ RegistryInv => StaleByAtMostOneSwap
  <2> SUFFICES ASSUME TypeOK, CallsKept, NEW t \in Tools, InCall(t)
               PROVE  version <= payload[t] + 1
    BY DEF RegistryInv, StaleByAtMostOneSwap
  <2>1. payload[t] = version \/ version = payload[t] + 1 BY DEF CallsKept
  <2>2. version \in Nat /\ payload[t] \in Nat BY Names DEF TypeOK
  <2> QED BY <2>1, <2>2
<1> QED BY <1>1, TypeCorrect, RegistryCorrect, PTL

\* _poll_once: what the poller has on the wire is the registered source.
THEOREM FreshTelemetry == Spec => []PollerRunsRegistered
<1>1. RegistryInv => PollerRunsRegistered
  BY DEF RegistryInv, CallsKept, PollerRunsRegistered, InCall
<1> QED BY <1>1, RegistryCorrect, PTL

\* HistoryStore: the series mixes the readings of at most two drivers, a swap and the one
\* before it, however far the history lags behind the bus.
THEOREM BoundedBlend == Spec => []HistoryAtMostOneSwapBack
<1>1. TypeOK /\ RegistryInv => HistoryAtMostOneSwapBack
  <2> SUFFICES ASSUME TypeOK, HistoryKept, NEW i \in 1 .. Len(series), NEW j \in 1 .. Len(series)
               PROVE  series[i] <= series[j] + 1
    BY DEF RegistryInv, HistoryAtMostOneSwapBack
  <2>1. PICK f \in [0 .. Len(queue) -> 0 .. MaxVersions] : Tells(f, queue, version, series)
    BY HistoryIsTold
  <2>2. f[0] \in Nat BY Names DEF TypeOK
  <2>3. series[i] \in Recent(f[0]) /\ series[j] \in Recent(f[0]) BY <2>1 DEF Tells
  <2> QED BY <2>2, <2>3 DEF Recent
<1> QED BY <1>1, TypeCorrect, RegistryCorrect, PTL
=============================================================================
