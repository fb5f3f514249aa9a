-------------------------- MODULE EventStreamProofs --------------------------
(***************************************************************************)
(* The stream that a console follows is intact, and a console that has     *)
(* caught up agrees with the watcher and the registry, for any addresses,  *)
(* queue and wire sizes and any number of changes and connections.         *)
(*                                                                         *)
(* The proofs reason about Pending, the frames on the wire followed by     *)
(* those in the queue: publishing appends to it, the presences are put in  *)
(* front of the queue, a frame that is received leaves at the head, and    *)
(* forwarding changes nothing.  What the console will show is a property   *)
(* of the view and Pending together, which only the two sources of the     *)
(* presence cards, admissions and connecting change.                       *)
(***************************************************************************)
EXTENDS EventStream, SequenceTheorems, FiniteSetTheorems, WellFoundedInduction, TLAPS

-----------------------------------------------------------------------------
\* Sequences.

LEMMA ConcatPlaces ==
  ASSUME NEW S, NEW p \in Seq(S), NEW q \in Seq(S)
  PROVE  /\ p \o q \in Seq(S) /\ Len(p) \in Nat /\ Len(q) \in Nat
         /\ Len(p \o q) = Len(p) + Len(q)
         /\ \A i \in 1 .. Len(p) + Len(q) :
              (p \o q)[i] = IF i <= Len(p) THEN p[i] ELSE q[i - Len(p)]
BY ConcatProperties

LEMMA TailPlaces ==
  ASSUME NEW S, NEW q \in Seq(S), q # <<>>
  PROVE  /\ Tail(q) \in Seq(S) /\ Len(Tail(q)) = Len(q) - 1
         /\ Len(q) \in Nat /\ Len(q) > 0 /\ Head(q) = q[1] /\ Head(q) \in S
         /\ \A i \in 1 .. Len(q) - 1 : Tail(q)[i] = q[i + 1]
OBVIOUS

LEMMA AppendPlaces ==
  ASSUME NEW S, NEW q \in Seq(S), NEW e \in S
  PROVE  /\ Append(q, e) \in Seq(S) /\ Len(Append(q, e)) = Len(q) + 1 /\ Len(q) \in Nat
         /\ \A i \in 1 .. Len(q) : Append(q, e)[i] = q[i]
         /\ Append(q, e)[Len(q) + 1] = e
OBVIOUS

\* A set of numbers has a least element: what induction over numbers rests on here.
LEMMA LeastNumber ==
  ASSUME NEW T, T \subseteq Nat, T # {}
  PROVE  \E x \in T : \A y \in T : x <= y
<1> DEFINE R == OpToRel(<, Nat)
<1>1. IsWellFoundedOn(R, Nat) BY NatLessThanWellFounded
<1>2. \A x, y \in Nat : <<y, x>> \in R <=> y < x BY DEF OpToRel
<1> HIDE DEF R
<1>3. PICK x \in T : \A y \in T : ~(<<y, x>> \in R) BY <1>1, WFMin
<1>4. ASSUME NEW y \in T PROVE x <= y
  <2>1. x \in Nat /\ y \in Nat OBVIOUS
  <2>2. ~(y < x) BY <1>2, <1>3, <2>1
  <2> QED BY <2>1, <2>2
<1> QED BY <1>4

-----------------------------------------------------------------------------
\* What a publication leaves in the queue.

\* f lists the queue q after each of the first m offers of e.
Offers(f, q, e, m) ==
  f = [k \in 0 .. m |-> IF k = 0 THEN q ELSE Offer(f[k - 1], e[k])]

\* The offers one after another are well defined, however many they are.
LEMMA OffersExist ==
  ASSUME NEW q, NEW e, NEW m \in Nat
  PROVE  \E f : Offers(f, q, e, m)
<1> DEFINE T == {n \in Nat : ~\E f : Offers(f, q, e, n)}
<1>1. SUFFICES ASSUME T # {} PROVE FALSE OBVIOUS
<1>2. T \subseteq Nat OBVIOUS
<1>3. PICK n \in T : \A y \in T : n <= y BY <1>1, <1>2, LeastNumber
<1>4. n \in Nat /\ ~\E f : Offers(f, q, e, n) OBVIOUS
<1>5. n # 0
  <2>1. Offers([k \in 0 .. 0 |-> q], q, e, 0) BY DEF Offers
  <2> QED BY <1>4, <2>1
<1>6. n - 1 \in Nat /\ ~(n <= n - 1) BY <1>4, <1>5
<1>7. n - 1 \notin T BY <1>3, <1>6
<1>8. PICK g : Offers(g, q, e, n - 1) BY <1>6, <1>7
<1> DEFINE f == [k \in 0 .. n |-> IF k = n THEN Offer(g[n - 1], e[n]) ELSE g[k]]
<1>9. ASSUME NEW k \in 0 .. n PROVE f[k] = IF k = 0 THEN q ELSE Offer(f[k - 1], e[k])
  <2>1. \A j \in 0 .. n - 1 : g[j] = IF j = 0 THEN q ELSE Offer(g[j - 1], e[j])
    BY <1>8 DEF Offers
  <2>2. CASE k = n
    <3>1. n - 1 \in 0 .. n /\ n - 1 # n BY <1>4, <1>5
    <3>2. f[n - 1] = g[n - 1] BY <3>1
    <3> QED BY <1>5, <2>2, <3>2
  <2>3. CASE k # n
    <3>1. k \in 0 .. n - 1 BY <1>4, <2>3
    <3>2. f[k] = g[k] BY <2>3
    <3>3. CASE k = 0 BY <2>1, <3>1, <3>2, <3>3
    <3>4. CASE k # 0
      <4>1. k - 1 \in 0 .. n /\ k - 1 # n BY <1>4, <3>1, <3>4
      <4>2. f[k - 1] = g[k - 1] BY <4>1
      <4> QED BY <2>1, <3>1, <3>2, <3>4, <4>2
    <3> QED BY <3>3, <3>4
  <2> QED BY <2>2, <2>3
<1>10. f = [k \in 0 .. n |-> f[k]] OBVIOUS
<1>11. [k \in 0 .. n |-> f[k]] = [k \in 0 .. n |-> IF k = 0 THEN q ELSE Offer(f[k - 1], e[k])]
  BY <1>9
<1> HIDE DEF f
<1>12. Offers(f, q, e, n) BY <1>10, <1>11 DEF Offers
<1> QED BY <1>4, <1>12

LEMMA OfferedIsLast ==
  ASSUME NEW q, NEW e, Len(e) \in Nat
  PROVE  \E f : Offers(f, q, e, Len(e)) /\ Offered(q, e) = f[Len(e)]
<1> DEFINE g == CHOOSE f : Offers(f, q, e, Len(e))
<1>1. Offers(g, q, e, Len(e)) BY OffersExist
<1>2. Offered(q, e) = g[Len(e)] BY DEF Offered, Offers
<1> QED BY <1>1, <1>2

\* How many of n events a queue has given up.
Over(n) == IF n <= QueueSize THEN 0 ELSE n - QueueSize

\* The queue p holds the youngest of the first n entries of s, in order.
Youngest(p, s, n, S) ==
  /\ p \in Seq(S) /\ Len(p) = n - Over(n)
  /\ \A i \in 1 .. Len(p) : p[i] = s[i + Over(n)]

\* Offering e to q leaves the youngest QueueSize of what was in q and e, in order.
LEMMA OfferedPlaces ==
  ASSUME NEW S, NEW q \in Seq(S), NEW e \in Seq(S), Len(q) <= QueueSize
  PROVE  Youngest(Offered(q, e), q \o e, Len(q) + Len(e), S)
<1> DEFINE s == q \o e
<1>0. QueueSize \in Nat \ {0} /\ Len(q) \in Nat /\ Len(e) \in Nat BY StreamAssumption
<1>1. PICK f : Offers(f, q, e, Len(e)) /\ Offered(q, e) = f[Len(e)]
  BY <1>0, OfferedIsLast
<1>2. \A k \in 0 .. Len(e) : f[k] = IF k = 0 THEN q ELSE Offer(f[k - 1], e[k])
  BY <1>1 DEF Offers
<1>3. /\ Len(s) = Len(q) + Len(e)
      /\ \A i \in 1 .. Len(q) + Len(e) :
           s[i] = IF i <= Len(q) THEN q[i] ELSE e[i - Len(q)]
  BY ConcatPlaces
<1> HIDE DEF s
<1> DEFINE Right(n) == Youngest(f[n], s, Len(q) + n, S)
           T == {n \in 0 .. Len(e) : ~Right(n)}
<1>4. SUFFICES ASSUME T # {} PROVE FALSE
  <2>1. Len(e) \in 0 .. Len(e) BY <1>0
  <2> QED BY <1>1, <2>1 DEF s
<1>5. T \subseteq Nat OBVIOUS
<1>6. PICK n \in T : \A y \in T : n <= y BY <1>4, <1>5, LeastNumber
<1>7. n \in 0 .. Len(e) /\ ~Right(n) OBVIOUS
<1>8. Right(0)
  <2>1. f[0] = q BY <1>0, <1>2
  <2>2. Over(Len(q) + 0) = 0 BY <1>0 DEF Over
  <2> QED BY <1>0, <1>3, <2>1, <2>2 DEF Youngest
<1>9. n - 1 \in 0 .. Len(e) /\ ~(n <= n - 1)
  <2>1. n # 0 BY <1>7, <1>8
  <2> QED BY <1>0, <1>7, <2>1
<1> DEFINE p == f[n - 1]
           m == Len(q) + (n - 1)
           k == Len(q) + n
<1>10. Youngest(p, s, m, S) BY <1>6, <1>9
<1> HIDE DEF T
<1>11. /\ p \in Seq(S) /\ Len(p) = m - Over(m)
       /\ \A i \in 1 .. Len(p) : p[i] = s[i + Over(m)]
  BY <1>10 DEF Youngest
<1>12. f[n] = Offer(p, e[n]) /\ e[n] \in S BY <1>0, <1>2, <1>7, <1>9
<1>13. s[m + 1] = e[n] BY <1>0, <1>3, <1>7, <1>9
<1>14. m \in Nat /\ k \in Nat /\ k = m + 1 BY <1>0, <1>7, <1>9
<1> HIDE DEF p, m, k
<1>15. CASE Len(p) # QueueSize
  <2>1. Over(m) = 0 /\ Over(k) = 0 BY <1>0, <1>11, <1>14, <1>15 DEF Over
  <2>2. f[n] = Append(p, e[n]) BY <1>12, <1>15 DEF Offer
  <2>3. /\ f[n] \in Seq(S) /\ Len(f[n]) = Len(p) + 1
        /\ \A i \in 1 .. Len(p) : f[n][i] = p[i]
        /\ f[n][Len(p) + 1] = e[n]
    BY <1>11, <1>12, <2>2, AppendPlaces
  <2>4. Len(p) = m BY <1>11, <1>14, <2>1
  <2>5. ASSUME NEW i \in 1 .. k PROVE f[n][i] = s[i]
    <3>1. CASE i \in 1 .. m
      <4>1. i + Over(m) = i BY <2>1, <3>1
      <4> QED BY <1>11, <2>3, <2>4, <3>1, <4>1
    <3>2. CASE i = k BY <1>13, <1>14, <2>3, <2>4, <3>2
    <3>3. i \in 1 .. m \/ i = k BY <1>14
    <3> QED BY <3>1, <3>2, <3>3
  <2>6. Len(f[n]) = k /\ Len(f[n]) = k - Over(k) BY <1>14, <2>1, <2>3, <2>4
  <2>7. \A i \in 1 .. Len(f[n]) : f[n][i] = s[i + Over(k)]
    <3> SUFFICES ASSUME NEW i \in 1 .. Len(f[n]) PROVE f[n][i] = s[i + Over(k)]
      OBVIOUS
    <3>1. i \in 1 .. k /\ i + Over(k) = i BY <1>14, <2>1, <2>6
    <3> QED BY <2>5, <3>1
  <2>8. Youngest(f[n], s, k, S) BY <2>3, <2>6, <2>7 DEF Youngest
  <2> QED BY <1>7, <2>8 DEF k
<1>16. CASE Len(p) = QueueSize
  <2>1. Over(k) = Over(m) + 1 /\ Over(m) \in Nat BY <1>0, <1>11, <1>14, <1>16 DEF Over
  <2>2. f[n] = Append(Tail(p), e[n]) BY <1>12, <1>16 DEF Offer
  <2>3. p # <<>> BY <1>0, <1>11, <1>16
  <2>4. /\ Tail(p) \in Seq(S) /\ Len(Tail(p)) = Len(p) - 1
        /\ \A i \in 1 .. Len(p) - 1 : Tail(p)[i] = p[i + 1]
    BY <1>11, <2>3, TailPlaces
  <2>5. /\ f[n] \in Seq(S) /\ Len(f[n]) = Len(Tail(p)) + 1
        /\ \A i \in 1 .. Len(Tail(p)) : f[n][i] = Tail(p)[i]
        /\ f[n][Len(Tail(p)) + 1] = e[n]
    BY <1>12, <2>2, <2>4, AppendPlaces
  <2>6. Len(f[n]) = k - Over(k) BY <1>0, <1>11, <1>14, <1>16, <2>1, <2>4, <2>5
  <2>7. ASSUME NEW i \in 1 .. Len(f[n]) PROVE f[n][i] = s[i + Over(k)]
    <3>1. CASE i <= Len(p) - 1
      <4>1. i + 1 \in 1 .. Len(p) BY <1>0, <1>16, <3>1
      <4>2. f[n][i] = p[i + 1] BY <1>0, <1>16, <2>4, <2>5, <3>1
      <4>3. i + 1 + Over(m) = i + Over(k) BY <2>1
      <4> QED BY <1>11, <4>1, <4>2, <4>3
    <3>2. CASE ~(i <= Len(p) - 1)
      <4>1. i = Len(Tail(p)) + 1 BY <1>0, <1>16, <2>4, <2>5, <3>2
      <4>2. i + Over(k) = k BY <1>0, <1>11, <1>14, <1>16, <2>1, <2>4, <4>1
      <4> QED BY <1>13, <1>14, <2>5, <4>1, <4>2
    <3> QED BY <3>1, <3>2
  <2>8. Youngest(f[n], s, k, S) BY <2>5, <2>6, <2>7 DEF Youngest
  <2> QED BY <1>7, <2>8 DEF k
<1> QED BY <1>15, <1>16

-----------------------------------------------------------------------------
\* What is announced.

\* Every element of a finite set is in the sequence made of it, and nothing else.
LEMMA SetToSeqPlaces ==
  ASSUME NEW S, IsFiniteSet(S)
  PROVE  /\ SetToSeq(S) \in Seq(S)
         /\ \A x \in S : \E i \in 1 .. Len(SetToSeq(S)) : SetToSeq(S)[i] = x
<1> DEFINE n == Cardinality(S)
           f == SetToSeq(S)
<1>1. n \in Nat /\ ExistsBijection(1 .. n, S) BY FS_CardinalityType
<1>2. PICK b \in [1 .. n -> S] : IsInjective(b)
  BY <1>1 DEF ExistsBijection, Bijection, Injection
<1>3. f \in [1 .. n -> S] /\ IsInjective(f) BY <1>2 DEF SetToSeq
<1> HIDE DEF f
<1>4. f \in Injection(1 .. n, S) BY <1>3 DEF Injection
<1>5. Cardinality(1 .. n) = n BY <1>1, FS_Interval
<1> HIDE DEF n
<1>6. f \in Surjection(1 .. n, S) BY <1>4, <1>5, FS_Injection DEF n
<1>7. f \in Seq(S) /\ Len(f) = n BY <1>1, <1>3
<1>8. \A x \in S : \E i \in 1 .. n : f[i] = x BY <1>6 DEF Surjection
<1> QED BY <1>7, <1>8 DEF f

\* The sequence E announces the frames of type t about the addresses A.
Announces(E, t, A) ==
  /\ E \in Seq(Frames)
  /\ \A i \in 1 .. Len(E) : E[i].type = t /\ E[i].key \in A /\ E[i].seq = 0
  /\ \A a \in A : \E i \in 1 .. Len(E) : E[i].key = a

LEMMA FramesAnnounce ==
  ASSUME NEW t \in {"device_found", "device_lost"}, NEW A \in SUBSET Addrs
  PROVE  Announces(SetToSeq({Frame(t, a, 0) : a \in A}), t, A)
<1> DEFINE S == {Frame(t, a, 0) : a \in A}
           E == SetToSeq(S)
           f == [a \in A |-> Frame(t, a, 0)]
<1>1. IsFiniteSet(A) BY StreamAssumption, FS_Subset
<1>2. f \in Surjection(A, S) BY DEF Surjection
<1> HIDE DEF f
<1>3. IsFiniteSet(S) BY <1>1, <1>2, FS_Surjection
<1>4. S \subseteq Frames BY DEF Frame, Frames, Devices
<1>5. \A x \in S : x.type = t /\ x.key \in A /\ x.seq = 0 BY DEF Frame
<1>6. \A a \in A : Frame(t, a, 0) \in S /\ Frame(t, a, 0).key = a BY DEF Frame
<1> HIDE DEF S
<1>7. E \in Seq(S) /\ \A x \in S : \E i \in 1 .. Len(E) : E[i] = x BY <1>3, SetToSeqPlaces
<1> HIDE DEF E
<1>8. \A i \in 1 .. Len(E) : E[i] \in S BY <1>7
<1>9. E \in Seq(Frames) BY <1>4, <1>7
<1>10. Announces(E, t, A) BY <1>5, <1>6, <1>7, <1>8, <1>9 DEF Announces
<1> QED BY <1>10 DEF E, S

LEMMA FoundAnnounced ==
  ASSUME NEW A \in SUBSET Addrs
  PROVE  Announces(SetToSeq({Found(a) : a \in A}), "device_found", A)
BY FramesAnnounce DEF Found

LEMMA LostAnnounced ==
  ASSUME NEW A \in SUBSET Addrs
  PROVE  Announces(SetToSeq({Lost(a) : a \in A}), "device_lost", A)
BY FramesAnnounce DEF Lost

\* A frame keeps what it says when it is stamped.
LEMMA StampedFrame ==
  ASSUME NEW f \in Frames, NEW n \in Nat
  PROVE  LET g == [f EXCEPT !.seq = n]
         IN  g \in Frames /\ g.type = f.type /\ g.key = f.key /\ g.seq = n
<1>1. CASE f \in Devices BY <1>1 DEF Devices, Frames
<1>2. CASE f \in Drivers BY <1>2 DEF Drivers, Frames
<1>3. CASE f \in Notices BY <1>3 DEF Notices, Frames
<1> QED BY <1>1, <1>2, <1>3 DEF Frames

LEMMA StampedPlaces ==
  ASSUME NEW E \in Seq(Frames), seq \in Nat
  PROVE  /\ Stamped(E) \in Seq(Frames) /\ Len(Stamped(E)) = Len(E) /\ Len(E) \in Nat
         /\ \A i \in 1 .. Len(E) :
              /\ Stamped(E)[i].type = E[i].type /\ Stamped(E)[i].key = E[i].key
              /\ Stamped(E)[i].seq = seq + i
<1>1. DOMAIN E = 1 .. Len(E) /\ Len(E) \in Nat OBVIOUS
<1>2. Stamped(E) = [i \in 1 .. Len(E) |-> [E[i] EXCEPT !.seq = seq + i]]
  BY <1>1 DEF Stamped
<1>3. \A i \in 1 .. Len(E) : E[i] \in Frames /\ seq + i \in Nat BY <1>1
<1>4. \A i \in 1 .. Len(E) :
        /\ [E[i] EXCEPT !.seq = seq + i] \in Frames
        /\ [E[i] EXCEPT !.seq = seq + i].type = E[i].type
        /\ [E[i] EXCEPT !.seq = seq + i].key = E[i].key
        /\ [E[i] EXCEPT !.seq = seq + i].seq = seq + i
  BY <1>3, StampedFrame
<1>5. \A i \in 1 .. Len(E) : Stamped(E)[i] = [E[i] EXCEPT !.seq = seq + i] BY <1>2
<1>6. Stamped(E) \in [1 .. Len(E) -> Frames] BY <1>2, <1>4
<1>7. Stamped(E) \in Seq(Frames) /\ Len(Stamped(E)) = Len(E) BY <1>1, <1>6
<1> QED BY <1>1, <1>4, <1>5, <1>7

-----------------------------------------------------------------------------
\* Publishing, seen from the queue.

LEMMA PublishType ==
  ASSUME TypeOK, NEW E \in Seq(Frames), Publish(E)
  PROVE  /\ seq' = seq + Len(E) /\ Len(E) \in Nat /\ dropped' \in BOOLEAN
         /\ queue' \in Seq(Frames) /\ Len(queue') <= QueueSize
         /\ phase = "down" => queue' = queue
         /\ dropped => dropped'
<1> DEFINE e == Stamped(E)
           r == Offered(queue, e)
           n == Len(queue) + Len(e)
<1>0. QueueSize \in Nat \ {0} /\ Len(queue) \in Nat BY StreamAssumption DEF TypeOK
<1>1. e \in Seq(Frames) /\ Len(e) = Len(E) /\ Len(e) \in Nat BY StampedPlaces DEF TypeOK
<1> HIDE DEF e
<1>2. Youngest(r, queue \o e, n, Frames) BY <1>1, OfferedPlaces DEF TypeOK
<1>3. n \in Nat BY <1>0, <1>1
<1>4. queue' = IF phase = "down" THEN queue ELSE r BY DEF Publish, e
<1> HIDE DEF r, n
<1>5. r \in Seq(Frames) /\ Len(r) = n - Over(n) BY <1>2 DEF Youngest
<1>6. Len(r) <= QueueSize BY <1>0, <1>3, <1>5 DEF Over
<1> QED BY <1>1, <1>4, <1>5, <1>6 DEF TypeOK, Publish

\* The connection's queue is then the youngest of what was in it and the new events, d of
\* the oldest being given up; none are while dropped stays false.
LEMMA PublishPlaces ==
  ASSUME TypeOK, NEW E \in Seq(Frames), Publish(E), phase # "down"
  PROVE  \E d \in Nat :
           /\ Len(queue') = Len(queue) + Len(E) - d
           /\ \A i \in 1 .. Len(queue') :
                queue'[i] = IF i + d <= Len(queue) THEN queue[i + d]
                                                   ELSE Stamped(E)[i + d - Len(queue)]
           /\ Len(E) > 0 => Len(queue') > 0
           /\ ~dropped' \/ Len(E) = 0 => d = 0
<1> DEFINE e == Stamped(E)
           s == queue \o e
           n == Len(queue) + Len(e)
<1>0. QueueSize \in Nat \ {0} /\ Len(queue) \in Nat BY StreamAssumption DEF TypeOK
<1>1. e \in Seq(Frames) /\ Len(e) = Len(E) /\ Len(e) \in Nat BY StampedPlaces DEF TypeOK
<1>2. queue' = Offered(queue, e) BY DEF Publish
<1>3. ~dropped' => ~(Len(queue) + Len(E) > QueueSize) BY DEF Publish
<1> HIDE DEF e
<1>4. Youngest(queue', s, n, Frames) BY <1>1, <1>2, OfferedPlaces DEF TypeOK
<1>5. \A i \in 1 .. n : s[i] = IF i <= Len(queue) THEN queue[i] ELSE e[i - Len(queue)]
  BY <1>1, ConcatPlaces DEF TypeOK
<1>6. n \in Nat /\ n = Len(queue) + Len(E) BY <1>0, <1>1
<1> HIDE DEF s, n
<1> DEFINE d == Over(n)
<1>7. /\ d \in Nat /\ d <= n
      /\ Len(E) > 0 => n - d > 0
      /\ n <= QueueSize => d = 0
  <2>1. QueueSize \in Nat /\ QueueSize > 0 /\ Len(E) \in Nat BY <1>0, <1>1
  <2>2. CASE n <= QueueSize
    <3>1. d = 0 BY <2>2 DEF Over
    <3> QED BY <1>0, <1>6, <2>1, <3>1
  <2>3. CASE ~(n <= QueueSize)
    <3>1. d = n - QueueSize BY <2>3 DEF Over
    <3> HIDE DEF d
    <3> QED BY <1>6, <2>1, <2>3, <3>1
  <2> QED BY <2>2, <2>3
<1>11. ~dropped' => n <= QueueSize
  <2>1. ~(n > QueueSize) => n <= QueueSize BY <1>0, <1>6
  <2> QED BY <1>3, <1>6, <2>1
<1> HIDE DEF d
<1>8. Len(queue') = n - d /\ \A i \in 1 .. Len(queue') : queue'[i] = s[i + d]
  BY <1>4 DEF Youngest, d
<1>9. ASSUME NEW i \in 1 .. Len(queue')
      PROVE  queue'[i] = IF i + d <= Len(queue) THEN queue[i + d] ELSE e[i + d - Len(queue)]
  <2>1. i + d \in 1 .. n BY <1>6, <1>7, <1>8
  <2> DEFINE k == i + d
  <2>2. queue'[i] = s[k] /\ k \in 1 .. n BY <1>8, <2>1
  <2> HIDE DEF k
  <2>3. queue'[i] = IF k <= Len(queue) THEN queue[k] ELSE e[k - Len(queue)] BY <1>5, <2>2
  <2> QED BY <1>0, <1>7, <2>1, <2>3 DEF k
<1>10. /\ Len(queue') = Len(queue) + Len(E) - d
       /\ Len(E) > 0 => Len(queue') > 0
  BY <1>6, <1>7, <1>8
<1>12. Len(E) = 0 => n <= QueueSize BY <1>0, <1>6 DEF TypeOK
<1> QED BY <1>7, <1>9, <1>10, <1>11, <1>12 DEF e

-----------------------------------------------------------------------------
\* How a step changes the frames on their way, P becoming T.

\* e is appended, and d frames behind the first w are given up.
Published(T, P, e, w, d) ==
  /\ Len(T) = Len(P) + Len(e) - d /\ w <= Len(T) /\ w <= Len(P)
  /\ \A i \in 1 .. Len(T) :
       LET k == IF i <= w THEN i ELSE i + d
       IN  T[i] = IF k <= Len(P) THEN P[k] ELSE e[k - Len(P)]

\* e is put behind the first w.
Inserted(T, P, e, w) ==
  /\ Len(T) = Len(P) + Len(e) /\ w <= Len(P)
  /\ \A i \in 1 .. Len(T) :
       T[i] = IF i <= w THEN P[i] ELSE IF i <= w + Len(e) THEN e[i - w] ELSE P[i - Len(e)]

\* The first is taken.
Taken(T, P) ==
  /\ Len(P) > 0 /\ Len(T) = Len(P) - 1
  /\ \A i \in 1 .. Len(T) : T[i] = P[i + 1]

LEMMA PendingType ==
  ASSUME TypeOK
  PROVE  /\ Pending \in Seq(Frames) /\ Len(Pending) = Len(wire) + Len(queue)
         /\ Len(wire) \in Nat /\ Len(queue) \in Nat
         /\ \A i \in 1 .. Len(Pending) :
              Pending[i] = IF i <= Len(wire) THEN wire[i] ELSE queue[i - Len(wire)]
BY ConcatPlaces DEF Pending, TypeOK

LEMMA PublishPending ==
  ASSUME TypeOK, TypeOK', NEW E \in Seq(Frames), Publish(E), phase # "down", UNCHANGED wire
  PROVE  \E d \in Nat :
           /\ Published(Pending', Pending, Stamped(E), Len(wire), d)
           /\ Len(E) > 0 => Len(Pending') > Len(wire)
           /\ ~dropped' \/ Len(E) = 0 => d = 0
<1> DEFINE e == Stamped(E)
<1>1. e \in Seq(Frames) /\ Len(e) = Len(E) /\ Len(e) \in Nat BY StampedPlaces DEF TypeOK
<1>2. PICK d \in Nat :
        /\ Len(queue') = Len(queue) + Len(E) - d
        /\ \A i \in 1 .. Len(queue') :
             queue'[i] = IF i + d <= Len(queue) THEN queue[i + d] ELSE e[i + d - Len(queue)]
        /\ Len(E) > 0 => Len(queue') > 0
        /\ ~dropped' \/ Len(E) = 0 => d = 0
  BY PublishPlaces
<1> HIDE DEF e
<1>3. /\ Len(Pending) = Len(wire) + Len(queue)
      /\ Len(wire) \in Nat /\ Len(queue) \in Nat
      /\ \A i \in 1 .. Len(Pending) :
           Pending[i] = IF i <= Len(wire) THEN wire[i] ELSE queue[i - Len(wire)]
  BY PendingType
<1>4. /\ Len(Pending') = Len(wire) + Len(queue') /\ Len(queue') \in Nat
      /\ \A i \in 1 .. Len(Pending') :
           Pending'[i] = IF i <= Len(wire) THEN wire[i] ELSE queue'[i - Len(wire)]
  BY ConcatPlaces DEF Pending, TypeOK
<1>5. ASSUME NEW i \in 1 .. Len(Pending')
      PROVE  LET k == IF i <= Len(wire) THEN i ELSE i + d
             IN  Pending'[i] = IF k <= Len(Pending) THEN Pending[k] ELSE e[k - Len(Pending)]
  <2>1. CASE i <= Len(wire)
    <3>1. Pending'[i] = wire[i] /\ Pending[i] = wire[i] /\ i <= Len(Pending)
      BY <1>3, <1>4, <2>1
    <3> QED BY <2>1, <3>1
  <2>2. CASE ~(i <= Len(wire))
    <3> DEFINE j == i - Len(wire)
    <3>1. j \in 1 .. Len(queue') /\ Pending'[i] = queue'[j] BY <1>3, <1>4, <2>2, SMTT(30)
    <3>2. Pending'[i] = IF j + d <= Len(queue) THEN queue[j + d] ELSE e[j + d - Len(queue)]
      BY <1>2, <3>1
    <3>3. /\ j + d <= Len(queue) <=> i + d <= Len(Pending)
          /\ j + d - Len(queue) = i + d - Len(Pending)
      BY <1>3
    <3>4. CASE i + d <= Len(Pending)
      <4>1. i + d \in 1 .. Len(Pending) /\ ~(i + d <= Len(wire)) /\ i + d - Len(wire) = j + d
        BY <1>3, <2>2, <3>4
      <4>2. Pending[i + d] = queue[j + d] BY <1>3, <4>1
      <4> QED BY <2>2, <3>2, <3>3, <3>4, <4>2
    <3> HIDE DEF j
    <3>5. CASE ~(i + d <= Len(Pending))
      <4>1. Pending'[i] = e[j + d - Len(queue)] BY <3>2, <3>3, <3>5
      <4>2. Pending'[i] = e[i + d - Len(Pending)] BY <3>3, <4>1
      <4> QED BY <2>2, <3>5, <4>2
    <3> QED BY <3>4, <3>5
  <2> QED BY <2>1, <2>2
<1>6. /\ Len(Pending') = Len(Pending) + Len(e) - d
      /\ Len(wire) <= Len(Pending) /\ Len(wire) <= Len(Pending')
      /\ Len(E) > 0 => Len(Pending') > Len(wire)
  BY <1>1, <1>2, <1>3, <1>4
<1>7. Published(Pending', Pending, e, Len(wire), d) BY <1>5, <1>6 DEF Published
<1> QED BY <1>2, <1>6, <1>7 DEF e

LEMMA InsertPending ==
  ASSUME TypeOK, TypeOK', NEW e \in Seq(Frames), wire' = wire \o e, UNCHANGED queue
  PROVE  Inserted(Pending', Pending, e, Len(wire))
<1>1. /\ Len(Pending) = Len(wire) + Len(queue)
      /\ Len(wire) \in Nat /\ Len(queue) \in Nat
      /\ \A i \in 1 .. Len(Pending) :
           Pending[i] = IF i <= Len(wire) THEN wire[i] ELSE queue[i - Len(wire)]
  BY PendingType
<1>2. /\ Len(wire') = Len(wire) + Len(e) /\ Len(e) \in Nat
      /\ \A i \in 1 .. Len(wire) + Len(e) : wire'[i] = IF i <= Len(wire) THEN wire[i] ELSE e[i - Len(wire)]
  BY ConcatPlaces DEF TypeOK
<1>3. /\ Len(Pending') = Len(wire') + Len(queue)
      /\ \A i \in 1 .. Len(Pending') :
           Pending'[i] = IF i <= Len(wire') THEN wire'[i] ELSE queue[i - Len(wire')]
  BY ConcatPlaces DEF Pending, TypeOK
<1>4. ASSUME NEW i \in 1 .. Len(Pending')
      PROVE  Pending'[i] = IF i <= Len(wire) THEN Pending[i]
                           ELSE IF i <= Len(wire) + Len(e) THEN e[i - Len(wire)]
                           ELSE Pending[i - Len(e)]
  <2>1. CASE i <= Len(wire)
    <3>1. i \in 1 .. Len(wire) /\ i <= Len(wire') /\ i \in 1 .. Len(Pending)
      BY <1>1, <1>2, <1>3, <2>1
    <3>2. Pending'[i] = wire'[i] /\ wire'[i] = wire[i] /\ Pending[i] = wire[i]
      BY <1>1, <1>2, <1>3, <3>1
    <3> QED BY <2>1, <3>2
  <2>2. CASE ~(i <= Len(wire)) /\ i <= Len(wire) + Len(e)
    <3>1. i <= Len(wire') /\ i \in 1 .. Len(wire) + Len(e) BY <1>1, <1>2, <1>3, <2>2
    <3>2. Pending'[i] = wire'[i] /\ wire'[i] = e[i - Len(wire)] BY <1>2, <1>3, <2>2, <3>1
    <3> QED BY <2>2, <3>2
  <2>3. CASE ~(i <= Len(wire) + Len(e))
    <3>1. Pending'[i] = queue[i - Len(wire')] BY <1>1, <1>2, <1>3, <2>3
    <3>2. /\ i - Len(e) \in 1 .. Len(Pending) /\ ~(i - Len(e) <= Len(wire))
          /\ (i - Len(e)) - Len(wire) = i - Len(wire')
      BY <1>1, <1>2, <1>3, <2>3
    <3>3. Pending[i - Len(e)] = queue[i - Len(wire')] BY <1>1, <3>2
    <3> QED BY <1>1, <1>2, <2>3, <3>1, <3>3
  <2> QED BY <2>1, <2>2, <2>3
<1>5. Len(Pending') = Len(Pending) + Len(e) /\ Len(wire) <= Len(Pending) BY <1>1, <1>2, <1>3
<1> QED BY <1>4, <1>5 DEF Inserted

LEMMA TakePending ==
  ASSUME TypeOK, TypeOK', wire # <<>>, wire' = Tail(wire), UNCHANGED queue
  PROVE  Taken(Pending', Pending) /\ Head(wire) = Pending[1] /\ Pending[1] \in Frames
<1>1. /\ Len(Pending) = Len(wire) + Len(queue)
      /\ Len(wire) \in Nat /\ Len(queue) \in Nat
      /\ \A i \in 1 .. Len(Pending) :
           Pending[i] = IF i <= Len(wire) THEN wire[i] ELSE queue[i - Len(wire)]
  BY PendingType
<1>2. /\ Len(wire') = Len(wire) - 1 /\ Len(wire) > 0 /\ Head(wire) = wire[1] /\ Head(wire) \in Frames
      /\ \A i \in 1 .. Len(wire) - 1 : wire'[i] = wire[i + 1]
  BY TailPlaces DEF TypeOK
<1>3. /\ Len(Pending') = Len(wire') + Len(queue)
      /\ \A i \in 1 .. Len(Pending') :
           Pending'[i] = IF i <= Len(wire') THEN wire'[i] ELSE queue[i - Len(wire')]
  BY ConcatPlaces DEF Pending, TypeOK
<1>4. ASSUME NEW i \in 1 .. Len(Pending') PROVE Pending'[i] = Pending[i + 1]
  <2>1. i + 1 \in 1 .. Len(Pending) BY <1>1, <1>2, <1>3
  <2>2. CASE i <= Len(wire') BY <1>1, <1>2, <1>3, <2>1, <2>2
  <2>3. CASE ~(i <= Len(wire'))
    <3>1. ~(i + 1 <= Len(wire)) /\ (i + 1) - Len(wire) = i - Len(wire') BY <1>1, <1>2, <2>3
    <3> QED BY <1>1, <1>3, <2>1, <2>3, <3>1
  <2> QED BY <2>2, <2>3
<1>5. Len(Pending') = Len(Pending) - 1 /\ Len(Pending) > 0 /\ Pending[1] = wire[1]
  BY <1>1, <1>2, <1>3
<1> QED BY <1>2, <1>4, <1>5 DEF Taken

LEMMA ForwardPending ==
  ASSUME TypeOK, queue # <<>>, wire' = Append(wire, Head(queue)), queue' = Tail(queue)
  PROVE  Pending' = Pending
<1>1. /\ Tail(queue) \in Seq(Frames) /\ Head(queue) \in Frames
      /\ queue = <<Head(queue)>> \o Tail(queue)
  BY DEF TypeOK
<1>2. Append(wire, Head(queue)) = wire \o <<Head(queue)>> BY <1>1 DEF TypeOK
<1>3. (wire \o <<Head(queue)>>) \o Tail(queue) = wire \o (<<Head(queue)>> \o Tail(queue))
  <2>1. <<Head(queue)>> \in Seq(Frames) BY <1>1
  <2> QED BY <1>1, <2>1, ConcatAssociative DEF TypeOK
<1> QED BY <1>1, <1>2, <1>3 DEF Pending

-----------------------------------------------------------------------------
\* The numbers of the frames P on their way, when n was the last number stamped and r
\* the last one received.

Ordered(P) ==
  \A i, j \in 1 .. Len(P) : (i < j /\ P[i].seq > 0) => P[i].seq < P[j].seq

Newest(P, r, n) == r = n \/ (Len(P) > 0 /\ P[Len(P)].seq = n)

Numbered(P, r, n) ==
  \A i \in 1 .. Len(P) : P[i].seq \in Nat /\ (P[i].seq = 0 \/ (r < P[i].seq /\ P[i].seq <= n))

Whole(P, r, n) == \A m \in r + 1 .. n : \E i \in 1 .. Len(P) : P[i].seq = m

LEMMA FrameSeq ==
  ASSUME NEW f \in Frames
  PROVE  f.seq \in Nat
BY DEF Frames, Devices, Drivers, Notices

LEMMA NumbersOf ==
  ASSUME NEW P \in Seq(Frames), NEW r \in Nat, NEW n \in Nat
  PROVE  /\ (\A i \in DOMAIN P : P[i].seq \in {0} \cup (r + 1 .. n)) <=> Numbered(P, r, n)
         /\ Numbered(P, r, n) =>
              (({P[i].seq : i \in DOMAIN P} \ {0} = r + 1 .. n) <=> Whole(P, r, n))
<1>1. DOMAIN P = 1 .. Len(P) /\ \A i \in 1 .. Len(P) : P[i].seq \in Nat BY FrameSeq
<1>2. ASSUME NEW m \in Nat
      PROVE  m \in {0} \cup (r + 1 .. n) <=> m = 0 \/ (r < m /\ m <= n)
  OBVIOUS
<1>3. (\A i \in DOMAIN P : P[i].seq \in {0} \cup (r + 1 .. n)) <=> Numbered(P, r, n)
  BY <1>1, <1>2 DEF Numbered
<1>4. 0 \notin r + 1 .. n OBVIOUS
<1>5. ASSUME Numbered(P, r, n)
      PROVE  ({P[i].seq : i \in DOMAIN P} \ {0} = r + 1 .. n) <=> Whole(P, r, n)
  BY <1>1, <1>3, <1>4, <1>5, Zenon DEF Whole
<1> QED BY <1>3, <1>5

LEMMA IntactNow ==
  ASSUME TypeOK, phase # "down"
  PROVE  StreamIntact /\ NumbersKnown <=>
           /\ Ordered(Pending) /\ Newest(Pending, received, seq)
           /\ Numbered(Pending, received, seq)
           /\ ~dropped => Whole(Pending, received, seq)
<1>1. /\ Pending \in Seq(Frames) /\ DOMAIN Pending = 1 .. Len(Pending)
      /\ Pending # <<>> <=> Len(Pending) > 0
      /\ Last(Pending) = Pending[Len(Pending)]
  BY PendingType DEF Last
<1>2. received \in Nat /\ seq \in Nat BY DEF TypeOK
<1> QED BY <1>1, <1>2, NumbersOf, Zenon DEF StreamIntact, NumbersKnown, Ordered, Newest

LEMMA IntactNext ==
  ASSUME TypeOK', phase' # "down"
  PROVE  StreamIntact' /\ NumbersKnown' <=>
           /\ Ordered(Pending') /\ Newest(Pending', received', seq')
           /\ Numbered(Pending', received', seq')
           /\ ~dropped' => Whole(Pending', received', seq')
<1>1. /\ Pending' \in Seq(Frames) /\ DOMAIN Pending' = 1 .. Len(Pending')
      /\ Pending' # <<>> <=> Len(Pending') > 0
      /\ Last(Pending') = Pending'[Len(Pending')]
  BY ConcatPlaces DEF Last, Pending, TypeOK
<1>2. received' \in Nat /\ seq' \in Nat BY DEF TypeOK
<1> QED BY <1>1, <1>2, NumbersOf, Zenon DEF StreamIntact, NumbersKnown, Ordered, Newest

\* New numbers follow on, and those that are given up are among the oldest of the queue.
LEMMA PublishedNumbers ==
  ASSUME NEW P \in Seq(Frames), NEW T \in Seq(Frames), NEW e \in Seq(Frames),
         NEW w \in Nat, NEW d \in Nat, NEW r \in Nat, NEW n \in Nat, r <= n,
         Published(T, P, e, w, d), Len(e) > 0 => Len(T) > w, Len(e) = 0 => d = 0,
         \A i \in 1 .. Len(e) : e[i].seq = n + i,
         Ordered(P), Newest(P, r, n), Numbered(P, r, n)
  PROVE  /\ Ordered(T) /\ Newest(T, r, n + Len(e)) /\ Numbered(T, r, n + Len(e))
         /\ d = 0 /\ Whole(P, r, n) => Whole(T, r, n + Len(e))
<1> DEFINE k(i) == IF i <= w THEN i ELSE i + d
           u(j) == IF j <= Len(P) THEN P[j].seq ELSE n + (j - Len(P))
           l == Len(P)
           m == Len(e)
<1>1. /\ l \in Nat /\ m \in Nat /\ Len(T) \in Nat
      /\ Len(T) = l + m - d /\ w <= Len(T) /\ w <= l
  BY DEF Published
<1>2. ASSUME NEW i \in 1 .. Len(T)
      PROVE  k(i) \in 1 .. l + m /\ (k(i) <= l \/ k(i) - l \in 1 .. m)
  <2>1. i \in Nat /\ d \in Nat /\ w \in Nat BY <1>1
  <2> HIDE DEF l, m
  <2>2. k(i) \in 1 .. l + m
    <3>1. CASE i <= w BY <1>1, <2>1, <3>1
    <3>2. CASE ~(i <= w) BY <1>1, <2>1, <3>2
    <3> QED BY <3>1, <3>2
  <2>3. \A x \in 1 .. l + m : x <= l \/ x - l \in 1 .. m BY <1>1
  <2> QED BY <2>2, <2>3, Zenon
<1>3. ASSUME NEW i \in 1 .. Len(T) PROVE T[i].seq = u(k(i))
  <2>1. T[i] = IF k(i) <= l THEN P[k(i)] ELSE e[k(i) - l] BY DEF Published
  <2> QED BY <1>2, <2>1
<1>4. \A i, j \in 1 .. Len(T) : i < j => k(i) < k(j) BY <1>1
<1>5. ASSUME NEW j \in 1 .. l + m
      PROVE  u(j) \in Nat /\ (u(j) = 0 \/ (r < u(j) /\ u(j) <= n + m)) /\ (j > l => u(j) > n)
  <2>1. CASE j <= l
    <3> DEFINE x == P[j].seq
    <3>0. j \in 1 .. Len(P) /\ ~(j > l) BY <1>1, <2>1
    <3>1. x \in Nat /\ (x = 0 \/ (r < x /\ x <= n)) BY <3>0 DEF Numbered
    <3>2. u(j) = x BY <2>1
    <3> HIDE DEF x, l, m
    <3>3. x = 0 \/ (r < x /\ x <= n + m) BY <1>1, <3>1
    <3> QED BY <3>0, <3>1, <3>2, <3>3, Zenon
  <2>2. CASE j > l
    <3>1. u(j) = n + (j - l) BY <1>1, <2>2
    <3> HIDE DEF l, m
    <3> DEFINE x == n + (j - l)
    <3>2. x \in Nat /\ r < x /\ x <= n + m /\ x > n BY <1>1, <2>2
    <3> QED BY <3>1, <3>2, Zenon
  <2> QED BY <1>1, <2>1, <2>2
<1>6. ASSUME NEW i \in 1 .. l + m, NEW j \in 1 .. l + m, i < j, u(i) > 0
      PROVE  u(i) < u(j)
  <2>1. CASE j <= l
    <3>1. i \in 1 .. l /\ j \in 1 .. l BY <1>1, <1>6, <2>1
    <3>2. P[i].seq > 0 => P[i].seq < P[j].seq BY <1>6, <3>1 DEF Ordered
    <3> QED BY <1>6, <3>1, <3>2
  <2>2. CASE j > l /\ i <= l
    <3> DEFINE x == P[i].seq
    <3>1. i \in 1 .. Len(P) BY <1>1, <2>2
    <3>2. x \in Nat /\ (x = 0 \/ (r < x /\ x <= n)) BY <3>1 DEF Numbered
    <3>3. u(i) = x /\ u(j) = n + (j - l) BY <1>1, <2>2
    <3> HIDE DEF x, u, l
    <3>4. x <= n /\ x < n + (j - l) BY <1>1, <2>2, <3>2
    <3> QED BY <3>3, <3>4
  <2>3. CASE j > l /\ i > l BY <1>1, <1>6, <2>3
  <2> QED BY <1>1, <2>1, <2>2, <2>3
<1>7. ASSUME m > 0 PROVE Len(T) \in 1 .. Len(T) /\ T[Len(T)].seq = n + m
  <2>1. Len(T) \in 1 .. Len(T) /\ k(Len(T)) = l + m BY <1>1, <1>7
  <2>2. T[Len(T)].seq = u(l + m) BY <1>3, <2>1
  <2>3. u(l + m) = n + m BY <1>1, <1>7
  <2> QED BY <2>1, <2>2, <2>3
<1>8. ASSUME d = 0, NEW j \in 1 .. l + m PROVE j \in 1 .. Len(T) /\ T[j].seq = u(j)
  <2>1. j \in 1 .. Len(T) /\ k(j) = j BY <1>1, <1>8
  <2> QED BY <1>3, <2>1
<1> HIDE DEF k
<1>9. Ordered(T)
  <2> SUFFICES ASSUME NEW i \in 1 .. Len(T), NEW j \in 1 .. Len(T), i < j, T[i].seq > 0
               PROVE  T[i].seq < T[j].seq
    BY DEF Ordered
  <2>1. k(i) \in 1 .. l + m /\ k(j) \in 1 .. l + m /\ k(i) < k(j) BY <1>2, <1>4
  <2> HIDE DEF u, l, m
  <2>2. u(k(i)) > 0 => u(k(i)) < u(k(j)) BY <1>6, <2>1
  <2> QED BY <1>3, <2>2
<1>10. Newest(T, r, n + m)
  <2>1. CASE m > 0 BY <1>1, <1>7, <2>1 DEF Newest
  <2>2. CASE m = 0
    <3>1. d = 0 /\ Len(T) = l /\ n + m = n BY <1>1, <2>2
    <3>2. CASE r = n BY <3>1, <3>2 DEF Newest
    <3>3. CASE Len(P) > 0 /\ P[Len(P)].seq = n
      <4>1. l \in 1 .. l + m /\ u(l) = n BY <1>1, <3>3
      <4>2. T[l].seq = n BY <1>8, <3>1, <4>1
      <4> QED BY <3>1, <3>3, <4>2 DEF Newest
    <3> QED BY <3>2, <3>3 DEF Newest
  <2> QED BY <1>1, <2>1, <2>2
<1>11. Numbered(T, r, n + m) BY <1>2, <1>3, <1>5, Zenon DEF Numbered
<1>12. ASSUME d = 0, Whole(P, r, n), NEW x \in r + 1 .. n + m
       PROVE  \E i \in 1 .. Len(T) : T[i].seq = x
  <2>1. CASE x <= n
    <3>1. x \in r + 1 .. n BY <2>1
    <3>2. PICK i \in 1 .. l : P[i].seq = x BY <1>12, <3>1 DEF Whole
    <3>3. i \in 1 .. l + m /\ u(i) = x BY <1>1, <3>2
    <3> QED BY <1>8, <1>12, <3>3
  <2>2. CASE x > n
    <3>1. l + (x - n) \in 1 .. l + m /\ u(l + (x - n)) = x BY <1>1, <2>2
    <3> QED BY <1>8, <1>12, <3>1
  <2> QED BY <2>1, <2>2
<1> QED BY <1>9, <1>10, <1>11, <1>12 DEF Whole

\* What is put between frames without numbers and the others has no number either.
LEMMA InsertedNumbers ==
  ASSUME NEW P \in Seq(Frames), NEW T \in Seq(Frames), NEW e \in Seq(Frames),
         NEW w \in Nat, NEW r \in Nat, NEW n \in Nat, r <= n, Inserted(T, P, e, w),
         \A i \in 1 .. Len(e) : e[i].seq = 0, \A i \in 1 .. w : P[i].seq = 0,
         Ordered(P), Newest(P, r, n), Numbered(P, r, n)
  PROVE  /\ Ordered(T) /\ Newest(T, r, n) /\ Numbered(T, r, n)
         /\ Whole(P, r, n) => Whole(T, r, n)
<1> DEFINE l == Len(P)
           m == Len(e)
           t == Len(T)
<1>1. l \in Nat /\ m \in Nat /\ t \in Nat /\ t = l + m /\ w <= l BY DEF Inserted
<1>2. ASSUME NEW i \in 1 .. t, i <= w + m PROVE T[i].seq = 0
  <2>1. CASE i <= w
    <3>1. T[i] = P[i] /\ i \in 1 .. w BY <1>1, <2>1 DEF Inserted
    <3> QED BY <3>1
  <2>2. CASE ~(i <= w)
    <3>1. T[i] = e[i - w] /\ i - w \in 1 .. m BY <1>1, <1>2, <2>2 DEF Inserted
    <3> QED BY <3>1
  <2> QED BY <2>1, <2>2
<1>3. ASSUME NEW i \in 1 .. t, ~(i <= w + m)
      PROVE  T[i] = P[i - m] /\ i - m \in 1 .. l /\ ~(i - m <= w)
  <2>1. ~(i <= w) BY <1>1, <1>3
  <2> QED BY <1>1, <1>3, <2>1 DEF Inserted
<1> HIDE DEF l, m, t
<1>4. Ordered(T)
  <2> SUFFICES ASSUME NEW i \in 1 .. t, NEW j \in 1 .. t, i < j, T[i].seq > 0
               PROVE  T[i].seq < T[j].seq
    BY DEF Ordered, t
  <2>1. ~(i <= w + m) BY <1>2
  <2>2. ~(j <= w + m) BY <1>1, <2>1
  <2>3. /\ T[i] = P[i - m] /\ i - m \in 1 .. Len(P)
        /\ T[j] = P[j - m] /\ j - m \in 1 .. Len(P)
    BY <1>3, <2>1, <2>2 DEF l
  <2>4. i - m < j - m BY <1>1
  <2> DEFINE x == i - m
             y == j - m
  <2>5. x \in 1 .. Len(P) /\ y \in 1 .. Len(P) /\ x < y /\ P[x].seq > 0 BY <2>3, <2>4
  <2>6. T[i] = P[x] /\ T[j] = P[y] BY <2>3
  <2> HIDE DEF x, y
  <2>7. P[x].seq < P[y].seq BY <2>5 DEF Ordered
  <2> QED BY <2>6, <2>7
<1>5. Newest(T, r, n)
  <2>1. CASE r = n BY <2>1 DEF Newest
  <2>2. CASE Len(P) > 0 /\ P[Len(P)].seq = n
    <3>1. CASE l = w
      <4>1. l \in 1 .. w /\ P[l].seq = n BY <1>1, <2>2, <3>1 DEF l
      <4>2. n = 0 BY <4>1
      <4> QED BY <4>2 DEF Newest
    <3>2. CASE l # w
      <4>1. t \in 1 .. t /\ ~(t <= w + m) /\ t - m = l BY <1>1, <2>2, <3>2 DEF l
      <4>2. T[t] = P[l] BY <1>3, <4>1
      <4> QED BY <1>1, <2>2, <4>1, <4>2 DEF Newest, l, t
    <3> QED BY <3>1, <3>2
  <2> QED BY <2>1, <2>2 DEF Newest
<1>6. Numbered(T, r, n)
  <2> SUFFICES ASSUME NEW i \in 1 .. t
               PROVE  T[i].seq \in Nat /\ (T[i].seq = 0 \/ (r < T[i].seq /\ T[i].seq <= n))
    BY DEF Numbered, t
  <2>1. CASE i <= w + m BY <1>2, <2>1
  <2>2. CASE ~(i <= w + m)
    <3>1. T[i] = P[i - m] /\ i - m \in 1 .. Len(P) BY <1>3, <2>2 DEF l
    <3> QED BY <3>1 DEF Numbered
  <2> QED BY <2>1, <2>2
<1>7. ASSUME Whole(P, r, n), NEW x \in r + 1 .. n
      PROVE  \E i \in 1 .. t : T[i].seq = x
  <2>1. PICK j \in 1 .. l : P[j].seq = x BY <1>7 DEF Whole, l
  <2>2. x # 0 OBVIOUS
  <2>3. ~(j <= w)
    <3>1. j <= w => j \in 1 .. w BY <2>1
    <3> QED BY <2>1, <2>2, <3>1
  <2> DEFINE i == j + m
  <2>4. i \in 1 .. t /\ ~(i <= w + m) /\ i - m = j BY <1>1, <2>1, <2>3
  <2> HIDE DEF i
  <2>5. T[i] = P[j] BY <1>3, <2>4
  <2> QED BY <2>1, <2>4, <2>5
<1> QED BY <1>4, <1>5, <1>6, <1>7 DEF Whole, t

\* The frame that is received has the least number of those that have one.
LEMMA TakenNumbers ==
  ASSUME NEW P \in Seq(Frames), NEW T \in Seq(Frames), NEW r \in Nat, NEW n \in Nat, r <= n,
         NEW q, q = (IF P[1].seq > 0 THEN P[1].seq ELSE r),
         Taken(T, P), Ordered(P), Newest(P, r, n), Numbered(P, r, n)
  PROVE  /\ Ordered(T) /\ Newest(T, q, n) /\ Numbered(T, q, n) /\ q \in 0 .. n
         /\ Whole(P, r, n) => Whole(T, q, n)
<1> DEFINE l == Len(P)
           t == Len(T)
           h == P[1].seq
<1>1. l \in Nat /\ t \in Nat /\ t = l - 1 /\ 1 \in 1 .. l BY DEF Taken
<1>2. h \in Nat /\ (h = 0 \/ (r < h /\ h <= n)) BY <1>1 DEF Numbered
<1>3. ASSUME NEW i \in 1 .. t
      PROVE  T[i] = P[i + 1] /\ i + 1 \in 1 .. l /\ 1 < i + 1
  BY <1>1 DEF Taken
<1>4. q = (IF h > 0 THEN h ELSE r) OBVIOUS
<1> HIDE DEF h
<1>5. q \in 0 .. n /\ r <= q /\ h <= q BY <1>2, <1>4
<1> HIDE DEF l, t
<1>6. Ordered(T)
  <2> SUFFICES ASSUME NEW i \in 1 .. t, NEW j \in 1 .. t, i < j, T[i].seq > 0
               PROVE  T[i].seq < T[j].seq
    BY DEF Ordered, t
  <2> DEFINE x == i + 1
             y == j + 1
  <2>1. T[i] = P[x] /\ T[j] = P[y] /\ x \in 1 .. Len(P) /\ y \in 1 .. Len(P) /\ x < y
    BY <1>1, <1>3 DEF l
  <2> HIDE DEF x, y
  <2> QED BY <2>1 DEF Ordered
<1>7. Newest(T, q, n)
  <2>1. CASE r = n BY <1>2, <1>4, <2>1 DEF Newest
  <2>2. CASE Len(P) > 0 /\ P[Len(P)].seq = n
    <3>1. CASE l = 1
      <4>1. h = n BY <2>2, <3>1 DEF h, l
      <4>2. q = n BY <1>2, <1>4, <4>1
      <4> QED BY <4>2 DEF Newest
    <3>2. CASE l # 1
      <4>1. t \in 1 .. t /\ t + 1 = l BY <1>1, <3>2
      <4>2. T[t] = P[l] BY <1>3, <4>1
      <4> QED BY <1>1, <2>2, <4>1, <4>2 DEF Newest, l, t
    <3> QED BY <3>1, <3>2
  <2> QED BY <2>1, <2>2 DEF Newest
<1>8. Numbered(T, q, n)
  <2> SUFFICES ASSUME NEW i \in 1 .. t
               PROVE  T[i].seq \in Nat /\ (T[i].seq = 0 \/ (q < T[i].seq /\ T[i].seq <= n))
    BY DEF Numbered, t
  <2> DEFINE x == i + 1
             g == P[x].seq
  <2>1. T[i] = P[x] /\ x \in 1 .. Len(P) /\ 1 < x BY <1>3 DEF l
  <2> HIDE DEF x
  <2>2. g \in Nat /\ (g = 0 \/ (r < g /\ g <= n)) BY <2>1 DEF Numbered
  <2>3. 1 \in 1 .. Len(P) BY <1>1 DEF l
  <2>4. h > 0 => h < g BY <2>1, <2>3 DEF Ordered, h
  <2>5. T[i].seq = g BY <2>1
  <2> HIDE DEF g
  <2>6. g = 0 \/ q < g BY <1>2, <1>4, <2>2, <2>4
  <2> QED BY <2>2, <2>5, <2>6, Zenon
<1>9. ASSUME Whole(P, r, n), NEW x \in q + 1 .. n
      PROVE  \E i \in 1 .. t : T[i].seq = x
  <2>1. x \in r + 1 .. n /\ x # h BY <1>2, <1>5, SMTT(30)
  <2>2. PICK j \in 1 .. l : P[j].seq = x BY <1>9, <2>1 DEF Whole, l
  <2>3. j # 1 BY <2>1, <2>2 DEF h
  <2> DEFINE i == j - 1
  <2>4. i \in 1 .. t /\ i + 1 = j BY <1>1, <2>2, <2>3
  <2> HIDE DEF i
  <2>5. T[i] = P[j] BY <1>3, <2>4
  <2> QED BY <2>2, <2>4, <2>5
<1> QED BY <1>5, <1>6, <1>7, <1>8, <1>9 DEF Whole, t

-----------------------------------------------------------------------------
\* Hello, when the first w of the frames P are on the wire.

IsHello(f) == f.type = "system.hello"

HelloAhead(P, w) ==
  \A i \in 1 .. Len(P) : IsHello(P[i]) => i = 1 /\ i <= w /\ P[i].seq = 0

OnlyHello(P, w) == \A i \in 1 .. w : IsHello(P[i])

LEMMA HelloOf ==
  ASSUME NEW s \in Seq(Frames), NEW q \in Seq(Frames)
  PROVE  /\ HelloAhead(s \o q, Len(s)) <=>
              /\ \A i \in DOMAIN (s \o q) : IsHello((s \o q)[i]) => i = 1 /\ (s \o q)[i].seq = 0
              /\ \A i \in DOMAIN q : ~IsHello(q[i])
         /\ OnlyHello(s \o q, Len(s)) <=> \A i \in DOMAIN s : IsHello(s[i])
<1> DEFINE P == s \o q
           w == Len(s)
<1>1. /\ P \in Seq(Frames) /\ w \in Nat /\ Len(q) \in Nat /\ Len(P) = w + Len(q)
      /\ DOMAIN P = 1 .. Len(P) /\ DOMAIN q = 1 .. Len(q) /\ DOMAIN s = 1 .. w
      /\ \A i \in 1 .. w + Len(q) : P[i] = IF i <= w THEN s[i] ELSE q[i - w]
  BY ConcatPlaces
<1> HIDE DEF P, w
<1>2. \A i \in 1 .. w : P[i] = s[i] BY <1>1
<1>3. \A i \in 1 .. Len(q) : P[i + w] = q[i] /\ i + w \in 1 .. Len(P) /\ ~(i + w <= w)
  BY <1>1, SMTT(30)
<1>4. ASSUME HelloAhead(P, w), NEW i \in 1 .. Len(q) PROVE ~IsHello(q[i])
  <2> DEFINE j == i + w
  <2>1. P[j] = q[i] /\ j \in 1 .. Len(P) /\ ~(j <= w) BY <1>3
  <2> HIDE DEF j
  <2> QED BY <1>4, <2>1 DEF HelloAhead
<1>5. ASSUME \A i \in 1 .. Len(q) : ~IsHello(q[i]),
             NEW i \in 1 .. Len(P), IsHello(P[i])
      PROVE  i <= w
  <2> SUFFICES ASSUME ~(i <= w) PROVE FALSE OBVIOUS
  <2>1. P[i] = q[i - w] /\ i - w \in 1 .. Len(q) BY <1>1
  <2> QED BY <1>5, <2>1
<1>6. HelloAhead(P, w) <=>
        /\ \A i \in DOMAIN P : IsHello(P[i]) => i = 1 /\ P[i].seq = 0
        /\ \A i \in DOMAIN q : ~IsHello(q[i])
  BY <1>1, <1>4, <1>5, Zenon DEF HelloAhead
<1>7. OnlyHello(P, w) <=> \A i \in DOMAIN s : IsHello(s[i])
  BY <1>1, <1>2, Zenon DEF OnlyHello
<1> QED BY <1>6, <1>7 DEF P, w

LEMMA HelloNow ==
  ASSUME TypeOK
  PROVE  HelloFirst <=> /\ HelloAhead(Pending, Len(wire))
                        /\ phase = "presences" => OnlyHello(Pending, Len(wire))
<1>1. wire \in Seq(Frames) /\ queue \in Seq(Frames) BY DEF TypeOK
<1> QED BY <1>1, HelloOf, Zenon DEF HelloFirst, Pending, IsHello

LEMMA HelloNext ==
  ASSUME TypeOK'
  PROVE  HelloFirst' <=> /\ HelloAhead(Pending', Len(wire'))
                         /\ phase' = "presences" => OnlyHello(Pending', Len(wire'))
<1>1. wire' \in Seq(Frames) /\ queue' \in Seq(Frames) BY DEF TypeOK
<1> QED BY <1>1, HelloOf, Zenon DEF HelloFirst, Pending, IsHello

\* Publishing and the presences keep hello in front; receiving it takes it away.
LEMMA PublishedHello ==
  ASSUME NEW P \in Seq(Frames), NEW T \in Seq(Frames), NEW e \in Seq(Frames),
         NEW w \in Nat, NEW d \in Nat, Published(T, P, e, w, d),
         \A i \in 1 .. Len(e) : ~IsHello(e[i]), HelloAhead(P, w)
  PROVE  HelloAhead(T, w) /\ (OnlyHello(P, w) => OnlyHello(T, w))
<1> DEFINE k(i) == IF i <= w THEN i ELSE i + d
           l == Len(P)
<1>1. /\ l \in Nat /\ Len(e) \in Nat /\ Len(T) \in Nat
      /\ Len(T) = l + Len(e) - d /\ w <= Len(T) /\ w <= l
  BY DEF Published
<1>2. ASSUME NEW i \in 1 .. Len(T)
      PROVE  /\ i <= w => T[i] = P[i] /\ i \in 1 .. Len(P)
             /\ ~(i <= w) /\ i + d <= l => T[i] = P[i + d] /\ i + d \in 1 .. Len(P)
             /\ ~(i <= w) /\ ~(i + d <= l) => T[i] = e[i + d - l] /\ i + d - l \in 1 .. Len(e)
  BY <1>1 DEF Published
<1> HIDE DEF l
<1>3. ASSUME NEW i \in 1 .. Len(T), IsHello(T[i])
      PROVE  i = 1 /\ i <= w /\ T[i].seq = 0
  <2>1. CASE i <= w BY <1>2, <1>3, <2>1 DEF HelloAhead
  <2>2. CASE ~(i <= w) /\ i + d <= l
    <3> DEFINE x == i + d
    <3>1. IsHello(P[x]) /\ x \in 1 .. Len(P) /\ ~(x <= w) BY <1>2, <1>3, <2>2
    <3> HIDE DEF x
    <3> QED BY <3>1 DEF HelloAhead
  <2>3. CASE ~(i <= w) /\ ~(i + d <= l) BY <1>2, <1>3, <2>3
  <2> QED BY <2>1, <2>2, <2>3
<1>4. ASSUME OnlyHello(P, w), NEW i \in 1 .. w PROVE IsHello(T[i])
  <2>1. i \in 1 .. Len(T) /\ i <= w BY <1>1
  <2> QED BY <1>2, <1>4, <2>1 DEF OnlyHello
<1> QED BY <1>3, <1>4 DEF HelloAhead, OnlyHello

LEMMA InsertedHello ==
  ASSUME NEW P \in Seq(Frames), NEW T \in Seq(Frames), NEW e \in Seq(Frames),
         NEW w \in Nat, Inserted(T, P, e, w),
         \A i \in 1 .. Len(e) : ~IsHello(e[i]), HelloAhead(P, w)
  PROVE  HelloAhead(T, w + Len(e))
<1> DEFINE l == Len(P)
           m == Len(e)
<1>1. l \in Nat /\ m \in Nat /\ Len(T) \in Nat /\ Len(T) = l + m /\ w <= l BY DEF Inserted
<1>2. ASSUME NEW i \in 1 .. Len(T)
      PROVE  /\ i <= w => T[i] = P[i] /\ i \in 1 .. Len(P)
             /\ ~(i <= w) /\ i <= w + m => T[i] = e[i - w] /\ i - w \in 1 .. Len(e)
             /\ ~(i <= w + m) =>
                  T[i] = P[i - m] /\ i - m \in 1 .. Len(P) /\ ~(i - m <= w) /\ ~(i <= w)
  BY <1>1 DEF Inserted
<1> HIDE DEF l, m
<1>3. ASSUME NEW i \in 1 .. Len(T), IsHello(T[i])
      PROVE  i = 1 /\ i <= w + m /\ T[i].seq = 0
  <2>1. CASE i <= w
    <3>1. i = 1 /\ T[i].seq = 0 BY <1>2, <1>3, <2>1 DEF HelloAhead
    <3> QED BY <1>1, <2>1, <3>1
  <2>2. CASE ~(i <= w) /\ i <= w + m BY <1>2, <1>3, <2>2
  <2>3. CASE ~(i <= w + m)
    <3> DEFINE x == i - m
    <3>1. IsHello(P[x]) /\ x \in 1 .. Len(P) /\ ~(x <= w) BY <1>2, <1>3, <2>3
    <3> HIDE DEF x
    <3> QED BY <3>1 DEF HelloAhead
  <2> QED BY <2>1, <2>2, <2>3
<1> QED BY <1>3 DEF HelloAhead, m

LEMMA TakenHello ==
  ASSUME NEW P \in Seq(Frames), NEW T \in Seq(Frames), NEW w \in Nat, w > 0,
         Taken(T, P), HelloAhead(P, w)
  PROVE  /\ \A i \in 1 .. Len(T) : ~IsHello(T[i])
         /\ w <= Len(P) /\ OnlyHello(P, w) => OnlyHello(T, w - 1)
<1>1. /\ Len(P) \in Nat /\ Len(T) \in Nat
      /\ \A i \in 1 .. Len(T) : T[i] = P[i + 1] /\ i + 1 \in 1 .. Len(P) /\ i + 1 # 1
  BY DEF Taken
<1>2. ASSUME NEW i \in 1 .. Len(T) PROVE ~IsHello(T[i])
  <2> DEFINE x == i + 1
  <2>1. T[i] = P[x] /\ x \in 1 .. Len(P) /\ x # 1 BY <1>1
  <2> HIDE DEF x
  <2> QED BY <2>1 DEF HelloAhead
<1>3. ASSUME w <= Len(P), OnlyHello(P, w), NEW i \in 1 .. w - 1 PROVE IsHello(T[i])
  <2> DEFINE x == i + 1
  <2>1. x \in 1 .. w /\ i \in 1 .. Len(T) BY <1>3 DEF Taken
  <2>2. T[i] = P[x] BY <1>1, <2>1
  <2> HIDE DEF x
  <2> QED BY <1>3, <2>1, <2>2 DEF OnlyHello
<1> QED BY <1>2, <1>3 DEF OnlyHello

-----------------------------------------------------------------------------
\* Whether a's card is up when the frames on their way have been applied.

\* e is appended and nothing given up: what happens while the queue drops nothing.
Appended(T, P, e) ==
  /\ Len(T) = Len(P) + Len(e)
  /\ \A i \in 1 .. Len(T) : T[i] = IF i <= Len(P) THEN P[i] ELSE e[i - Len(P)]

LEMMA PublishedAppends ==
  ASSUME NEW P \in Seq(Frames), NEW T \in Seq(Frames), NEW e \in Seq(Frames), NEW w \in Nat,
         Published(T, P, e, w, 0)
  PROVE  Appended(T, P, e)
<1>1. Len(P) \in Nat /\ Len(e) \in Nat /\ Len(T) = Len(P) + Len(e) BY DEF Published
<1>2. ASSUME NEW i \in 1 .. Len(T) PROVE T[i] = IF i <= Len(P) THEN P[i] ELSE e[i - Len(P)]
  <2>1. (IF i <= w THEN i ELSE i + 0) = i OBVIOUS
  <2> QED BY <2>1 DEF Published
<1> QED BY <1>1, <1>2 DEF Appended

LEMMA AppendedPlaces ==
  ASSUME NEW P \in Seq(Frames), NEW T \in Seq(Frames), NEW e \in Seq(Frames),
         Appended(T, P, e)
  PROVE  /\ Len(P) \in Nat /\ Len(e) \in Nat /\ Len(T) = Len(P) + Len(e)
         /\ \A i \in 1 .. Len(P) : i \in 1 .. Len(T) /\ T[i] = P[i]
         /\ \A i \in 1 .. Len(e) : i + Len(P) \in 1 .. Len(T) /\ T[i + Len(P)] = e[i]
         /\ \A i \in 1 .. Len(T) :
              \/ i \in 1 .. Len(P) /\ T[i] = P[i]
              \/ i - Len(P) \in 1 .. Len(e) /\ T[i] = e[i - Len(P)] /\ i > Len(P)
<1> DEFINE l == Len(P)
           m == Len(e)
<1>1. /\ l \in Nat /\ m \in Nat /\ Len(T) = l + m
      /\ \A i \in 1 .. Len(T) : T[i] = IF i <= l THEN P[i] ELSE e[i - l]
  BY DEF Appended
<1> HIDE DEF l, m
<1>2. \A i \in 1 .. l : i \in 1 .. Len(T) /\ T[i] = P[i] BY <1>1
<1>3. ASSUME NEW i \in 1 .. m PROVE i + l \in 1 .. Len(T) /\ T[i + l] = e[i]
  <2> DEFINE j == i + l
  <2>1. j \in 1 .. Len(T) /\ ~(j <= l) /\ j - l = i BY <1>1
  <2> HIDE DEF j
  <2>2. T[j] = e[i] BY <1>1, <2>1
  <2> QED BY <2>1, <2>2 DEF j
<1>4. ASSUME NEW i \in 1 .. Len(T)
      PROVE  \/ i \in 1 .. l /\ T[i] = P[i]
             \/ i - l \in 1 .. m /\ T[i] = e[i - l] /\ i > l
  <2>1. CASE i <= l
    <3>1. i \in 1 .. l /\ T[i] = P[i] BY <1>1, <2>1
    <3> QED BY <3>1
  <2>2. CASE ~(i <= l)
    <3>1. T[i] = e[i - l] BY <1>1, <2>2
    <3>2. i - l \in 1 .. m /\ i > l BY <1>1, <2>2
    <3> QED BY <3>1, <3>2
  <2> QED BY <2>1, <2>2
<1> QED BY <1>1, <1>2, <1>3, <1>4, Zenon DEF l, m

\* What takes no card of a's down puts it up exactly if it finds a.
LEMMA AppendedUp ==
  ASSUME NEW P \in Seq(Frames), NEW T \in Seq(Frames), NEW e \in Seq(Frames), NEW a,
         NEW up \in BOOLEAN, Appended(T, P, e), \A i \in 1 .. Len(e) : ~Loses(e[i], a)
  PROVE  UpAfter(T, up, a) <=> UpAfter(P, up, a) \/ \E i \in 1 .. Len(e) : Finds(e[i], a)
<1> DEFINE l == Len(P)
           m == Len(e)
           t == Len(T)
           Kept(k) == \A j \in k + 1 .. l : ~Loses(P[j], a)
           Clear(k) == \A j \in k + 1 .. t : ~Loses(T[j], a)
<1>1. /\ l \in Nat /\ m \in Nat /\ t = l + m
      /\ \A i \in 1 .. l : i \in 1 .. t /\ T[i] = P[i]
      /\ \A i \in 1 .. m : i + l \in 1 .. t /\ T[i + l] = e[i]
      /\ \A i \in 1 .. t : \/ i \in 1 .. l /\ T[i] = P[i]
                           \/ i - l \in 1 .. m /\ T[i] = e[i - l] /\ i > l
  BY AppendedPlaces
<1> HIDE DEF l, t, m
<1>2. \A j \in 1 .. t : j > l => ~Loses(T[j], a) BY <1>1 DEF m
<1>3. ASSUME NEW k \in 0 .. l PROVE Clear(k) <=> Kept(k)
  <2>1. ASSUME Clear(k), NEW j \in k + 1 .. l PROVE ~Loses(P[j], a)
    <3>1. j \in 1 .. l /\ j \in k + 1 .. t BY <1>1
    <3> QED BY <1>1, <2>1, <3>1
  <2>2. ASSUME Kept(k), NEW j \in k + 1 .. t PROVE ~Loses(T[j], a)
    <3>1. j \in 1 .. t BY <1>1
    <3>2. CASE j > l BY <1>2, <3>1, <3>2
    <3>3. CASE ~(j > l)
      <4>1. j \in 1 .. l /\ j \in k + 1 .. l BY <1>1, <3>3
      <4> QED BY <1>1, <2>2, <4>1
    <3> QED BY <3>2, <3>3
  <2> QED BY <2>1, <2>2
<1>4. ASSUME NEW i \in 1 .. m PROVE Clear(i + l)
  <2> SUFFICES ASSUME NEW j \in i + l + 1 .. t PROVE ~Loses(T[j], a) OBVIOUS
  <2>1. j \in 1 .. t /\ j > l BY <1>1
  <2> QED BY <1>2, <2>1
<1> 0 + 1 = 1 OBVIOUS
<1>5. UpAfter(P, up, a) <=> (up /\ Kept(0)) \/ \E i \in 1 .. l : Finds(P[i], a) /\ Kept(i)
  BY Zenon DEF UpAfter, l
<1>6. UpAfter(T, up, a) <=> (up /\ Clear(0)) \/ \E i \in 1 .. t : Finds(T[i], a) /\ Clear(i)
  BY Zenon DEF UpAfter, t
<1>7. 0 \in 0 .. l /\ \A i \in 1 .. l : i \in 0 .. l BY <1>1
<1> HIDE DEF Kept, Clear
<1>8. (up /\ Clear(0)) <=> (up /\ Kept(0)) BY <1>3, <1>7, Zenon
<1>9. (\E i \in 1 .. t : Finds(T[i], a) /\ Clear(i)) <=>
        (\E i \in 1 .. l : Finds(P[i], a) /\ Kept(i)) \/ \E i \in 1 .. m : Finds(e[i], a)
  BY <1>1, <1>3, <1>4, <1>7, Zenon
<1> QED BY <1>5, <1>6, <1>8, <1>9 DEF m

\* What loses a and does not find it takes its card down.
LEMMA AppendedDown ==
  ASSUME NEW P \in Seq(Frames), NEW T \in Seq(Frames), NEW e \in Seq(Frames), NEW a,
         NEW up \in BOOLEAN, Appended(T, P, e), \A i \in 1 .. Len(e) : ~Finds(e[i], a),
         NEW n \in 1 .. Len(e), Loses(e[n], a)
  PROVE  ~UpAfter(T, up, a)
<1> DEFINE l == Len(P)
           m == Len(e)
           t == Len(T)
           x == n + l
<1>1. /\ l \in Nat /\ m \in Nat /\ t = l + m
      /\ \A i \in 1 .. m : i + l \in 1 .. t /\ T[i + l] = e[i]
      /\ \A i \in 1 .. t : \/ i \in 1 .. l /\ T[i] = P[i]
                           \/ i - l \in 1 .. m /\ T[i] = e[i - l] /\ i > l
  BY AppendedPlaces
<1>2. x \in 1 .. t /\ Loses(T[x], a) BY <1>1
<1> HIDE DEF l, t, m
<1>3. x > l BY <1>1
<1> HIDE DEF x
<1>4. ASSUME NEW i \in 1 .. t, Finds(T[i], a), \A j \in i + 1 .. t : ~Loses(T[j], a)
      PROVE  FALSE
  <2>1. i \in 1 .. l
    <3>1. CASE i - l \in 1 .. m /\ T[i] = e[i - l] BY <1>4, <3>1 DEF m
    <3> QED BY <1>1, <3>1
  <2>2. x \in i + 1 .. t BY <1>1, <1>2, <1>3, <2>1
  <2> QED BY <1>2, <1>4, <2>2
<1> QED BY <1>2, <1>4 DEF UpAfter, t

\* The presences, put behind hello, show what a view without them was counted on to show.
LEMMA InsertedUp ==
  ASSUME NEW P \in Seq(Frames), NEW T \in Seq(Frames), NEW e \in Seq(Frames), NEW a,
         NEW up \in BOOLEAN, NEW K, NEW w \in Nat, Inserted(T, P, e, w), OnlyHello(P, w),
         \A i \in 1 .. Len(e) : e[i].type = "device_found",
         a \in K <=> \E i \in 1 .. Len(e) : e[i].key = a
  PROVE  UpAfter(T, up, a) <=> UpAfter(P, up \/ a \in K, a)
<1> DEFINE l == Len(P)
           m == Len(e)
           t == Len(T)
           Kept(k) == \A j \in k + 1 .. l : ~Loses(P[j], a)
           Clear(k) == \A j \in k + 1 .. t : ~Loses(T[j], a)
<1>1. l \in Nat /\ m \in Nat /\ t = l + m /\ w <= l BY DEF Inserted
<1>2. ASSUME NEW i \in 1 .. t
      PROVE  /\ i <= w => T[i] = P[i] /\ i \in 1 .. w
             /\ ~(i <= w) /\ i <= w + m => T[i] = e[i - w] /\ i - w \in 1 .. m
             /\ ~(i <= w + m) => T[i] = P[i - m] /\ i - m \in 1 .. l /\ ~(i <= w)
  BY <1>1 DEF Inserted
<1>3. \A i \in 1 .. w : ~Loses(P[i], a) /\ ~Finds(P[i], a)
  BY DEF OnlyHello, IsHello, Loses, Finds
<1>4. \A i \in 1 .. m : ~Loses(e[i], a) /\ (Finds(e[i], a) <=> e[i].key = a)
  BY DEF Loses, Finds
<1> HIDE DEF l, t, m
<1>5. ASSUME NEW i \in 1 .. t, i <= w + m
      PROVE  ~Loses(T[i], a) /\ (Finds(T[i], a) => a \in K)
  <2>1. CASE i <= w BY <1>2, <1>3, <2>1
  <2>2. CASE ~(i <= w)
    <3> DEFINE x == i - w
    <3>1. T[i] = e[x] /\ x \in 1 .. m BY <1>2, <1>5, <2>2
    <3> HIDE DEF x
    <3> QED BY <1>4, <3>1 DEF m
  <2> QED BY <2>1, <2>2
<1>6. ASSUME NEW i \in 1 .. l, ~(i <= w) PROVE i + m \in 1 .. t /\ T[i + m] = P[i]
  <2> DEFINE x == i + m
  <2>1. x \in 1 .. t /\ ~(x <= w + m) /\ x - m = i BY <1>1, <1>6
  <2> HIDE DEF x
  <2>2. T[x] = P[i] BY <1>2, <2>1
  <2> QED BY <2>1, <2>2 DEF x
<1>7. ASSUME NEW k \in w .. l PROVE Clear(k + m) <=> Kept(k)
  <2>1. ASSUME Clear(k + m), NEW j \in k + 1 .. l PROVE ~Loses(P[j], a)
    <3> DEFINE x == j + m
    <3>1. j \in 1 .. l /\ ~(j <= w) /\ x \in k + m + 1 .. t BY <1>1
    <3>2. T[x] = P[j] BY <1>6, <3>1
    <3> HIDE DEF x
    <3> QED BY <2>1, <3>1, <3>2
  <2>2. ASSUME Kept(k), NEW j \in k + m + 1 .. t PROVE ~Loses(T[j], a)
    <3> DEFINE x == j - m
    <3>1. j \in 1 .. t /\ ~(j <= w + m) /\ x \in k + 1 .. l BY <1>1
    <3>2. T[j] = P[x] BY <1>2, <3>1
    <3> HIDE DEF x
    <3> QED BY <2>2, <3>1, <3>2
  <2> QED BY <2>1, <2>2
<1>8. ASSUME NEW k \in 0 .. w + m PROVE Clear(k) <=> Kept(w)
  <2>1. Clear(w + m) <=> Kept(w)
    <3>1. w \in w .. l BY <1>1
    <3> QED BY <1>7, <3>1
  <2>2. ASSUME Clear(w + m), NEW j \in k + 1 .. t PROVE ~Loses(T[j], a)
    <3>1. j \in 1 .. t OBVIOUS
    <3>2. CASE j <= w + m BY <1>5, <3>1, <3>2
    <3>3. CASE ~(j <= w + m)
      <4>1. j \in w + m + 1 .. t BY <1>1, <3>3
      <4> QED BY <2>2, <4>1
    <3> QED BY <3>2, <3>3
  <2>3. ASSUME Clear(k), NEW j \in w + m + 1 .. t PROVE ~Loses(T[j], a)
    <3>1. j \in k + 1 .. t BY <1>1
    <3> QED BY <2>3, <3>1
  <2> QED BY <2>1, <2>2, <2>3
<1>9. Kept(0) <=> Kept(w)
  <2>1. ASSUME Kept(w), NEW j \in 0 + 1 .. l PROVE ~Loses(P[j], a)
    <3>1. CASE j <= w
      <4>1. j \in 1 .. w BY <3>1
      <4> QED BY <1>3, <4>1
    <3>2. CASE ~(j <= w)
      <4>1. j \in w + 1 .. l BY <1>1, <3>2
      <4> QED BY <2>1, <4>1
    <3> QED BY <3>1, <3>2
  <2>2. ASSUME Kept(0), NEW j \in w + 1 .. l PROVE ~Loses(P[j], a)
    <3>1. j \in 0 + 1 .. l BY <1>1
    <3> QED BY <2>2, <3>1
  <2> QED BY <2>1, <2>2
<1> 0 + 1 = 1 OBVIOUS
<1>10. UpAfter(P, up \/ a \in K, a) <=>
         ((up \/ a \in K) /\ Kept(0)) \/ \E i \in 1 .. l : Finds(P[i], a) /\ Kept(i)
  BY Zenon DEF UpAfter, l
<1>11. UpAfter(T, up, a) <=> (up /\ Clear(0)) \/ \E i \in 1 .. t : Finds(T[i], a) /\ Clear(i)
  BY Zenon DEF UpAfter, t
<1> HIDE DEF Kept, Clear
<1>12. Clear(0) <=> Kept(0)
  <2>1. 0 \in 0 .. w + m BY <1>1
  <2> QED BY <1>8, <1>9, <2>1
<1>13. ASSUME NEW i \in 1 .. t, Finds(T[i], a), Clear(i)
       PROVE  (a \in K /\ Kept(0)) \/ \E j \in 1 .. l : Finds(P[j], a) /\ Kept(j)
  <2>1. CASE i <= w + m
    <3>1. i \in 0 .. w + m BY <1>1, <2>1
    <3>2. Kept(0) BY <1>8, <1>9, <1>13, <3>1
    <3> QED BY <1>5, <1>13, <2>1, <3>2
  <2>2. CASE ~(i <= w + m)
    <3> DEFINE j == i - m
    <3>1. j \in 1 .. l /\ j \in w .. l /\ i = j + m BY <1>1, <2>2
    <3>2. T[i] = P[j] BY <1>2, <2>2
    <3> HIDE DEF j
    <3>3. Finds(P[j], a) BY <1>13, <3>2
    <3>4. Kept(j) BY <1>7, <1>13, <3>1
    <3> QED BY <3>1, <3>3, <3>4
  <2> QED BY <2>1, <2>2
<1>14. ASSUME NEW j \in 1 .. l, Finds(P[j], a), Kept(j)
       PROVE  \E i \in 1 .. t : Finds(T[i], a) /\ Clear(i)
  <2>1. ~(j <= w)
    <3>1. j <= w => j \in 1 .. w OBVIOUS
    <3> QED BY <1>3, <1>14, <3>1
  <2> DEFINE i == j + m
  <2>2. i \in 1 .. t /\ T[i] = P[j] BY <1>6, <2>1
  <2>3. j \in w .. l BY <1>1, <2>1
  <2>4. Clear(i) BY <1>7, <1>14, <2>3
  <2> HIDE DEF i
  <2> QED BY <1>14, <2>2, <2>4
<1>15. ASSUME a \in K, Kept(0)
       PROVE  \E i \in 1 .. t : Finds(T[i], a) /\ Clear(i)
  <2>1. PICK n \in 1 .. m : e[n].key = a BY <1>15 DEF m
  <2> DEFINE i == n + w
  <2>2. i \in 1 .. t /\ ~(i <= w) /\ i <= w + m /\ i - w = n /\ i \in 0 .. w + m BY <1>1
  <2> HIDE DEF i
  <2>3. T[i] = e[n] BY <1>2, <2>2
  <2>4. Finds(T[i], a) BY <1>4, <2>1, <2>3
  <2>5. Clear(i) BY <1>8, <1>9, <1>15, <2>2
  <2> QED BY <2>2, <2>4, <2>5
<1> QED BY <1>10, <1>11, <1>12, <1>13, <1>14, <1>15, Zenon

\* Applying the first frame to the view is what applying all of them begins with.
LEMMA TakenUp ==
  ASSUME NEW P \in Seq(Frames), NEW T \in Seq(Frames), NEW a, NEW up \in BOOLEAN,
         NEW now \in BOOLEAN, Taken(T, P),
         now <=> Finds(P[1], a) \/ (up /\ ~Loses(P[1], a))
  PROVE  UpAfter(T, now, a) <=> UpAfter(P, up, a)
<1> DEFINE l == Len(P)
           t == Len(T)
           Kept(k) == \A j \in k + 1 .. l : ~Loses(P[j], a)
           Clear(k) == \A j \in k + 1 .. t : ~Loses(T[j], a)
<1>1. /\ l \in Nat /\ t \in Nat /\ l = t + 1
      /\ \A i \in 1 .. t : T[i] = P[i + 1]
  BY DEF Taken
<1> HIDE DEF l, t
<1>2. ASSUME NEW k \in 0 .. t PROVE Clear(k) <=> Kept(k + 1)
  <2>1. ASSUME Clear(k), NEW j \in k + 1 + 1 .. l PROVE ~Loses(P[j], a)
    <3> DEFINE x == j - 1
    <3>1. x \in 1 .. t /\ x \in k + 1 .. t /\ x + 1 = j BY <1>1
    <3> HIDE DEF x
    <3>2. T[x] = P[j] BY <1>1, <3>1
    <3> QED BY <2>1, <3>1, <3>2
  <2>2. ASSUME Kept(k + 1), NEW j \in k + 1 .. t PROVE ~Loses(T[j], a)
    <3> DEFINE x == j + 1
    <3>1. j \in 1 .. t /\ x \in k + 1 + 1 .. l BY <1>1
    <3>2. T[j] = P[x] BY <1>1, <3>1
    <3> HIDE DEF x
    <3> QED BY <2>2, <3>1, <3>2
  <2> QED BY <2>1, <2>2
<1>3. Kept(0) <=> ~Loses(P[1], a) /\ Kept(1)
  <2>1. ASSUME ~Loses(P[1], a), Kept(1), NEW j \in 0 + 1 .. l PROVE ~Loses(P[j], a)
    <3>1. CASE j = 1 BY <2>1, <3>1
    <3>2. CASE j # 1
      <4>1. j \in 1 + 1 .. l BY <1>1, <3>2
      <4> QED BY <2>1, <4>1
    <3> QED BY <3>1, <3>2
  <2>2. ASSUME Kept(0) PROVE ~Loses(P[1], a) /\ Kept(1)
    <3>1. 1 \in 0 + 1 .. l BY <1>1
    <3>2. ASSUME NEW j \in 1 + 1 .. l PROVE ~Loses(P[j], a)
      <4>1. j \in 0 + 1 .. l BY <1>1
      <4> QED BY <2>2, <4>1
    <3> QED BY <2>2, <3>1, <3>2
  <2> QED BY <2>1, <2>2
<1> 0 + 1 = 1 OBVIOUS
<1>4. UpAfter(P, up, a) <=> (up /\ Kept(0)) \/ \E i \in 1 .. l : Finds(P[i], a) /\ Kept(i)
  BY Zenon DEF UpAfter, l
<1>5. UpAfter(T, now, a) <=>
        (now /\ Clear(0)) \/ \E i \in 1 .. t : Finds(T[i], a) /\ Clear(i)
  BY Zenon DEF UpAfter, t
<1> HIDE DEF Kept, Clear
<1>6. Clear(0) <=> Kept(1)
  <2>1. 0 \in 0 .. t BY <1>1
  <2> QED BY <1>2, <2>1
<1>7. ASSUME NEW i \in 1 .. t, Finds(T[i], a), Clear(i)
      PROVE  \E j \in 1 .. l : Finds(P[j], a) /\ Kept(j)
  <2> DEFINE x == i + 1
  <2>1. x \in 1 .. l /\ i \in 0 .. t BY <1>1
  <2>2. T[i] = P[x] BY <1>1
  <2>3. Kept(x) BY <1>2, <1>7, <2>1
  <2> HIDE DEF x
  <2> QED BY <1>7, <2>1, <2>2, <2>3
<1>8. ASSUME NEW j \in 1 .. l, j # 1, Finds(P[j], a), Kept(j)
      PROVE  \E i \in 1 .. t : Finds(T[i], a) /\ Clear(i)
  <2> DEFINE x == j - 1
  <2>1. x \in 1 .. t /\ x \in 0 .. t /\ x + 1 = j BY <1>1, <1>8
  <2> HIDE DEF x
  <2>2. T[x] = P[j] BY <1>1, <2>1
  <2>3. Clear(x) BY <1>2, <1>8, <2>1
  <2> QED BY <1>8, <2>1, <2>2, <2>3
<1>9. 1 \in 1 .. l BY <1>1
<1> QED BY <1>3, <1>4, <1>5, <1>6, <1>7, <1>8, <1>9, Zenon

-----------------------------------------------------------------------------
\* The driver card when the frames on their way have been applied.

\* A set of places has a last one.
LEMMA LastPlace ==
  ASSUME NEW n \in Nat, NEW D \in SUBSET (1 .. n), D # {}
  PROVE  \E x \in D : \A y \in D : y <= x
<1> DEFINE T == {n - y : y \in D}
<1>1. T \subseteq Nat /\ T # {}
  <2>1. \A y \in D : y \in Nat /\ y <= n OBVIOUS
  <2>2. \A y \in D : n - y \in Nat BY <2>1
  <2> QED BY <2>2
<1>2. PICK m \in T : \A z \in T : m <= z BY <1>1, LeastNumber
<1>3. PICK x \in D : m = n - x OBVIOUS
<1>4. ASSUME NEW y \in D PROVE y <= x
  <2>1. n - y \in T OBVIOUS
  <2>2. m <= n - y BY <1>2, <2>1
  <2>3. x \in 1 .. n /\ y \in 1 .. n OBVIOUS
  <2> HIDE DEF T
  <2> QED BY <1>3, <2>2, <2>3
<1> QED BY <1>4

\* Frames that are not about the driver change nothing, wherever they are put: f says
\* where each frame of P is found in T.
LEMMA SpreadCard ==
  ASSUME NEW P, NEW T, NEW card, NEW v, NEW f,
         \A j \in DOMAIN P : f[j] \in DOMAIN T /\ T[f[j]] = P[j],
         \A i \in DOMAIN T : OfDriver(T[i]) => \E j \in DOMAIN P : i = f[j],
         \A i, j \in DOMAIN P : j > i => f[j] > f[i],
         \A i, j \in DOMAIN P : j < i => f[j] < f[i],
         CardKept(P, card, v)
  PROVE  CardKept(T, card, v)
<1>1. /\ (\A i \in DOMAIN P : ~OfDriver(P[i])) => CardAgrees(card, v)
      /\ \A i \in DOMAIN P :
           OfDriver(P[i]) /\ (\A j \in DOMAIN P : j > i => ~OfDriver(P[j])) => P[i].key = v
      /\ \A i \in DOMAIN P : P[i].type = "driver.registered" => P[i].key > 0
      /\ \A i \in DOMAIN P : P[i].type = "driver.updated" =>
           /\ P[i].key > 0
           /\ \/ \E j \in DOMAIN P : j < i /\ P[j].type = "driver.registered"
              \/ \E j \in DOMAIN P : P[j].type = "system.hello" /\ P[j].key > 0
              \/ card # <<>> /\ \A j \in DOMAIN P : P[j].type # "system.hello"
  BY Zenon DEF CardKept
<1>2. ASSUME NEW i \in DOMAIN T, OfDriver(T[i])
      PROVE  \E j \in DOMAIN P : i = f[j] /\ T[i] = P[j]
  BY <1>2
<1>3. \A g : g.type \in {"system.hello", "driver.registered", "driver.updated"} => OfDriver(g)
  BY DEF OfDriver
<1>4. (\A i \in DOMAIN T : ~OfDriver(T[i])) => CardAgrees(card, v) BY <1>1, Zenon
<1>5. ASSUME NEW i \in DOMAIN T, OfDriver(T[i]), \A j \in DOMAIN T : j > i => ~OfDriver(T[j])
      PROVE  T[i].key = v
  <2>1. PICK k \in DOMAIN P : i = f[k] /\ T[i] = P[k] BY <1>2, <1>5
  <2>2. \A j \in DOMAIN P : j > k => ~OfDriver(P[j]) BY <1>5, <2>1
  <2> QED BY <1>1, <1>5, <2>1, <2>2
<1>6. ASSUME NEW i \in DOMAIN T, T[i].type = "driver.registered" PROVE T[i].key > 0
  BY <1>1, <1>2, <1>3, <1>6
<1>7. ASSUME NEW i \in DOMAIN T, T[i].type = "driver.updated"
      PROVE  /\ T[i].key > 0
             /\ \/ \E j \in DOMAIN T : j < i /\ T[j].type = "driver.registered"
                \/ \E j \in DOMAIN T : T[j].type = "system.hello" /\ T[j].key > 0
                \/ card # <<>> /\ \A j \in DOMAIN T : T[j].type # "system.hello"
  <2>1. PICK k \in DOMAIN P : i = f[k] /\ T[i] = P[k] BY <1>2, <1>3, <1>7
  <2>2. P[k].type = "driver.updated" /\ P[k].key > 0 BY <1>1, <1>7, <2>1
  <2>3. CASE \E j \in DOMAIN P : j < k /\ P[j].type = "driver.registered" BY <2>1, <2>2, <2>3
  <2>4. CASE \E j \in DOMAIN P : P[j].type = "system.hello" /\ P[j].key > 0
    BY <2>1, <2>2, <2>4
  <2>5. CASE card # <<>> /\ \A j \in DOMAIN P : P[j].type # "system.hello"
    <3>1. \A j \in DOMAIN T : T[j].type # "system.hello" BY <1>2, <1>3, <2>5
    <3> QED BY <2>1, <2>2, <2>5, <3>1
  <2> QED BY <1>1, <2>2, <2>3, <2>4, <2>5
<1> QED BY <1>4, <1>5, <1>6, <1>7, Zenon DEF CardKept

LEMMA InsertedCard ==
  ASSUME NEW P \in Seq(Frames), NEW T \in Seq(Frames), NEW e \in Seq(Frames), NEW w \in Nat,
         NEW card, NEW v, Inserted(T, P, e, w), \A i \in 1 .. Len(e) : ~OfDriver(e[i]),
         CardKept(P, card, v)
  PROVE  CardKept(T, card, v)
<1> DEFINE l == Len(P)
           m == Len(e)
           f == [j \in 1 .. l |-> IF j <= w THEN j ELSE j + m]
<1>1. /\ l \in Nat /\ m \in Nat /\ Len(T) = l + m /\ w <= l
      /\ DOMAIN P = 1 .. l /\ DOMAIN T = 1 .. l + m
      /\ \A i \in 1 .. l + m :
           T[i] = IF i <= w THEN P[i] ELSE IF i <= w + m THEN e[i - w] ELSE P[i - m]
  BY DEF Inserted
<1> HIDE DEF l, m
<1>2. ASSUME NEW j \in 1 .. l PROVE f[j] \in 1 .. l + m /\ T[f[j]] = P[j]
  <2>1. CASE j <= w
    <3>1. j \in 1 .. l + m /\ f[j] = j BY <1>1, <2>1
    <3> QED BY <1>1, <2>1, <3>1
  <2>2. CASE ~(j <= w)
    <3> DEFINE x == j + m
    <3>1. x \in 1 .. l + m /\ ~(x <= w) /\ ~(x <= w + m) /\ x - m = j BY <1>1, <2>2
    <3>2. f[j] = x BY <2>2
    <3> HIDE DEF x, f
    <3>3. T[x] = P[j] BY <1>1, <3>1
    <3> QED BY <3>1, <3>2, <3>3
  <2> QED BY <2>1, <2>2
<1>3. ASSUME NEW i \in 1 .. l + m, OfDriver(T[i]) PROVE \E j \in 1 .. l : i = f[j]
  <2>1. CASE i <= w
    <3>1. i \in 1 .. l /\ f[i] = i BY <1>1, <2>1
    <3> QED BY <3>1
  <2>2. CASE ~(i <= w) /\ i <= w + m
    <3> DEFINE x == i - w
    <3>1. x \in 1 .. Len(e) /\ T[i] = e[x] BY <1>1, <2>2 DEF m
    <3> HIDE DEF x
    <3> QED BY <1>3, <3>1
  <2>3. CASE ~(i <= w + m)
    <3>1. i - m \in 1 .. l /\ f[i - m] = i BY <1>1, <2>3
    <3> QED BY <3>1
  <2> QED BY <2>1, <2>2, <2>3
<1>4. \A i, j \in 1 .. l : (j > i => f[j] > f[i]) /\ (j < i => f[j] < f[i]) BY <1>1
<1> HIDE DEF f
<1>5. \A j \in DOMAIN P : f[j] \in DOMAIN T /\ T[f[j]] = P[j] BY <1>1, <1>2
<1>6. \A i \in DOMAIN T : OfDriver(T[i]) => \E j \in DOMAIN P : i = f[j] BY <1>1, <1>3
<1>7. \A i, j \in DOMAIN P : j > i => f[j] > f[i] BY <1>1, <1>4
<1>8. \A i, j \in DOMAIN P : j < i => f[j] < f[i] BY <1>1, <1>4
<1>9. CardKept(P, card, v) OBVIOUS
<1> QED BY <1>5, <1>6, <1>7, <1>8, <1>9, SpreadCard, Zenon

LEMMA AppendedInserted ==
  ASSUME NEW P \in Seq(Frames), NEW T \in Seq(Frames), NEW e \in Seq(Frames),
         Appended(T, P, e)
  PROVE  Inserted(T, P, e, Len(P))
<1>1. Len(P) \in Nat /\ Len(e) \in Nat OBVIOUS
<1>2. \A i \in 1 .. Len(T) : i <= Len(P) + Len(e) BY <1>1 DEF Appended
<1> QED BY <1>1, <1>2 DEF Appended, Inserted

\* The registry's announcement of an admission, behind everything else, is right.
LEMMA AdmittedCard ==
  ASSUME NEW P \in Seq(Frames), NEW T \in Seq(Frames), NEW e \in Seq(Frames),
         NEW card, NEW v \in Nat, Appended(T, P, e), Len(e) = 1, e[1].key = v + 1,
         e[1].type = IF v = 0 THEN "driver.registered" ELSE "driver.updated",
         CardKept(P, card, v)
  PROVE  CardKept(T, card, v + 1)
<1> DEFINE l == Len(P)
           n == l + 1
<1>1. /\ l \in Nat /\ Len(T) = n /\ DOMAIN P = 1 .. l /\ DOMAIN T = 1 .. n
      /\ \A i \in 1 .. l : i \in 1 .. n /\ T[i] = P[i]
      /\ T[n] = e[1] /\ n \in 1 .. n
      /\ \A i \in 1 .. n : i \in 1 .. l \/ i = n
      /\ \A i \in 1 .. l : i < n /\ n > i /\ ~(n < i)
  BY DEF Appended
<1> HIDE DEF l, n
<1>2. /\ (\A i \in 1 .. l : ~OfDriver(P[i])) => CardAgrees(card, v)
      /\ \A i \in 1 .. l :
           OfDriver(P[i]) /\ (\A j \in 1 .. l : j > i => ~OfDriver(P[j])) => P[i].key = v
      /\ \A i \in 1 .. l : P[i].type = "driver.registered" => P[i].key > 0
      /\ \A i \in 1 .. l : P[i].type = "driver.updated" =>
           /\ P[i].key > 0
           /\ \/ \E j \in 1 .. l : j < i /\ P[j].type = "driver.registered"
              \/ \E j \in 1 .. l : P[j].type = "system.hello" /\ P[j].key > 0
              \/ card # <<>> /\ \A j \in 1 .. l : P[j].type # "system.hello"
  BY <1>1, Zenon DEF CardKept
<1>3. OfDriver(T[n]) /\ T[n].type # "system.hello" /\ T[n].key = v + 1 /\ v + 1 > 0
  BY <1>1 DEF OfDriver
<1>4. (\A j \in 1 .. l : P[j].type # "system.hello") =>
        \A j \in 1 .. n : T[j].type # "system.hello"
  BY <1>1, <1>3, Zenon
<1>5. ASSUME NEW i \in 1 .. n, T[i].type = "driver.updated"
      PROVE  /\ T[i].key > 0
             /\ \/ \E j \in 1 .. n : j < i /\ T[j].type = "driver.registered"
                \/ \E j \in 1 .. n : T[j].type = "system.hello" /\ T[j].key > 0
                \/ card # <<>> /\ \A j \in 1 .. n : T[j].type # "system.hello"
  <2>1. CASE i \in 1 .. l
    <3>1. T[i] = P[i] /\ P[i].type = "driver.updated" /\ P[i].key > 0 BY <1>1, <1>2, <1>5, <2>1
    <3>2. CASE \E j \in 1 .. l : j < i /\ P[j].type = "driver.registered"
      BY <1>1, <3>1, <3>2, Zenon
    <3>3. CASE \E j \in 1 .. l : P[j].type = "system.hello" /\ P[j].key > 0
      BY <1>1, <3>1, <3>3, Zenon
    <3>4. CASE card # <<>> /\ \A j \in 1 .. l : P[j].type # "system.hello"
      BY <1>4, <3>1, <3>4, Zenon
    <3> QED BY <1>2, <2>1, <3>1, <3>2, <3>3, <3>4, Zenon
  <2>2. CASE i = n
    <3>1. v > 0 BY <1>1, <1>5, <2>2
    <3> DEFINE D == {j \in 1 .. l : OfDriver(P[j])}
    <3>2. CASE D = {}
      <4>1. \A j \in 1 .. l : ~OfDriver(P[j]) BY <3>2
      <4>2. CardAgrees(card, v) BY <1>2, <4>1
      <4>3. card # <<>>
        <5>1. card = <<0>> \/ card = <<v>> BY <3>1, <4>2 DEF CardAgrees
        <5>2. <<0>> # <<>> /\ <<v>> # <<>> OBVIOUS
        <5> QED BY <5>1, <5>2
      <4>4. \A j \in 1 .. l : P[j].type # "system.hello" BY <4>1 DEF OfDriver
      <4> QED BY <1>3, <1>4, <2>2, <4>3, <4>4
    <3>3. CASE D # {}
      <4>1. PICK k \in D : \A j \in D : j <= k
        <5>1. D \in SUBSET (1 .. l) OBVIOUS
        <5> HIDE DEF D
        <5> QED BY <1>1, <3>3, <5>1, LastPlace
      <4>2. k \in 1 .. l /\ OfDriver(P[k]) OBVIOUS
      <4>3. ASSUME NEW j \in 1 .. l, j > k PROVE ~OfDriver(P[j])
        <5>1. ~(j <= k) BY <4>2, <4>3
        <5> QED BY <4>1, <5>1
      <4>4. P[k].key = v BY <1>2, <4>2, <4>3
      <4>5. T[k] = P[k] /\ k \in 1 .. n /\ k < n BY <1>1, <4>2
      <4>6. CASE P[k].type = "system.hello" BY <1>3, <2>2, <3>1, <4>4, <4>5, <4>6
      <4>7. CASE P[k].type = "driver.registered" BY <1>3, <2>2, <4>5, <4>7
      <4>8. CASE P[k].type = "driver.updated"
        <5>1. CASE \E j \in 1 .. l : j < k /\ P[j].type = "driver.registered"
          BY <1>1, <1>3, <2>2, <5>1
        <5>2. CASE \E j \in 1 .. l : P[j].type = "system.hello" /\ P[j].key > 0
          BY <1>1, <1>3, <2>2, <5>2
        <5>3. CASE card # <<>> /\ \A j \in 1 .. l : P[j].type # "system.hello"
          BY <1>3, <1>4, <2>2, <5>3
        <5> QED BY <1>2, <4>2, <4>8, <5>1, <5>2, <5>3, Zenon
      <4> QED BY <4>2, <4>6, <4>7, <4>8 DEF OfDriver
    <3> QED BY <3>2, <3>3
  <2> QED BY <1>1, <2>1, <2>2
<1>6. ASSUME NEW i \in 1 .. n, \A j \in 1 .. n : j > i => ~OfDriver(T[j])
      PROVE  T[i].key = v + 1
  BY <1>1, <1>3, <1>6
<1>7. ASSUME NEW i \in 1 .. n, T[i].type = "driver.registered" PROVE T[i].key > 0
  BY <1>1, <1>2, <1>3, <1>7
<1>8. DOMAIN T = 1 .. n /\ ~\A i \in 1 .. n : ~OfDriver(T[i]) BY <1>1, <1>3
<1> QED BY <1>3, <1>5, <1>6, <1>7, <1>8, ZenonT(30) DEF CardKept

\* What a frame does to the card.
CardAfter(card, f) ==
  CASE f.type = "system.hello"      -> IF f.key > 0 THEN <<0>> ELSE <<>>
    [] f.type = "driver.registered" -> <<f.key>>
    [] f.type = "driver.updated"    -> IF card = <<>> THEN <<>> ELSE <<f.key>>
    [] OTHER                        -> card

Views == [presences : SUBSET Addrs, card : Seq(Nat)]

LEMMA ShownFrame ==
  ASSUME NEW v \in Views, NEW f \in Frames
  PROVE  /\ Shown(v, f) \in Views
         /\ Shown(v, f).card = CardAfter(v.card, f)
         /\ \A a : a \in Shown(v, f).presences <=>
                     Finds(f, a) \/ (a \in v.presences /\ ~Loses(f, a))
<1> DEFINE s == Shown(v, f)
<1>1. CASE f \in Devices
  <2>1. f.key \in Addrs /\ f.type \in {"device_found", "device_lost"} BY <1>1 DEF Devices
  <2>2. CASE f.type = "device_found"
    <3>1. s = [v EXCEPT !.presences = @ \cup {f.key}] BY <2>2 DEF Shown
    <3>2. CardAfter(v.card, f) = v.card BY <2>2 DEF CardAfter
    <3> QED BY <2>1, <2>2, <3>1, <3>2 DEF Views, Finds, Loses
  <2>3. CASE f.type = "device_lost"
    <3>1. s = [v EXCEPT !.presences = @ \ {f.key}] BY <2>3 DEF Shown
    <3>2. CardAfter(v.card, f) = v.card BY <2>3 DEF CardAfter
    <3> QED BY <2>1, <2>3, <3>1, <3>2 DEF Views, Finds, Loses
  <2> QED BY <2>1, <2>2, <2>3
<1>2. CASE f \in Drivers
  <2>1. f.key \in Nat /\ OfDriver(f) BY <1>2 DEF Drivers, OfDriver
  <2>2. \A a : ~Finds(f, a) /\ ~Loses(f, a) BY <2>1 DEF OfDriver, Finds, Loses
  <2>3. CASE f.type = "system.hello"
    <3>1. s = [v EXCEPT !.card = IF f.key > 0 THEN <<0>> ELSE <<>>] BY <2>3 DEF Shown
    <3>2. s.card = (IF f.key > 0 THEN <<0>> ELSE <<>>) BY <3>1 DEF Views
    <3>3. s.card \in Seq(Nat) BY <3>2
    <3>4. s.presences = v.presences /\ s \in Views BY <3>1, <3>2, <3>3 DEF Views
    <3> QED BY <2>2, <2>3, <3>2, <3>4 DEF CardAfter
  <2>4. CASE f.type = "driver.registered"
    <3>1. s = [v EXCEPT !.card = <<f.key>>] BY <2>4 DEF Shown
    <3>2. s.card = <<f.key>> /\ s.card \in Seq(Nat) BY <2>1, <3>1 DEF Views
    <3>3. s.presences = v.presences /\ s \in Views BY <3>1, <3>2 DEF Views
    <3> QED BY <2>2, <2>4, <3>2, <3>3 DEF CardAfter
  <2>5. CASE f.type = "driver.updated"
    <3>1. s = [v EXCEPT !.card = IF @ = <<>> THEN @ ELSE <<f.key>>] BY <2>5 DEF Shown
    <3>2. s.card = (IF v.card = <<>> THEN v.card ELSE <<f.key>>) BY <3>1 DEF Views
    <3>3. s.card \in Seq(Nat) BY <2>1, <3>2 DEF Views
    <3>4. s.presences = v.presences /\ s \in Views BY <3>1, <3>2, <3>3 DEF Views
    <3> QED BY <2>2, <2>5, <3>2, <3>4 DEF CardAfter
  <2> QED BY <2>1, <2>3, <2>4, <2>5 DEF OfDriver
<1>3. CASE f \in Notices
  <2>1. s = v BY <1>3 DEF Notices, Shown
  <2>2. CardAfter(v.card, f) = v.card BY <1>3 DEF Notices, CardAfter
  <2> QED BY <1>3, <2>1, <2>2 DEF Notices, Finds, Loses
<1> QED BY <1>1, <1>2, <1>3 DEF Frames

LEMMA DriverFrame ==
  ASSUME NEW f \in Frames, OfDriver(f)
  PROVE  f.key \in Nat
BY DEF Frames, Devices, Drivers, Notices, OfDriver

\* The first frame, taken, leaves the rest right for the card it makes.
LEMMA TakenCard ==
  ASSUME NEW P \in Seq(Frames), NEW T \in Seq(Frames), NEW w, NEW card, NEW v \in Nat,
         Taken(T, P), HelloAhead(P, w), CardKept(P, card, v)
  PROVE  CardKept(T, CardAfter(card, P[1]), v)
<1> DEFINE l == Len(P)
           t == Len(T)
           h == P[1]
           new == CardAfter(card, h)
<1>1. /\ l \in Nat /\ t \in Nat /\ l = t + 1 /\ DOMAIN P = 1 .. l /\ DOMAIN T = 1 .. t
      /\ 1 \in 1 .. l /\ h \in Frames
      /\ \A i \in 1 .. t : T[i] = P[i + 1] /\ i + 1 \in 1 .. l
  BY DEF Taken
<1>2. \A i \in 1 .. l : P[i].type = "system.hello" => i = 1 BY DEF HelloAhead, IsHello
<1> HIDE DEF l, t
<1>3. ASSUME NEW k \in 1 .. l, k # 1
      PROVE  \E j \in 1 .. t : k = j + 1 /\ T[j] = P[k]
  <2>1. k - 1 \in 1 .. t /\ k = (k - 1) + 1 BY <1>1, <1>3
  <2>2. T[k - 1] = P[k]
    <3> DEFINE x == k - 1
    <3>1. x \in 1 .. t /\ x + 1 = k BY <2>1
    <3> HIDE DEF x
    <3>2. T[x] = P[k] BY <1>1, <3>1
    <3> QED BY <3>2 DEF x
  <2> QED BY <2>1, <2>2
<1>4. /\ (\A i \in 1 .. l : ~OfDriver(P[i])) => CardAgrees(card, v)
      /\ \A i \in 1 .. l :
           OfDriver(P[i]) /\ (\A j \in 1 .. l : j > i => ~OfDriver(P[j])) => P[i].key = v
      /\ \A i \in 1 .. l : P[i].type = "driver.registered" => P[i].key > 0
      /\ \A i \in 1 .. l : P[i].type = "driver.updated" =>
           /\ P[i].key > 0
           /\ \/ \E j \in 1 .. l : j < i /\ P[j].type = "driver.registered"
              \/ \E j \in 1 .. l : P[j].type = "system.hello" /\ P[j].key > 0
              \/ card # <<>> /\ \A j \in 1 .. l : P[j].type # "system.hello"
  BY <1>1, Zenon DEF CardKept
<1>5. ASSUME NEW i \in 1 .. t PROVE T[i].type # "system.hello"
  <2> DEFINE x == i + 1
  <2>1. T[i] = P[x] /\ x \in 1 .. l /\ x # 1 BY <1>1
  <2> HIDE DEF x
  <2> QED BY <1>2, <2>1
\* An update comes first only to a console that has the card.
<1>6. ASSUME h.type = "driver.updated" PROVE card # <<>> /\ h.key > 0
  <2>1. ~\E j \in 1 .. l : j < 1 OBVIOUS
  <2>2. ~\E j \in 1 .. l : P[j].type = "system.hello" BY <1>2, <1>6
  <2> QED BY <1>1, <1>4, <1>6, <2>1, <2>2
<1>7. h.type = "driver.registered" => h.key > 0 BY <1>1, <1>4
<1>8. OfDriver(h) => h.key \in Nat BY <1>1, DriverFrame
<1> HIDE DEF h
<1>9. /\ h.type = "system.hello" => new = IF h.key > 0 THEN <<0>> ELSE <<>>
      /\ h.type \in {"driver.registered", "driver.updated"} => new = <<h.key>>
      /\ ~OfDriver(h) => new = card
  BY <1>6 DEF CardAfter, OfDriver
<1> HIDE DEF new
<1>10. ASSUME \A i \in 1 .. t : ~OfDriver(T[i]) PROVE CardAgrees(new, v)
  <2>1. ASSUME NEW k \in 1 .. l, k # 1 PROVE ~OfDriver(P[k]) BY <1>3, <1>10, <2>1
  <2>2. CASE ~OfDriver(h)
    <3>1. \A k \in 1 .. l : ~OfDriver(P[k]) BY <2>1, <2>2 DEF h
    <3> QED BY <1>4, <1>9, <2>2, <3>1
  <2>3. CASE OfDriver(h)
    <3>1. \A k \in 1 .. l : k > 1 => ~OfDriver(P[k]) BY <2>1
    <3>2. h.key = v BY <1>1, <1>4, <2>3, <3>1 DEF h
    <3>3. CASE h.type = "system.hello" BY <1>9, <3>2, <3>3 DEF CardAgrees
    <3>4. CASE h.type \in {"driver.registered", "driver.updated"}
      <4>1. v # 0 BY <1>6, <1>7, <3>2, <3>4
      <4> QED BY <1>9, <3>2, <3>4, <4>1 DEF CardAgrees
    <3> QED BY <2>3, <3>3, <3>4 DEF OfDriver
  <2> QED BY <2>2, <2>3
<1>11. ASSUME NEW i \in 1 .. t, OfDriver(T[i]), \A j \in 1 .. t : j > i => ~OfDriver(T[j])
       PROVE  T[i].key = v
  <2> DEFINE x == i + 1
  <2>1. T[i] = P[x] /\ x \in 1 .. l BY <1>1
  <2>2. ASSUME NEW k \in 1 .. l, k > x PROVE ~OfDriver(P[k])
    <3>1. k # 1 BY <2>2
    <3>2. PICK j \in 1 .. t : k = j + 1 /\ T[j] = P[k] BY <1>3, <3>1
    <3>3. j > i BY <2>2, <3>2
    <3> QED BY <1>11, <3>2, <3>3
  <2> HIDE DEF x
  <2> QED BY <1>4, <1>11, <2>1, <2>2
<1>12. ASSUME NEW i \in 1 .. t, T[i].type = "driver.registered" PROVE T[i].key > 0
  <2> DEFINE x == i + 1
  <2>1. T[i] = P[x] /\ x \in 1 .. l BY <1>1
  <2> HIDE DEF x
  <2> QED BY <1>4, <1>12, <2>1
<1>13. ASSUME NEW i \in 1 .. t, T[i].type = "driver.updated"
       PROVE  /\ T[i].key > 0
              /\ (\E j \in 1 .. t : j < i /\ T[j].type = "driver.registered") \/ new # <<>>
  <2> DEFINE x == i + 1
  <2>1. T[i] = P[x] /\ x \in 1 .. l BY <1>1
  <2>2. \A j \in 1 .. t : j + 1 < x => j < i OBVIOUS
  <2> HIDE DEF x
  <2>3. T[i].key > 0 /\ P[x].type = "driver.updated" BY <1>4, <1>13, <2>1
  <2>4. CASE \E j \in 1 .. l : j < x /\ P[j].type = "driver.registered"
    <3>1. PICK k \in 1 .. l : k < x /\ P[k].type = "driver.registered" BY <2>4
    <3>2. CASE k = 1
      <4>1. new = <<h.key>> BY <1>9, <3>1, <3>2 DEF h
      <4>2. new # <<>> BY <4>1
      <4> QED BY <2>3, <4>2
    <3>3. CASE k # 1
      <4>1. PICK j \in 1 .. t : k = j + 1 /\ T[j] = P[k] BY <1>3, <3>3
      <4>2. j < i BY <2>2, <3>1, <4>1
      <4> QED BY <2>3, <3>1, <4>1, <4>2
    <3> QED BY <3>2, <3>3
  <2>5. CASE \E j \in 1 .. l : P[j].type = "system.hello" /\ P[j].key > 0
    <3>1. h.type = "system.hello" /\ h.key > 0 BY <1>2, <2>5 DEF h
    <3>2. new = <<0>> BY <1>9, <3>1
    <3>3. new # <<>> BY <3>2
    <3> QED BY <2>3, <3>3
  <2>6. CASE card # <<>> /\ \A j \in 1 .. l : P[j].type # "system.hello"
    <3>1. h.type # "system.hello" BY <1>1, <2>6 DEF h
    <3>2. new = card \/ new = <<h.key>> BY <1>9, <3>1 DEF OfDriver
    <3>3. <<h.key>> # <<>> OBVIOUS
    <3>4. new # <<>> BY <2>6, <3>2, <3>3
    <3> QED BY <2>3, <3>4
  <2> QED BY <1>4, <2>1, <2>3, <2>4, <2>5, <2>6
<1> QED BY <1>1, <1>5, <1>10, <1>11, <1>12, <1>13, Zenon DEF CardKept, new, h

-----------------------------------------------------------------------------
\* What each step publishes.

LEMMA OneFrame ==
  ASSUME NEW f \in Frames
  PROVE  <<f>> \in Seq(Frames) /\ Len(<<f>>) = 1 /\ \A i \in 1 .. Len(<<f>>) : <<f>>[i] = f
OBVIOUS

\* Neither of these is about a device or the driver.
LEMMA NoticeFrame ==
  ASSUME NEW t \in {"board.status", "system.error"}
  PROVE  /\ Frame(t, Idle, 0) \in Frames /\ ~OfDriver(Frame(t, Idle, 0))
         /\ \A a : ~Finds(Frame(t, Idle, 0), a) /\ ~Loses(Frame(t, Idle, 0), a)
BY DEF Frame, Frames, Notices, OfDriver, Finds, Loses

LEMMA AdmitFrame ==
  ASSUME NEW v \in Nat
  PROVE  LET f == Frame(IF v = 0 THEN "driver.registered" ELSE "driver.updated", v + 1, 0)
         IN  /\ f \in Frames /\ ~IsHello(f) /\ f.key = v + 1
             /\ f.type = IF v = 0 THEN "driver.registered" ELSE "driver.updated"
             /\ \A a : ~Finds(f, a) /\ ~Loses(f, a)
BY DEF Frame, Frames, Drivers, IsHello, Finds, Loses

HelloFrame == Frame("system.hello", version, 0)

LEMMA HelloIs ==
  ASSUME version \in Nat
  PROVE  /\ HelloFrame \in Frames /\ HelloFrame.type = "system.hello"
         /\ HelloFrame.key = version /\ HelloFrame.seq = 0
BY DEF HelloFrame, Frame, Frames, Drivers

\* What the watcher announces when its scan has found s: what is new, then what is gone.
DiffEvents(s) ==
  SetToSeq({Found(a) : a \in s \ known}) \o SetToSeq({Lost(a) : a \in known \ s})

LEMMA DiffAnnounces ==
  ASSUME known \subseteq Addrs, NEW s \in SUBSET Addrs
  PROVE  LET e == DiffEvents(s)
         IN  /\ e \in Seq(Frames)
             /\ \A i \in 1 .. Len(e) :
                  \/ e[i].type = "device_found" /\ e[i].key \in s \ known
                  \/ e[i].type = "device_lost" /\ e[i].key \in known \ s
             /\ \A a \in s \ known : \E i \in 1 .. Len(e) : Finds(e[i], a)
             /\ \A a \in known \ s : \E i \in 1 .. Len(e) : Loses(e[i], a)
<1> DEFINE F == SetToSeq({Found(a) : a \in s \ known})
           L == SetToSeq({Lost(a) : a \in known \ s})
           e == F \o L
<1>1. Announces(F, "device_found", s \ known) BY FoundAnnounced
<1>2. Announces(L, "device_lost", known \ s) BY LostAnnounced
<1>3. e = DiffEvents(s) BY DEF DiffEvents
<1> HIDE DEF F, L
<1>4. /\ F \in Seq(Frames) /\ L \in Seq(Frames)
      /\ \A i \in 1 .. Len(F) : F[i].type = "device_found" /\ F[i].key \in s \ known
      /\ \A i \in 1 .. Len(L) : L[i].type = "device_lost" /\ L[i].key \in known \ s
      /\ \A a \in s \ known : \E i \in 1 .. Len(F) : F[i].key = a
      /\ \A a \in known \ s : \E i \in 1 .. Len(L) : L[i].key = a
  BY <1>1, <1>2 DEF Announces
<1>5. /\ e \in Seq(Frames) /\ Len(e) = Len(F) + Len(L)
      /\ \A i \in 1 .. Len(F) + Len(L) : e[i] = IF i <= Len(F) THEN F[i] ELSE L[i - Len(F)]
  BY <1>4, ConcatPlaces
<1>6. Appended(e, F, L) BY <1>5 DEF Appended
<1> HIDE DEF e
<1>7. /\ \A i \in 1 .. Len(F) : i \in 1 .. Len(e) /\ e[i] = F[i]
      /\ \A i \in 1 .. Len(L) : i + Len(F) \in 1 .. Len(e) /\ e[i + Len(F)] = L[i]
      /\ \A i \in 1 .. Len(e) :
           \/ i \in 1 .. Len(F) /\ e[i] = F[i]
           \/ i - Len(F) \in 1 .. Len(L) /\ e[i] = L[i - Len(F)]
  BY <1>4, <1>5, <1>6, AppendedPlaces
<1>8. ASSUME NEW i \in 1 .. Len(e)
      PROVE  \/ e[i].type = "device_found" /\ e[i].key \in s \ known
             \/ e[i].type = "device_lost" /\ e[i].key \in known \ s
  <2>1. CASE i \in 1 .. Len(F) /\ e[i] = F[i] BY <1>4, <2>1
  <2>2. CASE i - Len(F) \in 1 .. Len(L) /\ e[i] = L[i - Len(F)]
    <3> DEFINE x == i - Len(F)
    <3>1. x \in 1 .. Len(L) /\ e[i] = L[x] BY <2>2
    <3> HIDE DEF x
    <3> QED BY <1>4, <3>1
  <2> QED BY <1>7, <2>1, <2>2
<1>9. ASSUME NEW a \in s \ known PROVE \E i \in 1 .. Len(e) : Finds(e[i], a)
  <2>1. PICK i \in 1 .. Len(F) : F[i].key = a BY <1>4
  <2>2. i \in 1 .. Len(e) /\ e[i] = F[i] BY <1>7
  <2>3. Finds(e[i], a) BY <1>4, <2>1, <2>2 DEF Finds
  <2> QED BY <2>2, <2>3
<1>10. ASSUME NEW a \in known \ s PROVE \E i \in 1 .. Len(e) : Loses(e[i], a)
  <2>1. PICK i \in 1 .. Len(L) : L[i].key = a BY <1>4
  <2> DEFINE x == i + Len(F)
  <2>2. x \in 1 .. Len(e) /\ e[x] = L[i] BY <1>7
  <2> HIDE DEF x
  <2>3. Loses(e[x], a) BY <1>4, <2>1, <2>2 DEF Loses
  <2> QED BY <2>2, <2>3
<1> QED BY <1>3, <1>5, <1>8, <1>9, <1>10

-----------------------------------------------------------------------------
\* The type invariant.

LEMMA TypeInit == Init => TypeOK
<1> SUFFICES ASSUME Init PROVE TypeOK OBVIOUS
<1>1. <<>> \in Seq(Frames) /\ Len(<<>>) = 0 /\ <<>> \in Seq(Nat) OBVIOUS
<1>2. QueueSize \in Nat BY StreamAssumption
<1>3. EmptyView \in [presences : SUBSET Addrs, card : Seq(Nat)] BY <1>1 DEF EmptyView
<1>4. seq = 0 /\ received = 0 /\ received \in 0 .. seq BY DEF Init
<1>5. /\ wire \in Seq(Frames) /\ queue \in Seq(Frames) /\ Len(queue) <= QueueSize
      /\ view \in [presences : SUBSET Addrs, card : Seq(Nat)]
  BY <1>1, <1>2, <1>3 DEF Init
<1>6. /\ present \subseteq Addrs /\ known \subseteq Addrs /\ strays \subseteq Addrs
      /\ scan = Idle /\ asked \in BOOLEAN /\ dropped \in BOOLEAN
      /\ version \in Nat /\ seq \in Nat /\ phase \in {"down", "presences", "streaming"}
  BY DEF Init
<1> QED BY <1>4, <1>5, <1>6, Zenon DEF TypeOK

\* A publication, whatever else the step does to the variables it names.
LEMMA PublishTyped ==
  ASSUME TypeOK, NEW E \in Seq(Frames), Publish(E), UNCHANGED <<wire, phase, received, view>>
  PROVE  /\ seq' \in Nat /\ received' \in 0 .. seq' /\ dropped' \in BOOLEAN
         /\ queue' \in Seq(Frames) /\ Len(queue') <= QueueSize
         /\ phase' \in {"down", "presences", "streaming"} /\ wire' \in Seq(Frames)
         /\ view' \in [presences : SUBSET Addrs, card : Seq(Nat)]
<1>1. /\ seq' = seq + Len(E) /\ Len(E) \in Nat /\ dropped' \in BOOLEAN
      /\ queue' \in Seq(Frames) /\ Len(queue') <= QueueSize
  BY PublishType
<1>2. seq \in Nat /\ received \in 0 .. seq BY DEF TypeOK
<1>3. seq' \in Nat /\ received \in 0 .. seq' BY <1>1, <1>2
<1> QED BY <1>1, <1>3 DEF TypeOK

LEMMA TypeStep == TypeOK /\ StreamInv /\ [Next]_vars => TypeOK'
<1> SUFFICES ASSUME TypeOK, StreamInv, [Next]_vars PROVE TypeOK' OBVIOUS
<1>1. ASSUME NEW a \in Addrs, Plug(a) PROVE TypeOK' BY <1>1 DEF Plug, stream, TypeOK
<1>2. CASE Admit
  <2> DEFINE E == <<Frame(IF version = 0 THEN "driver.registered" ELSE "driver.updated",
                          version', 0)>>
  <2>1. version \in Nat /\ version' = version + 1 /\ version' \in Nat BY <1>2 DEF TypeOK, Admit
  <2>2. E \in Seq(Frames) BY <2>1, AdmitFrame, OneFrame
  <2>3. Publish(E) BY <1>2 DEF Admit
  <2> HIDE DEF E
  <2> QED BY <1>2, <2>1, <2>2, <2>3, PublishTyped DEF Admit, TypeOK
<1>3. CASE WatcherScans BY <1>3 DEF WatcherScans, ScanBy, env, stream, TypeOK
<1>4. CASE WatcherDiffs
  <2>1. scan[2] \in SUBSET Addrs BY <1>4 DEF WatcherDiffs, TypeOK
  <2>2. DiffEvents(scan[2]) \in Seq(Frames) BY <2>1, DiffAnnounces DEF TypeOK
  <2>3. Publish(DiffEvents(scan[2])) BY <1>4 DEF WatcherDiffs, Diff, DiffEvents
  <2> QED BY <1>4, <2>1, <2>2, <2>3, PublishTyped DEF WatcherDiffs, Diff, env, TypeOK
<1>5. CASE ScanFails
  <2>1. CASE UNCHANGED stream BY <1>5, <2>1 DEF ScanFails, env, stream, TypeOK
  <2>2. CASE Publish(<<Frame("system.error", Idle, 0)>>)
    <3>1. <<Frame("system.error", Idle, 0)>> \in Seq(Frames) BY NoticeFrame, OneFrame
    <3> QED BY <1>5, <2>2, <3>1, PublishTyped DEF ScanFails, env, TypeOK
  <2> QED BY <1>5, <2>1, <2>2 DEF ScanFails
<1>6. CASE UserAsksForScan
  <2>1. CASE UNCHANGED stream BY <1>6, <2>1 DEF UserAsksForScan, env, stream, TypeOK
  <2>2. CASE Publish(<<Frame("board.status", Idle, 0)>>)
    <3>1. <<Frame("board.status", Idle, 0)>> \in Seq(Frames) BY NoticeFrame, OneFrame
    <3> QED BY <1>6, <2>2, <3>1, PublishTyped DEF UserAsksForScan, env, TypeOK
  <2> QED BY <1>6, <2>1, <2>2 DEF UserAsksForScan
<1>7. CASE UserScans BY <1>7 DEF UserScans, ScanBy, env, stream, TypeOK
<1>8. CASE UserScanAnnounces
  <2> DEFINE E == SetToSeq({Found(a) : a \in scan[2]})
  <2>1. scan[2] \in SUBSET Addrs BY <1>8 DEF UserScanAnnounces, TypeOK
  <2>2. E \in Seq(Frames) BY <2>1, FoundAnnounced DEF Announces
  <2>3. Publish(E) BY <1>8 DEF UserScanAnnounces
  <2> HIDE DEF E
  <2> QED BY <1>8, <2>1, <2>2, <2>3, PublishTyped DEF UserScanAnnounces, env, TypeOK
<1>9. CASE Connect
  <2>1. HelloFrame \in Frames BY HelloIs DEF TypeOK
  <2>2. wire' \in Seq(Frames) BY <1>9, <2>1, OneFrame DEF Connect, HelloFrame
  <2>3. <<>> \in Seq(Frames) /\ Len(<<>>) = 0 /\ QueueSize \in Nat BY StreamAssumption
  <2>4. view.presences \subseteq Addrs BY DEF TypeOK
  <2> QED BY <1>9, <2>2, <2>3, <2>4 DEF Connect, env, TypeOK
<1>10. CASE SendPresences
  <2>1. Presences \in Seq(Frames) BY FoundAnnounced DEF Announces, Presences, TypeOK
  <2>2. wire' \in Seq(Frames) BY <1>10, <2>1 DEF SendPresences, TypeOK
  <2> QED BY <1>10, <2>2 DEF SendPresences, env, stream, TypeOK
<1>11. CASE Forward
  <2>1. /\ Tail(queue) \in Seq(Frames) /\ Len(Tail(queue)) = Len(queue) - 1
        /\ Len(queue) \in Nat /\ Head(queue) \in Frames
    BY <1>11, TailPlaces DEF Forward, TypeOK
  <2>2. Len(Tail(queue)) <= QueueSize BY <2>1, StreamAssumption DEF TypeOK
  <2>3. wire' \in Seq(Frames) BY <1>11, <2>1 DEF Forward, TypeOK
  <2> QED BY <1>11, <2>1, <2>2, <2>3 DEF Forward, env, TypeOK
<1>12. CASE Disconnect
  <2>1. <<>> \in Seq(Frames) /\ Len(<<>>) = 0 /\ QueueSize \in Nat BY StreamAssumption
  <2>2. EmptyView \in [presences : SUBSET Addrs, card : Seq(Nat)] BY DEF EmptyView
  <2>3. received' \in 0 .. seq' BY <1>12 DEF Disconnect, TypeOK
  <2>4. /\ wire' \in Seq(Frames) /\ queue' \in Seq(Frames) /\ Len(queue') <= QueueSize
        /\ view' \in [presences : SUBSET Addrs, card : Seq(Nat)]
    BY <1>12, <2>1, <2>2 DEF Disconnect, TypeOK
  <2>5. /\ strays' = {} /\ dropped' = FALSE /\ phase' = "down"
        /\ UNCHANGED <<present, version, known, scan, asked, seq>>
    BY <1>12 DEF Disconnect, env
  <2>6. strays' \subseteq Addrs BY <2>5
  <2> HIDE <1>12
  <2> QED BY <2>3, <2>4, <2>5, <2>6 DEF TypeOK
<1>13. CASE Receive
  <2>1. Tail(wire) \in Seq(Frames) /\ Head(wire) \in Frames
    BY <1>13, TailPlaces DEF Receive, TypeOK
  <2>2. view' \in [presences : SUBSET Addrs, card : Seq(Nat)]
    BY <1>13, <2>1, ShownFrame DEF Receive, TypeOK, Views
  <2>3. received' \in 0 .. seq
    <3>1. phase # "down" BY <1>13 DEF Receive, StreamInv
    <3>2. /\ Len(Pending) = Len(wire) + Len(queue) /\ Len(queue) \in Nat
          /\ \A i \in 1 .. Len(Pending) :
               Pending[i] = IF i <= Len(wire) THEN wire[i] ELSE queue[i - Len(wire)]
      BY PendingType
    <3>3. Len(wire) \in Nat /\ Len(wire) > 0 /\ Head(wire) = wire[1]
      BY <1>13, TailPlaces DEF Receive, TypeOK
    <3>4. 1 \in 1 .. Len(Pending) /\ Pending[1] = Head(wire) BY <3>2, <3>3
    <3>5. Numbered(Pending, received, seq) BY <3>1, IntactNow DEF StreamInv
    <3>6. seq \in Nat /\ received \in 0 .. seq BY DEF TypeOK
    <3> DEFINE h == Pending[1].seq
    <3>7. h \in Nat /\ (h = 0 \/ (received < h /\ h <= seq)) BY <3>4, <3>5 DEF Numbered
    <3>8. received' = IF h > 0 THEN h ELSE received BY <1>13, <3>4 DEF Receive
    <3> HIDE DEF h
    <3> QED BY <3>6, <3>7, <3>8
  <2> QED BY <1>13, <2>1, <2>2, <2>3 DEF Receive, env, stream, TypeOK
<1>14. CASE UNCHANGED vars BY <1>14 DEF vars, env, stream, TypeOK
<1> QED BY <1>1, <1>2, <1>3, <1>4, <1>5, <1>6, <1>7, <1>8, <1>9, <1>10, <1>11, <1>12, <1>13,
           <1>14 DEF Next

-----------------------------------------------------------------------------
\* The invariant, over a publication.

LEMMA LivePhase ==
  ASSUME TypeOK, StreamInv, phase # "down"
  PROVE  /\ StreamIntact /\ NumbersKnown /\ HelloFirst /\ PresencesKept /\ CardsKept
         /\ Ordered(Pending) /\ Newest(Pending, received, seq)
         /\ Numbered(Pending, received, seq)
         /\ ~dropped => Whole(Pending, received, seq)
         /\ HelloAhead(Pending, Len(wire))
         /\ phase = "presences" => OnlyHello(Pending, Len(wire))
BY IntactNow, HelloNow DEF StreamInv

\* What is published by a step that leaves the connection alone is stamped and follows
\* on; behind a console that has lost nothing it is appended.
LEMMA PublishStep ==
  ASSUME TypeOK, TypeOK', StreamInv, NEW E \in Seq(Frames), Publish(E),
         UNCHANGED <<wire, phase, received>>, phase # "down",
         \A i \in 1 .. Len(E) : ~IsHello(E[i])
  PROVE  /\ StreamIntact' /\ NumbersKnown' /\ HelloFirst'
         /\ ~dropped' => ~dropped /\ Appended(Pending', Pending, Stamped(E))
<1> DEFINE e == Stamped(E)
           P == Pending
           T == Pending'
           w == Len(wire)
<1>1. /\ Ordered(P) /\ Newest(P, received, seq) /\ Numbered(P, received, seq)
      /\ ~dropped => Whole(P, received, seq)
      /\ HelloAhead(P, w)
      /\ phase = "presences" => OnlyHello(P, w)
  BY LivePhase
<1>2. /\ e \in Seq(Frames) /\ Len(e) = Len(E) /\ Len(e) \in Nat
      /\ \A i \in 1 .. Len(e) : e[i].type = E[i].type /\ e[i].seq = seq + i
  BY StampedPlaces DEF TypeOK
<1>3. PICK d \in Nat :
        /\ Published(T, P, e, w, d)
        /\ Len(E) > 0 => Len(T) > w
        /\ ~dropped' \/ Len(E) = 0 => d = 0
  BY PublishPending
<1>4. /\ P \in Seq(Frames) /\ T \in Seq(Frames) /\ w \in Nat
      /\ received \in Nat /\ seq \in Nat /\ received <= seq
  <2>1. P \in Seq(Frames) /\ w \in Nat BY PendingType
  <2>2. T \in Seq(Frames) BY ConcatPlaces DEF Pending, TypeOK
  <2> QED BY <2>1, <2>2 DEF TypeOK
<1>5. \A i \in 1 .. Len(e) : ~IsHello(e[i]) BY <1>2 DEF IsHello
<1>6. seq' = seq + Len(e) /\ received' = received /\ wire' = wire /\ phase' = phase
  BY <1>2, PublishType
<1>7. dropped => dropped' BY PublishType
<1> HIDE DEF e, P, T, w
<1>8. /\ Ordered(T) /\ Newest(T, received, seq + Len(e)) /\ Numbered(T, received, seq + Len(e))
      /\ d = 0 /\ Whole(P, received, seq) => Whole(T, received, seq + Len(e))
  BY <1>1, <1>2, <1>3, <1>4, PublishedNumbers
<1>9. HelloAhead(T, w) /\ (OnlyHello(P, w) => OnlyHello(T, w))
  BY <1>1, <1>2, <1>3, <1>4, <1>5, PublishedHello, Zenon
<1>10. StreamIntact' /\ NumbersKnown'
  <2>1. ~dropped' => Whole(T, received, seq + Len(e)) BY <1>1, <1>3, <1>7, <1>8, Zenon
  <2>2. phase' # "down" BY <1>6
  <2> QED BY <1>6, <1>8, <2>1, <2>2, IntactNext, Zenon DEF T
<1>11. HelloFirst'
  <2>1. w = Len(wire') BY <1>6 DEF w
  <2>2. HelloAhead(T, w) /\ (phase' = "presences" => OnlyHello(T, w)) BY <1>1, <1>6, <1>9
  <2> QED BY <2>1, <2>2, HelloNext DEF T
<1>12. ASSUME ~dropped' PROVE ~dropped /\ Appended(T, P, e)
  <2>1. Published(T, P, e, w, 0) BY <1>3, <1>12, Zenon
  <2> QED BY <1>2, <1>4, <1>7, <1>12, <2>1, PublishedAppends, Zenon
<1> QED BY <1>10, <1>11, <1>12 DEF T, P, e

\* Whose card is up does not change with frames that are not about presences.
LEMMA PublishOthers ==
  ASSUME TypeOK, TypeOK', StreamInv, NEW E \in Seq(Frames), Publish(E),
         UNCHANGED <<wire, phase, received, view, known, strays>>, phase # "down",
         \A i \in 1 .. Len(E) : ~IsHello(E[i]) /\ \A a : ~Finds(E[i], a) /\ ~Loses(E[i], a)
  PROVE  PresencesKept'
<1> DEFINE e == Stamped(E)
<1>1. PresencesKept BY LivePhase
<1>2. e \in Seq(Frames) /\ \A i \in 1 .. Len(e) : \A a : ~Finds(e[i], a) /\ ~Loses(e[i], a)
  <2>1. /\ e \in Seq(Frames) /\ Len(e) = Len(E)
        /\ \A i \in 1 .. Len(e) : e[i].type = E[i].type /\ e[i].key = E[i].key
    BY StampedPlaces DEF TypeOK
  <2> HIDE DEF e
  <2> QED BY <2>1 DEF Finds, Loses
<1>3. ~dropped' => ~dropped /\ Appended(Pending', Pending, e) BY PublishStep
<1>4. Pending \in Seq(Frames) /\ Pending' \in Seq(Frames)
  BY PendingType, ConcatPlaces DEF Pending, TypeOK
<1> HIDE DEF e
<1>5. ASSUME ~dropped', NEW a \in Addrs
      PROVE  (a \in known \cup strays)' <=> UpAfter(Pending', UpNow(a)', a)
  <2>1. UpNow(a)' = UpNow(a) /\ UpNow(a) \in BOOLEAN BY DEF UpNow
  <2>2. ~dropped /\ Appended(Pending', Pending, e) BY <1>3, <1>5
  <2> DEFINE up == UpNow(a)
             T == Pending'
             P == Pending
  <2>3. up \in BOOLEAN BY <2>1
  <2>6. P \in Seq(Frames) /\ T \in Seq(Frames) /\ Appended(T, P, e) BY <1>4, <2>2
  <2>7. (\A i \in 1 .. Len(e) : ~Loses(e[i], a)) /\ ~\E i \in 1 .. Len(e) : Finds(e[i], a)
    BY <1>2
  <2> HIDE DEF up, T, P
  <2>4. UpAfter(T, up, a) <=> UpAfter(P, up, a) BY <1>2, <2>3, <2>6, <2>7, AppendedUp
  <2>5. a \in known \cup strays <=> UpAfter(P, up, a)
    BY <1>1, <2>2 DEF PresencesKept, P, up
  <2> QED BY <2>1, <2>4, <2>5 DEF T, up
<1> QED BY <1>1, <1>5 DEF PresencesKept

\* The driver card does not change with frames that are not about the driver.
LEMMA PublishNoDriver ==
  ASSUME TypeOK, TypeOK', StreamInv, NEW E \in Seq(Frames), Publish(E),
         UNCHANGED <<wire, phase, received, view, version>>, phase # "down",
         \A i \in 1 .. Len(E) : ~OfDriver(E[i])
  PROVE  CardsKept'
<1> DEFINE e == Stamped(E)
           P == Pending
           T == Pending'
<1>1. CardsKept BY LivePhase
<1>2. e \in Seq(Frames) /\ \A i \in 1 .. Len(e) : ~OfDriver(e[i])
  <2>1. /\ e \in Seq(Frames) /\ Len(e) = Len(E)
        /\ \A i \in 1 .. Len(e) : e[i].type = E[i].type
    BY StampedPlaces DEF TypeOK
  <2> HIDE DEF e
  <2> QED BY <2>1 DEF OfDriver
<1>3. ~dropped' => ~dropped /\ Appended(T, P, e)
  <2>1. \A i \in 1 .. Len(E) : ~IsHello(E[i]) BY DEF OfDriver, IsHello
  <2> QED BY <2>1, PublishStep
<1>4. P \in Seq(Frames) /\ T \in Seq(Frames) /\ Len(P) \in Nat
  BY PendingType, ConcatPlaces DEF Pending, TypeOK
<1> HIDE DEF e, P, T
<1>5. ASSUME ~dropped' PROVE CardKept(T, view.card, version)
  <2>1. ~dropped /\ Inserted(T, P, e, Len(P)) BY <1>2, <1>3, <1>4, <1>5, AppendedInserted
  <2>2. CardKept(P, view.card, version) BY <1>1, <2>1 DEF CardsKept, P
  <2> QED BY <1>2, <1>4, <2>1, <2>2, InsertedCard
<1> QED BY <1>5 DEF CardsKept, T

-----------------------------------------------------------------------------
\* The invariant, step by step.

LEMMA InvInit == Init => StreamInv
BY DEF Init, StreamInv

\* Of the frames stamped of E, what E says of a.
LEMMA StampedSays ==
  ASSUME NEW E \in Seq(Frames), seq \in Nat
  PROVE  /\ Stamped(E) \in Seq(Frames)
         /\ \A a : \A i \in 1 .. Len(E) : /\ Finds(Stamped(E)[i], a) <=> Finds(E[i], a)
                                          /\ Loses(Stamped(E)[i], a) <=> Loses(E[i], a)
         /\ Len(Stamped(E)) = Len(E)
BY StampedPlaces DEF Finds, Loses

\* The watcher: what it has found is up, what it has lost is down.
LEMMA DiffPresences ==
  ASSUME TypeOK, TypeOK', StreamInv, WatcherDiffs, phase # "down"
  PROVE  PresencesKept'
<1> DEFINE s == scan[2]
           E == DiffEvents(s)
           e == Stamped(E)
           P == Pending
           T == Pending'
<1>1. s \in SUBSET Addrs /\ known \subseteq Addrs BY DEF WatcherDiffs, TypeOK
<1>2. /\ E \in Seq(Frames)
      /\ \A i \in 1 .. Len(E) :
           \/ E[i].type = "device_found" /\ E[i].key \in s \ known
           \/ E[i].type = "device_lost" /\ E[i].key \in known \ s
      /\ \A a \in s \ known : \E i \in 1 .. Len(E) : Finds(E[i], a)
      /\ \A a \in known \ s : \E i \in 1 .. Len(E) : Loses(E[i], a)
  BY <1>1, DiffAnnounces
<1>3. Publish(E) /\ known' = s /\ strays' = strays \ s
      /\ UNCHANGED <<wire, phase, received, view>>
  BY DEF WatcherDiffs, Diff, DiffEvents
<1>4. PresencesKept BY LivePhase
<1> HIDE DEF E
<1>5. /\ e \in Seq(Frames)
      /\ \A a \in s \ known : \E i \in 1 .. Len(e) : Finds(e[i], a)
      /\ \A a \in known \ s : \E i \in 1 .. Len(e) : Loses(e[i], a)
      /\ \A a : \A i \in 1 .. Len(e) :
           (Finds(e[i], a) => a \in s \ known) /\ (Loses(e[i], a) => a \in known \ s)
  <2>1. /\ e \in Seq(Frames) /\ Len(e) = Len(E)
        /\ \A a : \A i \in 1 .. Len(E) : /\ Finds(e[i], a) <=> Finds(E[i], a)
                                         /\ Loses(e[i], a) <=> Loses(E[i], a)
    BY <1>2, StampedSays DEF TypeOK
  <2>2. \A a : \A i \in 1 .. Len(E) :
          (Finds(E[i], a) => a \in s \ known) /\ (Loses(E[i], a) => a \in known \ s)
    BY <1>2 DEF Finds, Loses
  <2> HIDE DEF e
  <2> QED BY <1>2, <2>1, <2>2
<1>6. ~dropped' => ~dropped /\ Appended(T, P, e)
  <2>1. \A i \in 1 .. Len(E) : ~IsHello(E[i]) BY <1>2 DEF IsHello
  <2> QED BY <1>2, <1>3, <2>1, PublishStep
<1>7. P \in Seq(Frames) /\ T \in Seq(Frames)
  BY PendingType, ConcatPlaces DEF Pending, TypeOK
<1> HIDE DEF e, P, T, s
<1>8. ASSUME ~dropped', NEW a \in Addrs
      PROVE  a \in s \cup (strays \ s) <=> UpAfter(T, UpNow(a)', a)
  <2> DEFINE up == UpNow(a)'
             was == UpNow(a)
  <2>1. up \in BOOLEAN /\ was \in BOOLEAN BY DEF UpNow
  <2>2. (a \in s <=> a \in known) => (up <=> was) BY <1>3 DEF UpNow
  <2> HIDE DEF up, was
  <2>3. Appended(T, P, e) /\ (a \in known \cup strays <=> UpAfter(P, was, a))
    BY <1>4, <1>6, <1>8 DEF PresencesKept, P, was
  <2>4. CASE a \in s \ known
    <3>1. \E i \in 1 .. Len(e) : Finds(e[i], a) BY <1>5, <2>4
    <3>2. \A i \in 1 .. Len(e) : ~Loses(e[i], a) BY <1>5, <2>4
    <3>3. UpAfter(T, up, a) BY <1>5, <1>7, <2>1, <2>3, <3>1, <3>2, AppendedUp
    <3> QED BY <2>4, <3>3 DEF up
  <2>5. CASE a \in known \ s
    <3>1. PICK n \in 1 .. Len(e) : Loses(e[n], a) BY <1>5, <2>5
    <3>2. \A i \in 1 .. Len(e) : ~Finds(e[i], a) BY <1>5, <2>5
    <3>3. ~UpAfter(T, up, a) BY <1>5, <1>7, <2>1, <2>3, <3>1, <3>2, AppendedDown
    <3>4. a \notin s \cup (strays \ s) BY <1>4, <2>5 DEF PresencesKept
    <3> QED BY <3>3, <3>4 DEF up
  <2>6. CASE a \in s <=> a \in known
    <3>1. \A i \in 1 .. Len(e) : ~Finds(e[i], a) /\ ~Loses(e[i], a) BY <1>5, <2>6
    <3>2. UpAfter(T, was, a) <=> UpAfter(P, was, a)
      BY <1>5, <1>7, <2>1, <2>3, <3>1, AppendedUp
    <3>3. up = was BY <2>1, <2>2, <2>6
    <3>4. a \in s \cup (strays \ s) <=> a \in known \cup strays BY <2>6
    <3> QED BY <2>3, <3>2, <3>3, <3>4 DEF up
  <2> QED BY <2>4, <2>5, <2>6
<1>9. s \cap (strays \ s) = {} OBVIOUS
<1> QED BY <1>3, <1>8, <1>9 DEF PresencesKept, T

\* A user's scan: what has answered is up; the watcher takes it down only if it knows it.
LEMMA UserPresences ==
  ASSUME TypeOK, TypeOK', StreamInv, UserScanAnnounces, phase # "down"
  PROVE  PresencesKept'
<1> DEFINE s == scan[2]
           E == SetToSeq({Found(a) : a \in s})
           e == Stamped(E)
           P == Pending
           T == Pending'
<1>1. s \in SUBSET Addrs BY DEF UserScanAnnounces, TypeOK
<1>2. Announces(E, "device_found", s) BY <1>1, FoundAnnounced
<1>3. /\ Publish(E) /\ known' = known /\ strays' = strays \cup (s \ known)
      /\ UNCHANGED <<wire, phase, received, view>>
  BY DEF UserScanAnnounces
<1>4. PresencesKept BY LivePhase
<1> HIDE DEF E
<1>5. /\ E \in Seq(Frames)
      /\ \A i \in 1 .. Len(E) : E[i].type = "device_found" /\ E[i].key \in s
      /\ \A a \in s : \E i \in 1 .. Len(E) : E[i].key = a
  BY <1>2 DEF Announces
<1>6. /\ e \in Seq(Frames)
      /\ \A a : (\E i \in 1 .. Len(e) : Finds(e[i], a)) <=> a \in s
      /\ \A a : \A i \in 1 .. Len(e) : ~Loses(e[i], a)
  <2>1. /\ e \in Seq(Frames) /\ Len(e) = Len(E)
        /\ \A a : \A i \in 1 .. Len(E) : /\ Finds(e[i], a) <=> Finds(E[i], a)
                                         /\ Loses(e[i], a) <=> Loses(E[i], a)
    BY <1>5, StampedSays DEF TypeOK
  <2>2. \A a : \A i \in 1 .. Len(E) : ~Loses(E[i], a) /\ (Finds(E[i], a) <=> E[i].key = a)
    BY <1>5 DEF Finds, Loses
  <2> HIDE DEF e, s
  <2>3. ASSUME NEW a PROVE (\E i \in 1 .. Len(e) : Finds(e[i], a)) <=> a \in s
    <3>1. \A i \in 1 .. Len(e) : Finds(e[i], a) <=> E[i].key = a BY <2>1, <2>2
    <3>2. (\E i \in 1 .. Len(e) : E[i].key = a) <=> a \in s BY <1>5, <2>1
    <3> QED BY <3>1, <3>2
  <2> QED BY <2>1, <2>2, <2>3
<1>7. ~dropped' => ~dropped /\ Appended(T, P, e)
  <2>1. \A i \in 1 .. Len(E) : ~IsHello(E[i]) BY <1>5 DEF IsHello
  <2> QED BY <1>3, <1>5, <2>1, PublishStep
<1>8. P \in Seq(Frames) /\ T \in Seq(Frames)
  BY PendingType, ConcatPlaces DEF Pending, TypeOK
<1> HIDE DEF e, P, T, s
<1>9. ASSUME ~dropped', NEW a \in Addrs
      PROVE  a \in known \cup strays \cup (s \ known) <=> UpAfter(T, UpNow(a)', a)
  <2> DEFINE was == UpNow(a)
  <2>1. was \in BOOLEAN /\ UpNow(a)' = was BY <1>3 DEF UpNow
  <2> HIDE DEF was
  <2>2. Appended(T, P, e) /\ (a \in known \cup strays <=> UpAfter(P, was, a))
    BY <1>4, <1>7, <1>9 DEF PresencesKept, P, was
  <2>3. UpAfter(T, was, a) <=> UpAfter(P, was, a) \/ a \in s
    <3>1. /\ \A i \in 1 .. Len(e) : ~Loses(e[i], a)
          /\ (\E i \in 1 .. Len(e) : Finds(e[i], a)) <=> a \in s
      BY <1>6
    <3>2. UpAfter(T, was, a) <=> UpAfter(P, was, a) \/ \E i \in 1 .. Len(e) : Finds(e[i], a)
      BY <1>6, <1>8, <2>1, <2>2, <3>1, AppendedUp
    <3> QED BY <3>1, <3>2, Zenon
  <2> QED BY <2>1, <2>2, <2>3
<1>10. known \cap (strays \cup (s \ known)) = {} BY <1>4 DEF PresencesKept
<1> QED BY <1>3, <1>9, <1>10 DEF PresencesKept, T

\* An admission: the card will be that of the new version.
LEMMA AdmitCards ==
  ASSUME TypeOK, TypeOK', StreamInv, Admit, phase # "down"
  PROVE  StreamIntact' /\ NumbersKnown' /\ HelloFirst' /\ PresencesKept' /\ CardsKept'
<1> DEFINE f == Frame(IF version = 0 THEN "driver.registered" ELSE "driver.updated",
                      version + 1, 0)
           E == <<f>>
           e == Stamped(E)
           P == Pending
           T == Pending'
<1>1. /\ version \in Nat /\ version' = version + 1 /\ Publish(E)
      /\ UNCHANGED <<wire, phase, received, view, known, strays>>
  BY DEF Admit, TypeOK
<1>2. /\ f \in Frames /\ ~IsHello(f) /\ f.key = version + 1
      /\ f.type = IF version = 0 THEN "driver.registered" ELSE "driver.updated"
      /\ \A a : ~Finds(f, a) /\ ~Loses(f, a)
  BY <1>1, AdmitFrame
<1> HIDE DEF f
<1>3. E \in Seq(Frames) /\ Len(E) = 1 /\ \A i \in 1 .. Len(E) : E[i] = f BY <1>2, OneFrame
<1> HIDE DEF E
<1>4. \A i \in 1 .. Len(E) : ~IsHello(E[i]) /\ \A a : ~Finds(E[i], a) /\ ~Loses(E[i], a)
  BY <1>2, <1>3
<1>5. /\ StreamIntact' /\ NumbersKnown' /\ HelloFirst'
      /\ ~dropped' => ~dropped /\ Appended(T, P, e)
  BY <1>1, <1>3, <1>4, PublishStep
<1>6. PresencesKept' BY <1>1, <1>3, <1>4, PublishOthers
<1>7. /\ e \in Seq(Frames) /\ Len(e) = 1 /\ e[1].key = version + 1
      /\ e[1].type = IF version = 0 THEN "driver.registered" ELSE "driver.updated"
  <2>1. /\ e \in Seq(Frames) /\ Len(e) = Len(E)
        /\ \A i \in 1 .. Len(E) : e[i].type = E[i].type /\ e[i].key = E[i].key
    <3>1. seq \in Nat BY DEF TypeOK
    <3> QED BY <1>3, <3>1, StampedPlaces
  <2>2. 1 \in 1 .. Len(E) /\ E[1] = f BY <1>3
  <2> HIDE DEF e
  <2> QED BY <1>2, <1>3, <2>1, <2>2
<1>8. P \in Seq(Frames) /\ T \in Seq(Frames)
  BY PendingType, ConcatPlaces DEF Pending, TypeOK
<1>9. CardsKept BY LivePhase
<1> HIDE DEF e, P, T
<1>10. ASSUME ~dropped' PROVE CardKept(T, view.card, version + 1)
  <2>1. ~dropped /\ Appended(T, P, e) BY <1>5, <1>10
  <2>2. CardKept(P, view.card, version) BY <1>9, <2>1 DEF CardsKept, P
  <2> QED BY <1>1, <1>7, <1>8, <2>1, <2>2, AdmittedCard
<1>11. CardsKept' BY <1>1, <1>10 DEF CardsKept, T
<1> QED BY <1>5, <1>6, <1>11

LEMMA ConnectStep ==
  ASSUME TypeOK, TypeOK', Connect
  PROVE  StreamIntact' /\ NumbersKnown' /\ HelloFirst' /\ PresencesKept' /\ CardsKept'
<1> DEFINE h == HelloFrame
           T == Pending'
<1>1. h \in Frames /\ h.type = "system.hello" /\ h.key = version /\ h.seq = 0
  BY HelloIs DEF TypeOK
<1>2. /\ wire' = <<h>> /\ queue' = <<>> /\ phase' = "presences" /\ received' = seq /\ seq' = seq
      /\ strays' = view.presences \ known /\ known' = known /\ view' = view
      /\ version' = version /\ seq \in Nat
  BY DEF Connect, HelloFrame, env, TypeOK
<1> HIDE DEF h
<1>3. <<h>> \in Seq(Frames) /\ Len(<<h>>) = 1 /\ <<h>>[1] = h BY <1>1, OneFrame
<1>4. T = <<h>> BY <1>2, <1>3 DEF Pending
<1> HIDE DEF T
<1>5. /\ T \in Seq(Frames) /\ Len(T) = 1 /\ T[1] = h /\ DOMAIN T = {1}
      /\ \A i \in 1 .. Len(T) : i = 1 /\ T[i] = h
  BY <1>3, <1>4
<1>6. StreamIntact' /\ NumbersKnown'
  <2>1. Ordered(T) BY <1>1, <1>5 DEF Ordered
  <2>2. Newest(T, seq, seq) BY DEF Newest
  <2>3. Numbered(T, seq, seq) BY <1>1, <1>5 DEF Numbered
  <2>4. Whole(T, seq, seq) BY <1>2 DEF Whole
  <2>5. phase' # "down" BY <1>2
  <2> QED BY <1>2, <2>1, <2>2, <2>3, <2>4, <2>5, IntactNext DEF T
<1>7. HelloFirst'
  <2>1. Len(wire') = 1 BY <1>2, <1>3
  <2>2. HelloAhead(T, 1) /\ OnlyHello(T, 1) BY <1>1, <1>5 DEF HelloAhead, OnlyHello, IsHello
  <2> QED BY <2>1, <2>2, HelloNext DEF T
<1>8. ASSUME NEW a \in Addrs
      PROVE  (a \in known \cup strays)' <=> UpAfter(T, UpNow(a)', a)
  <2> DEFINE up == UpNow(a)'
  <2>1. up <=> a \in view.presences \/ a \in known BY <1>2 DEF UpNow
  <2> HIDE DEF up
  <2>2. \A i \in 1 .. Len(T) : ~Finds(T[i], a) /\ ~Loses(T[i], a)
    BY <1>1, <1>5 DEF Finds, Loses
  <2>3. UpAfter(T, up, a) <=> up BY <2>2, Zenon DEF UpAfter
  <2> QED BY <1>2, <2>1, <2>3 DEF up
<1>9. PresencesKept' BY <1>2, <1>8 DEF PresencesKept, T
<1>10. CardKept(T, view.card, version)
  <2>1. OfDriver(h) /\ h.type # "driver.registered" /\ h.type # "driver.updated"
    BY <1>1 DEF OfDriver
  <2>2. DOMAIN T = {1} BY <1>5
  <2> QED BY <1>1, <1>5, <2>1, <2>2 DEF CardKept
<1>11. CardsKept' BY <1>2, <1>10 DEF CardsKept, T
<1> QED BY <1>6, <1>7, <1>9, <1>11

LEMMA PresencesStep ==
  ASSUME TypeOK, TypeOK', StreamInv, SendPresences
  PROVE  StreamIntact' /\ NumbersKnown' /\ HelloFirst' /\ PresencesKept' /\ CardsKept'
<1> DEFINE e == Presences
           P == Pending
           T == Pending'
           w == Len(wire)
<1>1. /\ phase = "presences" /\ phase' = "streaming" /\ wire' = wire \o e
      /\ UNCHANGED <<queue, seq, dropped, version, known, view, received, strays>>
  BY DEF SendPresences, env, stream
<1>2. Announces(e, "device_found", known) BY FoundAnnounced DEF Presences, TypeOK
<1> HIDE DEF e
<1>3. /\ e \in Seq(Frames)
      /\ \A i \in 1 .. Len(e) : e[i].type = "device_found" /\ e[i].seq = 0 /\ e[i].key \in known
      /\ \A a \in known : \E i \in 1 .. Len(e) : e[i].key = a
  BY <1>2 DEF Announces
<1>4. /\ Ordered(P) /\ Newest(P, received, seq) /\ Numbered(P, received, seq)
      /\ ~dropped => Whole(P, received, seq)
      /\ HelloAhead(P, w) /\ OnlyHello(P, w) /\ PresencesKept /\ CardsKept
  BY <1>1, LivePhase
<1>5. Inserted(T, P, e, w) BY <1>1, <1>3, InsertPending
<1>6. /\ P \in Seq(Frames) /\ T \in Seq(Frames) /\ w \in Nat /\ w <= Len(P)
      /\ received \in Nat /\ seq \in Nat /\ received <= seq
      /\ Len(wire') = w + Len(e)
  <2>1. P \in Seq(Frames) /\ w \in Nat /\ w <= Len(P) BY PendingType
  <2>2. T \in Seq(Frames) /\ Len(wire') = w + Len(e)
    BY <1>1, <1>3, ConcatPlaces DEF Pending, TypeOK
  <2> QED BY <2>1, <2>2 DEF TypeOK
<1> HIDE DEF P, T, w
<1>7. \A i \in 1 .. w : P[i].seq = 0
  <2> SUFFICES ASSUME NEW i \in 1 .. w PROVE P[i].seq = 0 OBVIOUS
  <2>1. i \in 1 .. Len(P) /\ IsHello(P[i]) BY <1>4, <1>6 DEF OnlyHello
  <2> QED BY <1>4, <2>1 DEF HelloAhead
<1>8. /\ Ordered(T) /\ Newest(T, received, seq) /\ Numbered(T, received, seq)
      /\ Whole(P, received, seq) => Whole(T, received, seq)
  BY <1>3, <1>4, <1>5, <1>6, <1>7, InsertedNumbers
<1>9. StreamIntact' /\ NumbersKnown'
  <2>1. ~dropped' => Whole(T, received, seq) BY <1>1, <1>4, <1>8
  <2>2. phase' # "down" BY <1>1
  <2> QED BY <1>1, <1>8, <2>1, <2>2, IntactNext DEF T
<1>10. HelloFirst'
  <2>1. \A i \in 1 .. Len(e) : ~IsHello(e[i]) BY <1>3 DEF IsHello
  <2>2. HelloAhead(T, Len(wire')) BY <1>3, <1>4, <1>5, <1>6, <2>1, InsertedHello
  <2>3. phase' # "presences" BY <1>1
  <2> QED BY <2>2, <2>3, HelloNext DEF T
<1>11. ASSUME ~dropped', NEW a \in Addrs
       PROVE  (a \in known \cup strays)' <=> UpAfter(T, UpNow(a)', a)
  <2> DEFINE up == UpNow(a)'
             was == UpNow(a)
  <2>1. /\ up \in BOOLEAN /\ was = (up \/ a \in known) BY <1>1 DEF UpNow
  <2>2. (a \in known \cup strays)' <=> UpAfter(P, was, a)
    BY <1>1, <1>4, <1>11 DEF PresencesKept, P
  <2> HIDE DEF up, was
  <2>3. a \in known <=> \E i \in 1 .. Len(e) : e[i].key = a BY <1>3
  <2>4. \A i \in 1 .. Len(e) : e[i].type = "device_found" BY <1>3
  <2>5. UpAfter(T, up, a) <=> UpAfter(P, up \/ a \in known, a)
    BY <1>3, <1>4, <1>5, <1>6, <2>1, <2>3, <2>4, InsertedUp
  <2> QED BY <2>1, <2>2, <2>5 DEF up
<1>12. PresencesKept' BY <1>1, <1>4, <1>11 DEF PresencesKept, T
<1>13. ASSUME ~dropped' PROVE CardKept(T, view.card, version)
  <2>1. CardKept(P, view.card, version) BY <1>1, <1>4, <1>13 DEF CardsKept, P
  <2>2. \A i \in 1 .. Len(e) : ~OfDriver(e[i]) BY <1>3 DEF OfDriver
  <2> QED BY <1>3, <1>5, <1>6, <2>1, <2>2, InsertedCard
<1>14. CardsKept' BY <1>1, <1>13 DEF CardsKept, T
<1> QED BY <1>9, <1>10, <1>12, <1>14

LEMMA ForwardStep ==
  ASSUME TypeOK, TypeOK', StreamInv, Forward
  PROVE  StreamIntact' /\ NumbersKnown' /\ HelloFirst' /\ PresencesKept' /\ CardsKept'
<1>1. /\ phase = "streaming" /\ phase' = phase /\ queue # <<>>
      /\ wire' = Append(wire, Head(queue)) /\ queue' = Tail(queue)
      /\ UNCHANGED <<seq, dropped, version, known, view, received, strays>>
  BY DEF Forward, env
<1>2. Pending' = Pending BY <1>1, ForwardPending
<1>3. /\ StreamIntact /\ NumbersKnown /\ PresencesKept /\ CardsKept
      /\ HelloAhead(Pending, Len(wire))
  BY <1>1, LivePhase
<1>4. Len(wire') = Len(wire) + 1 /\ Len(wire) \in Nat /\ Len(Pending) \in Nat
  BY <1>1, PendingType, TailPlaces, AppendPlaces DEF TypeOK
<1>5. StreamIntact' /\ NumbersKnown' BY <1>1, <1>2, <1>3 DEF StreamIntact, NumbersKnown
<1>6. HelloFirst'
  <2> DEFINE P == Pending
             w == Len(wire)
             x == Len(wire')
  <2>1. HelloAhead(P, w) /\ x = w + 1 /\ w \in Nat /\ Len(P) \in Nat BY <1>3, <1>4
  <2> HIDE DEF P, w, x
  <2>2. \A i \in 1 .. Len(P) : i <= w => i <= x BY <2>1
  <2>3. HelloAhead(P, x) BY <2>1, <2>2 DEF HelloAhead
  <2>4. HelloAhead(Pending', Len(wire')) BY <1>2, <2>3 DEF P, x
  <2>5. phase' # "presences" BY <1>1
  <2> QED BY <2>4, <2>5, HelloNext
<1>7. PresencesKept'
  <2>1. \A a : UpNow(a)' = UpNow(a) BY <1>1 DEF UpNow
  <2> QED BY <1>1, <1>2, <1>3, <2>1 DEF PresencesKept
<1>8. CardsKept' BY <1>1, <1>2, <1>3 DEF CardsKept
<1> QED BY <1>5, <1>6, <1>7, <1>8

LEMMA ReceiveStep ==
  ASSUME TypeOK, TypeOK', StreamInv, Receive
  PROVE  StreamIntact' /\ NumbersKnown' /\ HelloFirst' /\ PresencesKept' /\ CardsKept'
<1> DEFINE P == Pending
           T == Pending'
           w == Len(wire)
           h == P[1]
<1>1. /\ wire # <<>> /\ wire' = Tail(wire) /\ view' = Shown(view, Head(wire))
      /\ received' = IF Head(wire).seq > 0 THEN Head(wire).seq ELSE received
      /\ UNCHANGED <<phase, queue, seq, dropped, version, known, strays>>
  BY DEF Receive, env, stream
<1>2. phase # "down" BY <1>1 DEF StreamInv
<1>3. Taken(T, P) /\ Head(wire) = h /\ h \in Frames BY <1>1, TakePending
<1>4. /\ Ordered(P) /\ Newest(P, received, seq) /\ Numbered(P, received, seq)
      /\ ~dropped => Whole(P, received, seq)
      /\ HelloAhead(P, w)
      /\ phase = "presences" => OnlyHello(P, w)
      /\ PresencesKept /\ CardsKept
  BY <1>2, LivePhase
<1>5. /\ P \in Seq(Frames) /\ T \in Seq(Frames) /\ w \in Nat /\ w > 0 /\ w <= Len(P)
      /\ received \in Nat /\ seq \in Nat /\ received <= seq /\ Len(wire') = w - 1
  <2>1. P \in Seq(Frames) /\ w \in Nat /\ w <= Len(P) BY PendingType
  <2>2. T \in Seq(Frames) BY ConcatPlaces DEF Pending, TypeOK
  <2>3. w > 0 /\ Len(wire') = w - 1 BY <1>1, TailPlaces DEF TypeOK
  <2> QED BY <2>1, <2>2, <2>3 DEF TypeOK
<1>6. /\ view' \in Views /\ view'.card = CardAfter(view.card, h)
      /\ \A a : a \in view'.presences <=> Finds(h, a) \/ (a \in view.presences /\ ~Loses(h, a))
  <2>1. view \in Views BY DEF TypeOK, Views
  <2> QED BY <1>1, <1>3, <2>1, ShownFrame
<1>7. received' = IF h.seq > 0 THEN h.seq ELSE received BY <1>1, <1>3
<1> HIDE DEF P, T, w
<1>8. /\ Ordered(T) /\ Newest(T, received', seq) /\ Numbered(T, received', seq)
      /\ Whole(P, received, seq) => Whole(T, received', seq)
  BY <1>3, <1>4, <1>5, <1>7, TakenNumbers
<1>9. StreamIntact' /\ NumbersKnown'
  <2>1. ~dropped' => Whole(T, received', seq) BY <1>1, <1>4, <1>8
  <2>2. phase' # "down" BY <1>1, <1>2
  <2> QED BY <1>1, <1>8, <2>1, <2>2, IntactNext DEF T
<1>10. /\ \A i \in 1 .. Len(T) : ~IsHello(T[i])
       /\ OnlyHello(P, w) => OnlyHello(T, w - 1)
  BY <1>3, <1>4, <1>5, TakenHello
<1>11. HelloFirst'
  <2>1. HelloAhead(T, Len(wire')) BY <1>10 DEF HelloAhead
  <2>2. phase' = "presences" => OnlyHello(T, Len(wire')) BY <1>1, <1>4, <1>5, <1>10
  <2> QED BY <2>1, <2>2, HelloNext DEF T
<1>12. ASSUME ~dropped', NEW a \in Addrs
       PROVE  (a \in known \cup strays)' <=> UpAfter(T, UpNow(a)', a)
  <2> DEFINE now == UpNow(a)'
             up == UpNow(a)
  <2>1. now \in BOOLEAN /\ up \in BOOLEAN BY DEF UpNow
  <2>2. now <=> Finds(h, a) \/ (up /\ ~Loses(h, a))
    <3>1. CASE phase = "presences"
      <4>1. 1 \in 1 .. w BY <1>5
      <4>2. IsHello(h) BY <1>4, <3>1, <4>1 DEF OnlyHello
      <4>3. ~Finds(h, a) /\ ~Loses(h, a) BY <4>2 DEF IsHello, Finds, Loses
      <4> QED BY <1>1, <1>6, <3>1, <4>3 DEF UpNow
    <3>2. CASE phase # "presences" BY <1>1, <1>6, <3>2 DEF UpNow
    <3> QED BY <3>1, <3>2
  <2>3. (a \in known \cup strays)' <=> UpAfter(P, up, a)
    BY <1>1, <1>4, <1>12 DEF PresencesKept, P
  <2> HIDE DEF now, up
  <2>4. UpAfter(T, now, a) <=> UpAfter(P, up, a) BY <1>3, <1>5, <2>1, <2>2, TakenUp
  <2> QED BY <2>3, <2>4 DEF now
<1>13. PresencesKept' BY <1>1, <1>4, <1>12 DEF PresencesKept, T
<1>14. ASSUME ~dropped' PROVE CardKept(T, view'.card, version)
  <2>1. CardKept(P, view.card, version) /\ version \in Nat
    BY <1>1, <1>4, <1>14 DEF CardsKept, P, TypeOK
  <2> QED BY <1>3, <1>4, <1>5, <1>6, <2>1, TakenCard
<1>15. CardsKept' BY <1>1, <1>14 DEF CardsKept, T
<1> QED BY <1>9, <1>11, <1>13, <1>15

\* What is neither published nor sent nor received changes none of it.
LEMMA QuietStep ==
  ASSUME StreamInv,
         UNCHANGED <<wire, queue, phase, received, seq, dropped, view, known, strays, version>>
  PROVE  StreamInv'
<1>1. Pending' = Pending BY DEF Pending
<1>2. \A a : UpNow(a)' = UpNow(a) BY DEF UpNow
<1>3. StreamIntact' <=> StreamIntact BY <1>1 DEF StreamIntact
<1>4. NumbersKnown' <=> NumbersKnown BY <1>1 DEF NumbersKnown
<1>5. HelloFirst' <=> HelloFirst BY <1>1 DEF HelloFirst
<1>6. PresencesKept' <=> PresencesKept BY <1>1, <1>2 DEF PresencesKept
<1>7. CardsKept' <=> CardsKept BY <1>1 DEF CardsKept
<1> QED BY <1>3, <1>4, <1>5, <1>6, <1>7 DEF StreamInv

\* A publication about neither the devices nor the driver keeps all of it.
LEMMA NoticeStep ==
  ASSUME TypeOK, TypeOK', StreamInv, NEW t \in {"board.status", "system.error"},
         Publish(<<Frame(t, Idle, 0)>>),
         UNCHANGED <<wire, phase, received, view, known, strays, version>>, phase # "down"
  PROVE  StreamIntact' /\ NumbersKnown' /\ HelloFirst' /\ PresencesKept' /\ CardsKept'
<1> DEFINE f == Frame(t, Idle, 0)
           E == <<f>>
<1>1. f \in Frames /\ ~OfDriver(f) /\ \A a : ~Finds(f, a) /\ ~Loses(f, a) BY NoticeFrame
<1>2. Publish(E) OBVIOUS
<1> HIDE DEF f
<1>3. E \in Seq(Frames) /\ \A i \in 1 .. Len(E) : E[i] = f BY <1>1, OneFrame
<1> HIDE DEF E
<1>4. \A i \in 1 .. Len(E) : ~OfDriver(E[i]) BY <1>1, <1>3
<1>5. \A i \in 1 .. Len(E) : ~IsHello(E[i]) /\ \A a : ~Finds(E[i], a) /\ ~Loses(E[i], a)
  BY <1>1, <1>3, <1>4 DEF IsHello, OfDriver
<1> QED BY <1>2, <1>3, <1>4, <1>5, PublishStep, PublishOthers, PublishNoDriver

\* Nothing is queued for a console that is not connected.
LEMMA DownStep ==
  ASSUME TypeOK, NEW E \in Seq(Frames), Publish(E), StreamInv, UNCHANGED <<wire, phase>>,
         phase = "down"
  PROVE  StreamInv'
BY PublishType DEF StreamInv

LEMMA InvStep == TypeOK /\ TypeOK' /\ StreamInv /\ [Next]_vars => StreamInv'
<1> SUFFICES ASSUME TypeOK, TypeOK', StreamInv, [Next]_vars PROVE StreamInv' OBVIOUS
<1> DEFINE Live == StreamIntact /\ NumbersKnown /\ HelloFirst /\ PresencesKept /\ CardsKept
<1>0. phase' # "down" /\ Live' => StreamInv' BY DEF StreamInv
<1> HIDE DEF Live
<1>1. ASSUME NEW a \in Addrs, Plug(a) PROVE StreamInv' BY <1>1, QuietStep DEF Plug, stream
<1>2. CASE Admit
  <2>1. CASE phase = "down"
    <3> DEFINE E == <<Frame(IF version = 0 THEN "driver.registered" ELSE "driver.updated",
                            version', 0)>>
    <3>1. E \in Seq(Frames) BY <1>2, AdmitFrame, OneFrame DEF Admit, TypeOK
    <3>2. Publish(E) /\ UNCHANGED <<wire, phase>> BY <1>2 DEF Admit
    <3> HIDE DEF E
    <3> QED BY <2>1, <3>1, <3>2, DownStep
  <2>2. CASE phase # "down" BY <1>0, <1>2, <2>2, AdmitCards DEF Live, Admit
  <2> QED BY <2>1, <2>2
<1>3. CASE WatcherScans BY <1>3, QuietStep DEF WatcherScans, env, stream
<1>4. CASE WatcherDiffs
  <2> DEFINE E == DiffEvents(scan[2])
  <2>1. scan[2] \in SUBSET Addrs /\ known \subseteq Addrs BY <1>4 DEF WatcherDiffs, TypeOK
  <2>2. /\ E \in Seq(Frames)
        /\ \A i \in 1 .. Len(E) : E[i].type \in {"device_found", "device_lost"}
    BY <2>1, DiffAnnounces
  <2>3. Publish(E) /\ UNCHANGED <<wire, phase, received, view, version>>
    BY <1>4 DEF WatcherDiffs, Diff, DiffEvents, env
  <2> HIDE DEF E
  <2>4. CASE phase = "down" BY <2>2, <2>3, <2>4, DownStep
  <2>5. CASE phase # "down"
    <3>1. \A i \in 1 .. Len(E) : ~IsHello(E[i]) /\ ~OfDriver(E[i])
      BY <2>2 DEF IsHello, OfDriver
    <3>2. StreamIntact' /\ NumbersKnown' /\ HelloFirst'
      BY <2>2, <2>3, <2>5, <3>1, PublishStep
    <3>3. PresencesKept' BY <1>4, <2>5, DiffPresences
    <3>4. CardsKept' BY <2>2, <2>3, <2>5, <3>1, PublishNoDriver
    <3> QED BY <1>0, <2>3, <2>5, <3>2, <3>3, <3>4 DEF Live
  <2> QED BY <2>4, <2>5
<1>5. CASE ScanFails
  <2>1. UNCHANGED <<wire, phase, received, view, known, strays, version>>
    BY <1>5 DEF ScanFails, env
  <2>2. CASE UNCHANGED stream BY <2>1, <2>2, QuietStep DEF stream
  <2>3. CASE Publish(<<Frame("system.error", Idle, 0)>>)
    <3>1. <<Frame("system.error", Idle, 0)>> \in Seq(Frames) BY NoticeFrame, OneFrame
    <3>2. CASE phase = "down" BY <2>1, <2>3, <3>1, <3>2, DownStep
    <3>3. CASE phase # "down" BY <1>0, <2>1, <2>3, <3>3, NoticeStep DEF Live
    <3> QED BY <3>2, <3>3
  <2> QED BY <1>5, <2>2, <2>3 DEF ScanFails
<1>6. CASE UserAsksForScan
  <2>1. UNCHANGED <<wire, phase, received, view, known, strays, version>>
    BY <1>6 DEF UserAsksForScan, env
  <2>2. CASE UNCHANGED stream BY <2>1, <2>2, QuietStep DEF stream
  <2>3. CASE Publish(<<Frame("board.status", Idle, 0)>>)
    <3>1. <<Frame("board.status", Idle, 0)>> \in Seq(Frames) BY NoticeFrame, OneFrame
    <3>2. CASE phase = "down" BY <2>1, <2>3, <3>1, <3>2, DownStep
    <3>3. CASE phase # "down" BY <1>0, <2>1, <2>3, <3>3, NoticeStep DEF Live
    <3> QED BY <3>2, <3>3
  <2> QED BY <1>6, <2>2, <2>3 DEF UserAsksForScan
<1>7. CASE UserScans BY <1>7, QuietStep DEF UserScans, env, stream
<1>8. CASE UserScanAnnounces
  <2> DEFINE E == SetToSeq({Found(a) : a \in scan[2]})
  <2>1. scan[2] \in SUBSET Addrs BY <1>8 DEF UserScanAnnounces, TypeOK
  <2>2. E \in Seq(Frames) /\ \A i \in 1 .. Len(E) : E[i].type = "device_found"
    BY <2>1, FoundAnnounced DEF Announces
  <2>3. Publish(E) /\ UNCHANGED <<wire, phase, received, view, version>>
    BY <1>8 DEF UserScanAnnounces, env
  <2> HIDE DEF E
  <2>4. CASE phase = "down" BY <2>2, <2>3, <2>4, DownStep
  <2>5. CASE phase # "down"
    <3>1. \A i \in 1 .. Len(E) : ~IsHello(E[i]) /\ ~OfDriver(E[i])
      BY <2>2 DEF IsHello, OfDriver
    <3>2. StreamIntact' /\ NumbersKnown' /\ HelloFirst'
      BY <2>2, <2>3, <2>5, <3>1, PublishStep
    <3>3. PresencesKept' BY <1>8, <2>5, UserPresences
    <3>4. CardsKept' BY <2>2, <2>3, <2>5, <3>1, PublishNoDriver
    <3> QED BY <1>0, <2>3, <2>5, <3>2, <3>3, <3>4 DEF Live
  <2> QED BY <2>4, <2>5
<1>9. CASE Connect BY <1>0, <1>9, ConnectStep DEF Live, Connect
<1>10. CASE SendPresences BY <1>0, <1>10, PresencesStep DEF Live, SendPresences
<1>11. CASE Forward BY <1>0, <1>11, ForwardStep DEF Live, Forward
<1>12. CASE Disconnect BY <1>12 DEF Disconnect, StreamInv
<1>13. CASE Receive
  <2>1. phase # "down" BY <1>13 DEF Receive, StreamInv
  <2> QED BY <1>0, <1>13, <2>1, ReceiveStep DEF Live, Receive
<1>14. CASE UNCHANGED vars BY <1>14, QuietStep DEF vars, env, stream
<1> QED BY <1>1, <1>2, <1>3, <1>4, <1>5, <1>6, <1>7, <1>8, <1>9, <1>10, <1>11, <1>12, <1>13,
           <1>14 DEF Next

-----------------------------------------------------------------------------
\* The theorems.

\* Every variable keeps its type and no queue outgrows its bound, however many events are
\* published at once; what is on its way to the console, with its store, is at every
\* moment what brings it to the state of the watcher and the registry (bus.py:64-79,
\* ws.py:38-86, watcher.py:62-87).
THEOREM StreamCorrect == Spec => [](TypeOK /\ StreamInv)
<1>1. Init => TypeOK /\ StreamInv BY TypeInit, InvInit
<1>2. TypeOK /\ StreamInv /\ [Next]_vars => (TypeOK /\ StreamInv)' BY TypeStep, InvStep
<1> QED BY <1>1, <1>2, PTL DEF Spec

\* Subscribing before hello is sent leaves no gap and no duplicate: the events come in
\* the order of their numbers, and while none is dropped none is missing (ws.py:4).
THEOREM StreamIsIntact == Spec => []StreamIntact
<1>1. TypeOK /\ StreamInv => StreamIntact BY DEF StreamInv, StreamIntact
<1> QED BY <1>1, StreamCorrect, PTL

\* Once all of it has been applied, and nothing was dropped, the console's presence cards
\* are those of the watcher and the strays, and its driver card is the registry's.
THEOREM CaughtUpAgrees == Spec => []CaughtUpConsoleAgrees
<1>1. TypeOK /\ StreamInv => CaughtUpConsoleAgrees
  <2> SUFFICES ASSUME TypeOK, StreamInv, CaughtUp
               PROVE  view.presences = known \cup strays /\ CardAgrees(view.card, version)
    BY DEF CaughtUpConsoleAgrees
  <2>1. phase = "streaming" /\ wire = <<>> /\ queue = <<>> /\ ~dropped BY DEF CaughtUp
  <2>2. PresencesKept /\ CardsKept BY <2>1, LivePhase
  <2>3. Pending = <<>> BY <2>1 DEF Pending
  <2>4. CardAgrees(view.card, version)
    <3>1. CardKept(<<>>, view.card, version) BY <2>1, <2>2, <2>3 DEF CardsKept
    <3> QED BY <3>1 DEF CardKept
  <2>5. ASSUME NEW a \in Addrs PROVE a \in known \cup strays <=> a \in view.presences
    <3> DEFINE up == UpNow(a)
    <3>1. up <=> a \in view.presences BY <2>1 DEF UpNow
    <3>2. a \in known \cup strays <=> UpAfter(<<>>, up, a)
      BY <2>1, <2>2, <2>3 DEF PresencesKept
    <3> HIDE DEF up
    <3>3. \A i \in 1 .. Len(<<>>) : FALSE OBVIOUS
    <3>4. UpAfter(<<>>, up, a) <=> up BY <3>3, Zenon DEF UpAfter
    <3> QED BY <3>1, <3>2, <3>4
  <2>6. known \subseteq Addrs /\ strays \subseteq Addrs /\ view.presences \subseteq Addrs
    BY DEF TypeOK
  <2> QED BY <2>4, <2>5, <2>6
<1> QED BY <1>1, StreamCorrect, PTL
=============================================================================
