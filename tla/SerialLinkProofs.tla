--------------------------- MODULE SerialLinkProofs ---------------------------
(***************************************************************************)
(* Replies belong to their exec, a clean line is in step with the board,   *)
(* and code from before a resync does not run after it, for any number of  *)
(* execs, resets, faults and printed tokens.                               *)
(*                                                                         *)
(* The proofs reason about two sequences: ToCome, what has left the board  *)
(* and is not taken yet, and tx, what the board has yet to read.  A read,  *)
(* and a token that is written, leave ToCome as it is; what the REPL says  *)
(* is added at its end, what a thread takes or clears is cut off its head. *)
(* A request for the raw prompt in tx becomes a raw prompt in ToCome: the  *)
(* two are counted together, against the threads that wait for one.        *)
(***************************************************************************)
EXTENDS SerialLink, SequenceTheorems, FiniteSetTheorems, WellFoundedInduction, TLAPS

-----------------------------------------------------------------------------
\* Sequences.

LEMMA ConcatPlaces ==
  ASSUME NEW S, NEW p \in Seq(S), NEW q \in Seq(S)
  PROVE  /\ p \o q \in Seq(S) /\ Len(p) \in Nat /\ Len(q) \in Nat
         /\ Len(p \o q) = Len(p) + Len(q)
         /\ \A i \in 1 .. Len(p) + Len(q) :
              (p \o q)[i] = IF i <= Len(p) THEN p[i] ELSE q[i - Len(p)]
BY ConcatProperties

LEMMA SeqPlaces ==
  ASSUME NEW S, NEW s \in Seq(S)
  PROVE  /\ Len(s) \in Nat /\ DOMAIN s = 1 .. Len(s)
         /\ \A i \in 1 .. Len(s) : s[i] \in S
         /\ s = <<>> <=> Len(s) = 0
BY EmptySeq, LenProperties, ElementOfSeq

LEMMA OnePlace ==
  ASSUME NEW S, NEW e \in S
  PROVE  /\ <<e>> \in Seq(S) /\ Len(<<e>>) = 1 /\ DOMAIN <<e>> = 1 .. 1 /\ <<e>>[1] = e
OBVIOUS

\* t is s without its first d places.
IsCut(t, s, d) ==
  /\ d \in 0 .. Len(s) /\ Len(t) = Len(s) - d
  /\ \A i \in 1 .. Len(t) : t[i] = s[i + d]

LEMMA SubSeqCut ==
  ASSUME NEW S, NEW s \in Seq(S), NEW d \in 0 .. Len(s)
  PROVE  SubSeq(s, d + 1, Len(s)) \in Seq(S) /\ IsCut(SubSeq(s, d + 1, Len(s)), s, d)
<1> DEFINE m == d + 1
           n == Len(s)
           t == SubSeq(s, m, n)
<1>1. n \in Nat /\ \A i \in 1 .. n : s[i] \in S BY SeqPlaces
<1>2. m \in Int /\ n \in Int /\ \A i \in m .. n : s[i] \in S BY <1>1
<1>3. /\ t \in Seq(S) /\ Len(t) = IF m <= n THEN n - m + 1 ELSE 0
      /\ \A i \in 1 .. n - m + 1 : t[i] = s[m + i - 1]
  BY <1>2, SubSeqProperties
<1> HIDE DEF t
<1>4. Len(t) = n - d BY <1>1, <1>3
<1>5. ASSUME NEW i \in 1 .. n - d PROVE t[i] = s[i + d]
  <2>1. i \in 1 .. n - m + 1 /\ m + i - 1 = i + d BY <1>1
  <2> QED BY <1>3, <2>1
<1>6. IsCut(t, s, d) BY <1>1, <1>4, <1>5 DEF IsCut
<1> QED BY <1>3, <1>6 DEF t

LEMMA PrefixPlaces ==
  ASSUME NEW S, NEW s \in Seq(S), NEW n \in 0 .. Len(s)
  PROVE  /\ SubSeq(s, 1, n) \in Seq(S) /\ Len(SubSeq(s, 1, n)) = n
         /\ \A i \in 1 .. n : SubSeq(s, 1, n)[i] = s[i]
<1>1. Len(s) \in Nat /\ \A i \in 1 .. n : s[i] \in S BY SeqPlaces
<1>2. n \in Int /\ 1 \in Int BY <1>1
<1>3. /\ SubSeq(s, 1, n) \in Seq(S)
      /\ Len(SubSeq(s, 1, n)) = IF 1 <= n THEN n - 1 + 1 ELSE 0
      /\ \A i \in 1 .. n - 1 + 1 : SubSeq(s, 1, n)[i] = s[1 + i - 1]
  BY <1>1, <1>2, SubSeqProperties
<1>4. n - 1 + 1 = n /\ \A i \in 1 .. n : 1 + i - 1 = i BY <1>1
<1> QED BY <1>1, <1>3, <1>4

LEMMA TailCut ==
  ASSUME NEW S, NEW s \in Seq(S), s # <<>>
  PROVE  /\ Tail(s) \in Seq(S) /\ IsCut(Tail(s), s, 1)
         /\ 1 \in 1 .. Len(s) /\ Head(s) = s[1] /\ s[1] \in S
<1>1. Len(s) \in Nat /\ Len(s) > 0 /\ DOMAIN s = 1 .. Len(s) BY SeqPlaces
<1>2. Tail(s) \in Seq(S) /\ Len(Tail(s)) = Len(s) - 1 OBVIOUS
<1>3. \A i \in 1 .. Len(s) - 1 : Tail(s)[i] = s[i + 1] BY <1>1
<1>4. 1 \in 1 .. Len(s) /\ 1 \in 0 .. Len(s) /\ Head(s) = s[1] BY <1>1
<1>5. s[1] \in S BY <1>4, SeqPlaces
<1> QED BY <1>2, <1>3, <1>4, <1>5 DEF IsCut

\* What a sequence without its i-th place holds.
LEMMA RemovePlaces ==
  ASSUME NEW S, NEW s \in Seq(S), NEW i \in 1 .. Len(s)
  PROVE  /\ RemoveAt(s, i) \in Seq(S) /\ Len(RemoveAt(s, i)) = Len(s) - 1 /\ Len(s) \in Nat
         /\ \A j \in 1 .. Len(s) - 1 : RemoveAt(s, i)[j] = IF j < i THEN s[j] ELSE s[j + 1]
<1> DEFINE p == SubSeq(s, 1, i - 1)
           q == SubSeq(s, i + 1, Len(s))
           n == i - 1
           l == Len(s)
<1>0. l \in Nat /\ i \in 0 .. l /\ n \in 0 .. l BY SeqPlaces
<1>1. p \in Seq(S) /\ Len(p) = n /\ \A j \in 1 .. n : p[j] = s[j] BY <1>0, PrefixPlaces
<1>2. q \in Seq(S) /\ Len(q) = l - i /\ \A j \in 1 .. l - i : q[j] = s[j + i]
  <2>1. q \in Seq(S) /\ IsCut(q, s, i) BY <1>0, SubSeqCut
  <2> QED BY <2>1 DEF IsCut
<1> HIDE DEF p, q
<1>3. /\ p \o q \in Seq(S) /\ Len(p \o q) = Len(p) + Len(q)
      /\ \A j \in 1 .. Len(p) + Len(q) :
           (p \o q)[j] = IF j <= Len(p) THEN p[j] ELSE q[j - Len(p)]
  BY <1>1, <1>2, ConcatPlaces
<1> DEFINE r == p \o q
<1>4. Len(p) + Len(q) = l - 1 BY <1>0, <1>1, <1>2
<1>5. ASSUME NEW j \in 1 .. l - 1 PROVE r[j] = IF j < i THEN s[j] ELSE s[j + 1]
  <2>1. CASE j < i
    <3>1. j <= Len(p) /\ j \in 1 .. n BY <1>0, <1>1, <2>1
    <3> QED BY <1>1, <1>3, <1>4, <2>1, <3>1
  <2>2. CASE ~(j < i)
    <3> DEFINE k == j - n
    <3>1. ~(j <= Len(p)) /\ k \in 1 .. l - i /\ k + i = j + 1 /\ j - Len(p) = k
      BY <1>0, <1>1, <2>2
    <3> HIDE DEF k
    <3>2. r[j] = q[k] BY <1>3, <1>4, <3>1
    <3> QED BY <1>2, <2>2, <3>1, <3>2
  <2> QED BY <2>1, <2>2
<1>6. RemoveAt(s, i) = r BY DEF RemoveAt, p, q
<1> HIDE DEF r
<1> QED BY <1>0, <1>3, <1>4, <1>5, <1>6 DEF r

\* A set of numbers has a least element.
LEMMA LeastNumber ==
  ASSUME NEW T, T \subseteq Nat, T # {}
  PROVE  \E x \in T : \A y \in T : x <= y
<1> DEFINE R == OpToRel(<, Nat)
<1>1. IsWellFoundedOn(R, Nat) BY NatLessThanWellFounded
<1>2. \A x, y \in Nat : <<y, x>> \in R <=> y < x BY DEF OpToRel
<1> HIDE DEF R
<1>3. PICK x \in T : \A y \in T : ~(<<y, x>> \in R) BY <1>1, WFMin
<1>4. ASSUME NEW y \in T PROVE x <= y
  <2>1. x \in Nat /\ y \in Nat OBVIOUS
  <2>2. ~(y < x) BY <1>2, <1>3, <2>1
  <2> QED BY <2>1, <2>2
<1> QED BY <1>4

-----------------------------------------------------------------------------
\* Counting the places of a kind.

LEMMA PlacesCount ==
  ASSUME NEW S, NEW s \in Seq(S), NEW k
  PROVE  /\ IsFiniteSet(Places(s, k)) /\ Cardinality(Places(s, k)) \in Nat
         /\ Places(s, k) \subseteq 1 .. Len(s)
         /\ Cardinality(Places(s, k)) = 0 <=> \A i \in 1 .. Len(s) : s[i].kind # k
<1>1. Len(s) \in Nat /\ DOMAIN s = 1 .. Len(s) BY SeqPlaces
<1>2. Places(s, k) = {i \in 1 .. Len(s) : s[i].kind = k} BY <1>1 DEF Places
<1>3. IsFiniteSet(1 .. Len(s)) BY <1>1, FS_Interval
<1>4. Places(s, k) \in SUBSET (1 .. Len(s)) BY <1>2
<1>5. IsFiniteSet(Places(s, k)) BY <1>3, <1>4, FS_Subset
<1>6. Cardinality(Places(s, k)) \in Nat BY <1>5, FS_CardinalityType
<1>7. Cardinality(Places(s, k)) = 0 <=> Places(s, k) = {} BY <1>5, FS_EmptySet
<1>8. Places(s, k) = {} <=> \A i \in 1 .. Len(s) : s[i].kind # k BY <1>2
<1> QED BY <1>4, <1>5, <1>6, <1>7, <1>8

\* Places that map one to one into X are no more than those of X.
LEMMA EmbedCount ==
  ASSUME NEW T, NEW X, NEW f, IsFiniteSet(X),
         \A j \in T : f[j] \in X,
         \A i, j \in T : f[i] = f[j] => i = j
  PROVE  Cardinality(T) <= Cardinality(X)
<1> DEFINE g == [j \in T |-> f[j]]
<1>1. g \in [T -> X] /\ \A i, j \in T : g[i] = g[j] => i = j OBVIOUS
<1> HIDE DEF g
<1>2. g \in Injection(T, X) BY <1>1 DEF Injection, IsInjective
<1> QED BY <1>2, FS_Injection

\* A cut sequence has no more places of a kind, and fewer if the cut took one.
LEMMA CutCount ==
  ASSUME NEW S, NEW s \in Seq(S), NEW t \in Seq(S), NEW d, IsCut(t, s, d), NEW k
  PROVE  /\ Cardinality(Places(t, k)) <= Cardinality(Places(s, k))
         /\ (\E i \in 1 .. d : s[i].kind = k) =>
              Cardinality(Places(t, k)) + 1 <= Cardinality(Places(s, k))
<1> DEFINE f == [j \in Places(t, k) |-> j + d]
           n == Len(s)
<1>1. /\ n \in Nat /\ DOMAIN s = 1 .. n /\ Len(t) \in Nat /\ DOMAIN t = 1 .. Len(t)
      /\ d \in 0 .. n /\ Len(t) = n - d /\ \A i \in 1 .. Len(t) : t[i] = s[i + d]
  BY SeqPlaces DEF IsCut
<1>2. ASSUME NEW j \in Places(t, k) PROVE j \in 1 .. n - d /\ f[j] = j + d /\ s[j + d].kind = k
  BY <1>1 DEF Places
<1>3. \A j \in Places(t, k) : f[j] \in Places(s, k) /\ f[j] > d
  <2> SUFFICES ASSUME NEW j \in Places(t, k) PROVE f[j] \in Places(s, k) /\ f[j] > d
    OBVIOUS
  <2>1. j + d \in 1 .. n /\ j + d > d BY <1>1, <1>2
  <2> QED BY <1>1, <1>2, <2>1 DEF Places
<1>4. \A i, j \in Places(t, k) : f[i] = f[j] => i = j BY <1>1, <1>2
<1> HIDE DEF f
<1>5. /\ IsFiniteSet(Places(s, k)) /\ Cardinality(Places(s, k)) \in Nat
      /\ Cardinality(Places(t, k)) \in Nat
  BY PlacesCount
<1>6. Cardinality(Places(t, k)) <= Cardinality(Places(s, k)) BY <1>3, <1>4, <1>5, EmbedCount
<1>7. ASSUME NEW i \in 1 .. d, s[i].kind = k
      PROVE  Cardinality(Places(t, k)) + 1 <= Cardinality(Places(s, k))
  <2> DEFINE X == Places(s, k) \ {i}
  <2>1. i \in Places(s, k) BY <1>1, <1>7 DEF Places
  <2>2. IsFiniteSet(X) /\ Cardinality(X) = Cardinality(Places(s, k)) - 1
    BY <1>5, <2>1, FS_RemoveElement
  <2>3. \A j \in Places(t, k) : f[j] \in X
    <3> SUFFICES ASSUME NEW j \in Places(t, k) PROVE f[j] # i BY <1>3
    <3> QED BY <1>1, <1>2, <1>3, <1>7 DEF f
  <2> HIDE DEF X
  <2>4. Cardinality(Places(t, k)) <= Cardinality(X) BY <1>4, <2>2, <2>3, EmbedCount
  <2> QED BY <1>5, <2>2, <2>4
<1> QED BY <1>6, <1>7

\* What is added at the end adds its own places.
LEMMA GrowCount ==
  ASSUME NEW S, NEW s \in Seq(S), NEW e \in Seq(S), NEW k
  PROVE  /\ (\A i \in 1 .. Len(e) : e[i].kind # k) => Places(s \o e, k) = Places(s, k)
         /\ Len(e) = 1 =>
              Cardinality(Places(s \o e, k)) <= Cardinality(Places(s, k)) + 1
<1> DEFINE t == s \o e
           n == Len(s)
           x == n + 1
<1>1. /\ t \in Seq(S) /\ n \in Nat /\ Len(e) \in Nat /\ Len(t) = n + Len(e)
      /\ \A i \in 1 .. n + Len(e) : t[i] = IF i <= n THEN s[i] ELSE e[i - n]
  BY ConcatPlaces
<1> HIDE DEF t
<1>2. DOMAIN s = 1 .. n /\ DOMAIN t = 1 .. n + Len(e) BY <1>1, SeqPlaces
<1> HIDE DEF n
<1>3. Places(s, k) = {i \in 1 .. n : s[i].kind = k} BY <1>2 DEF Places
<1>4. Places(t, k) = {i \in 1 .. n + Len(e) : t[i].kind = k} BY <1>2 DEF Places
<1>5. \A i \in 1 .. n : i \in 1 .. n + Len(e) /\ t[i] = s[i] BY <1>1
<1>6. \A i \in 1 .. n + Len(e) : i \in 1 .. n \/ (i - n \in 1 .. Len(e) /\ t[i] = e[i - n])
  BY <1>1
<1>7. ASSUME \A i \in 1 .. Len(e) : e[i].kind # k PROVE Places(t, k) = Places(s, k)
  <2>1. \A i \in Places(t, k) : i \in 1 .. n BY <1>4, <1>6, <1>7
  <2> QED BY <1>3, <1>4, <1>5, <2>1
<1>8. ASSUME Len(e) = 1
      PROVE  Cardinality(Places(t, k)) <= Cardinality(Places(s, k)) + 1
  <2> DEFINE X == Places(s, k) \cup {x}
  <2>1. \A i \in 1 .. n + Len(e) : i \in 1 .. n \/ i = x BY <1>1, <1>8
  <2>2. Places(t, k) \in SUBSET X BY <1>3, <1>4, <1>5, <2>1
  <2>3. IsFiniteSet(Places(s, k)) /\ Cardinality(Places(s, k)) \in Nat BY PlacesCount
  <2>4. /\ IsFiniteSet(X)
        /\ Cardinality(X) = IF x \in Places(s, k) THEN Cardinality(Places(s, k))
                            ELSE Cardinality(Places(s, k)) + 1
    BY <2>3, FS_AddElement
  <2>5. Cardinality(Places(t, k)) <= Cardinality(X) BY <2>2, <2>4, FS_Subset
  <2>6. Cardinality(Places(t, k)) \in Nat BY <1>1, PlacesCount
  <2> HIDE DEF X, x
  <2> QED BY <2>3, <2>4, <2>5, <2>6
<1> QED BY <1>7, <1>8 DEF t

LEMMA RemoveCount ==
  ASSUME NEW S, NEW s \in Seq(S), NEW i \in 1 .. Len(s), NEW k
  PROVE  Cardinality(Places(RemoveAt(s, i), k)) <= Cardinality(Places(s, k))
<1> DEFINE t == RemoveAt(s, i)
           n == Len(s)
           f == [j \in Places(t, k) |-> IF j < i THEN j ELSE j + 1]
<1>1. /\ t \in Seq(S) /\ Len(t) = n - 1 /\ n \in Nat
      /\ \A j \in 1 .. n - 1 : t[j] = IF j < i THEN s[j] ELSE s[j + 1]
  BY RemovePlaces
<1> HIDE DEF t
<1>2. DOMAIN s = 1 .. n /\ DOMAIN t = 1 .. n - 1 BY <1>1, SeqPlaces
<1> HIDE DEF n
<1>3. ASSUME NEW j \in Places(t, k) PROVE j \in 1 .. n - 1 /\ t[j].kind = k
  BY <1>2 DEF Places
<1>4. ASSUME NEW j \in Places(t, k) PROVE f[j] \in 1 .. n /\ s[f[j]].kind = k
  <2>1. CASE j < i BY <1>1, <1>3, <2>1
  <2>2. CASE ~(j < i)
    <3> DEFINE x == j + 1
    <3>1. x \in 1 .. n /\ f[j] = x BY <1>1, <1>3, <2>2
    <3>2. t[j] = s[x] BY <1>1, <1>3, <2>2
    <3> HIDE DEF x
    <3> QED BY <1>3, <3>1, <3>2
  <2> QED BY <2>1, <2>2
<1>5. \A j \in Places(t, k) : f[j] \in Places(s, k) BY <1>2, <1>4 DEF Places
<1>6. \A l, j \in Places(t, k) : f[l] = f[j] => l = j
  <2> SUFFICES ASSUME NEW l \in Places(t, k), NEW j \in Places(t, k), f[l] = f[j]
               PROVE  l = j
    OBVIOUS
  <2>0. i \in Nat /\ n \in Nat BY <1>1, <1>2
  <2>1. l \in 1 .. n - 1 /\ j \in 1 .. n - 1 BY <1>3
  <2>2. /\ f[l] = IF l < i THEN l ELSE l + 1
        /\ f[j] = IF j < i THEN j ELSE j + 1
    OBVIOUS
  <2> QED BY <2>0, <2>1, <2>2
<1> HIDE DEF f
<1>7. IsFiniteSet(Places(s, k)) BY PlacesCount
<1> QED BY <1>5, <1>6, <1>7, EmbedCount DEF t

-----------------------------------------------------------------------------
\* What is to come: the buffer r, the port's input c and what the board is writing y.

LEMMA LinePlaces ==
  ASSUME NEW r \in Seq(Answers), NEW c \in Seq(Answers), NEW y \in Seq(Answers)
  PROVE  /\ r \o c \o y \in Seq(Answers)
         /\ Len(r) \in Nat /\ Len(c) \in Nat /\ Len(y) \in Nat
         /\ Len(r \o c \o y) = Len(r) + Len(c) + Len(y)
         /\ \A i \in 1 .. Len(r) + Len(c) + Len(y) :
              (r \o c \o y)[i] = IF i <= Len(r) THEN r[i]
                                 ELSE IF i <= Len(r) + Len(c) THEN c[i - Len(r)]
                                 ELSE y[i - (Len(r) + Len(c))]
<1> DEFINE p == r \o c
           s == p \o y
           n == Len(r)
           m == Len(c)
<1>1. /\ p \in Seq(Answers) /\ n \in Nat /\ m \in Nat /\ Len(p) = n + m
      /\ \A i \in 1 .. n + m : p[i] = IF i <= n THEN r[i] ELSE c[i - n]
  BY ConcatPlaces
<1> HIDE DEF p
<1>2. /\ s \in Seq(Answers) /\ Len(y) \in Nat /\ Len(s) = Len(p) + Len(y)
      /\ \A i \in 1 .. Len(p) + Len(y) : s[i] = IF i <= Len(p) THEN p[i] ELSE y[i - Len(p)]
  <2>1. p \in Seq(Answers) BY <1>1
  <2> QED BY <2>1, ConcatPlaces
<1> HIDE DEF s, n, m
<1>3. \A i \in 1 .. n + m + Len(y) :
        s[i] = IF i <= n THEN r[i] ELSE IF i <= n + m THEN c[i - n] ELSE y[i - (n + m)]
  <2> SUFFICES ASSUME NEW i \in 1 .. n + m + Len(y)
               PROVE  s[i] = IF i <= n THEN r[i] ELSE IF i <= n + m THEN c[i - n]
                             ELSE y[i - (n + m)]
    OBVIOUS
  <2>1. s[i] = IF i <= n + m THEN p[i] ELSE y[i - (n + m)] BY <1>1, <1>2
  <2>2. CASE i <= n + m
    <3>1. p[i] = IF i <= n THEN r[i] ELSE c[i - n] BY <1>1, <1>2, <2>2
    <3> QED BY <2>1, <2>2, <3>1
  <2>3. CASE ~(i <= n + m)
    <3>1. ~(i <= n) BY <1>1, <2>3
    <3> QED BY <2>1, <2>3, <3>1
  <2> QED BY <2>2, <2>3
<1> QED BY <1>1, <1>2, <1>3 DEF s, p, n, m

\* A thread takes the first d tokens of the buffer.
LEMMA TakenLine ==
  ASSUME NEW r \in Seq(Answers), NEW c \in Seq(Answers), NEW y \in Seq(Answers),
         NEW d \in 0 .. Len(r), NEW q \in Seq(Answers), IsCut(q, r, d)
  PROVE  IsCut(q \o c \o y, r \o c \o y, d)
<1> DEFINE s == r \o c \o y
           t == q \o c \o y
           n == Len(r)
           m == Len(c)
           l == Len(y)
<1>1. /\ n \in Nat /\ m \in Nat /\ l \in Nat /\ Len(s) = n + m + l
      /\ \A i \in 1 .. n + m + l :
           s[i] = IF i <= n THEN r[i] ELSE IF i <= n + m THEN c[i - n] ELSE y[i - (n + m)]
  BY LinePlaces
<1>2. /\ Len(t) = Len(q) + m + l
      /\ \A i \in 1 .. Len(q) + m + l :
           t[i] = IF i <= Len(q) THEN q[i] ELSE IF i <= Len(q) + m THEN c[i - Len(q)]
                  ELSE y[i - (Len(q) + m)]
  BY LinePlaces
<1>3. d \in 0 .. n /\ Len(q) = n - d /\ \A i \in 1 .. n - d : q[i] = r[i + d] BY DEF IsCut
<1> HIDE DEF s, t, n, m, l
<1>4. ASSUME NEW i \in 1 .. n - d + m + l PROVE t[i] = s[i + d]
  <2> DEFINE x == i + d
  <2>0. d \in Nat /\ n - d \in Nat /\ i \in Nat BY <1>1, <1>3
  <2>1. x \in 1 .. n + m + l BY <1>1, <2>0
  <2>2. (i <= n - d <=> x <= n) /\ (i <= n - d + m <=> x <= n + m) BY <1>1, <2>0
  <2>3. i - (n - d) = x - n /\ i - (n - d + m) = x - (n + m) BY <1>1, <2>0
  <2>4. t[i] = IF i <= n - d THEN q[i] ELSE IF i <= n - d + m THEN c[i - (n - d)]
               ELSE y[i - (n - d + m)]
    BY <1>2, <1>3
  <2>5. i <= n - d => q[i] = r[x] BY <1>3, <2>0
  <2> HIDE DEF x
  <2>6. s[x] = IF x <= n THEN r[x] ELSE IF x <= n + m THEN c[x - n] ELSE y[x - (n + m)]
    BY <1>1, <2>1
  <2>7. t[i] = s[x] BY <2>2, <2>3, <2>4, <2>5, <2>6
  <2> QED BY <2>7 DEF x
<1>5. d \in 0 .. Len(s) /\ Len(t) = Len(s) - d /\ Len(t) = n - d + m + l
  <2> DEFINE x == n - d
             y1 == Len(t)
             y2 == Len(s)
  <2>1. y2 = n + m + l /\ y1 = Len(q) + m + l /\ Len(q) = x BY <1>1, <1>2, <1>3
  <2>2. d \in 0 .. n /\ n \in Nat /\ m \in Nat /\ l \in Nat BY <1>1, <1>3
  <2> HIDE DEF y1, y2
  <2>3. d \in 0 .. y2 BY <2>1, <2>2
  <2>4. y1 = y2 - d /\ y1 = n - d + m + l BY <2>1, <2>2
  <2> QED BY <2>3, <2>4 DEF y1, y2
<1> QED BY <1>4, <1>5 DEF IsCut, s, t

\* reset_input_buffer and rx.clear.
LEMMA ClearedLine ==
  ASSUME NEW r \in Seq(Answers), NEW c \in Seq(Answers), NEW y \in Seq(Answers)
  PROVE  IsCut(<<>> \o <<>> \o y, r \o c \o y, Len(r) + Len(c))
<1> DEFINE s == r \o c \o y
           n == Len(r)
           m == Len(c)
           l == Len(y)
<1>1. /\ n \in Nat /\ m \in Nat /\ l \in Nat /\ Len(s) = n + m + l
      /\ \A i \in 1 .. n + m + l :
           s[i] = IF i <= n THEN r[i] ELSE IF i <= n + m THEN c[i - n] ELSE y[i - (n + m)]
  BY LinePlaces
<1>2. <<>> \o <<>> \o y = y BY ConcatEmptySeq
<1> HIDE DEF s, n, m, l
<1>3. ASSUME NEW i \in 1 .. l PROVE y[i] = s[i + (n + m)]
  <2> DEFINE x == i + (n + m)
  <2>1. /\ x \in 1 .. n + m + l /\ ~(x <= n) /\ ~(x <= n + m) /\ x - (n + m) = i
    BY <1>1
  <2> HIDE DEF x
  <2>2. s[x] = y[i] BY <1>1, <2>1
  <2> QED BY <2>2 DEF x
<1>4. n + m \in 0 .. Len(s) /\ l = Len(s) - (n + m) BY <1>1
<1> QED BY <1>2, <1>3, <1>4 DEF IsCut, s, n, m, l

LEMMA Association ==
  ASSUME NEW p \in Seq(Answers), NEW q \in Seq(Answers), NEW w \in Seq(Answers)
  PROVE  (p \o q) \o w = p \o (q \o w)
BY ConcatAssociative

\* A chunk of the port's input moves into the buffer.
LEMMA ReadLine ==
  ASSUME NEW r \in Seq(Answers), NEW c \in Seq(Answers), NEW y \in Seq(Answers),
         NEW n \in 1 .. Len(c)
  PROVE  (r \o SubSeq(c, 1, n)) \o SubSeq(c, n + 1, Len(c)) \o y = r \o c \o y
<1> DEFINE a == SubSeq(c, 1, n)
           b == SubSeq(c, n + 1, Len(c))
<1>1. Len(c) \in Nat BY SeqPlaces
<1>2. 1 \in 1 .. Len(c) + 1 /\ n \in 0 .. Len(c) /\ Len(c) \in n .. Len(c) /\ 1 - 1 = 0
  BY <1>1
<1>3. a \o b = SubSeq(c, 1, Len(c)) BY <1>2, ConcatAdjacentSubSeq
<1>4. a \o b = c BY <1>3, SubSeqFull
<1>5. a \in Seq(Answers) BY <1>2, PrefixPlaces
<1>6. b \in Seq(Answers) BY <1>2, SubSeqCut
<1> HIDE DEF a, b
<1>7. \A p, q, w \in Seq(Answers) : (p \o q) \o w = p \o (q \o w) BY Association
<1>8. (r \o a) \o b = r \o (a \o b) BY <1>5, <1>6, <1>7, ZenonT(30)
<1> QED BY <1>4, <1>8 DEF a, b

\* The board writes the next of its tokens.
LEMMA SaidLine ==
  ASSUME NEW r \in Seq(Answers), NEW c \in Seq(Answers), NEW y \in Seq(Answers), y # <<>>
  PROVE  r \o Append(c, Head(y)) \o Tail(y) = r \o c \o y
<1> DEFINE h == <<Head(y)>>
           t == Tail(y)
<1>1. Head(y) \in Answers /\ h \in Seq(Answers) /\ t \in Seq(Answers)
  BY HeadTailProperties, OnePlace
<1>2. h \o t = y OBVIOUS
<1>3. Append(c, Head(y)) = c \o h OBVIOUS
<1> HIDE DEF h, t
<1>4. r \o c \in Seq(Answers) BY ConcatPlaces
<1>5. \A p, q, w \in Seq(Answers) : (p \o q) \o w = p \o (q \o w) BY Association
<1>6. r \o (c \o h) = (r \o c) \o h BY <1>1, <1>5, ZenonT(60)
<1>7. ((r \o c) \o h) \o t = (r \o c) \o (h \o t) BY <1>1, <1>4, <1>5, ZenonT(60)
<1> QED BY <1>2, <1>3, <1>6, <1>7 DEF t

\* The idle REPL has something to say.
LEMMA GrownLine ==
  ASSUME NEW r \in Seq(Answers), NEW c \in Seq(Answers), NEW y \in Seq(Answers)
  PROVE  r \o c \o y = (r \o c \o <<>>) \o y
<1>1. r \o c \in Seq(Answers) BY ConcatPlaces
<1> QED BY <1>1, ConcatEmptySeq

LEMMA FirstPlace ==
  ASSUME TypeOK, NEW marker, Has(marker)
  PROVE  /\ FirstOf(marker) \in 1 .. Len(rx) /\ Matches(rx[FirstOf(marker)], marker)
         /\ \A j \in 1 .. FirstOf(marker) - 1 : ~Matches(rx[j], marker)
<1> DEFINE T == {i \in 1 .. Len(rx) : Matches(rx[i], marker)}
<1>1. rx \in Seq(Answers) BY DEF TypeOK
<1>2. Len(rx) \in Nat /\ DOMAIN rx = 1 .. Len(rx) BY <1>1, SeqPlaces
<1>3. T \subseteq Nat /\ T # {} BY <1>2 DEF Has
<1>4. PICK x \in T : \A y \in T : x <= y BY <1>3, LeastNumber
<1>5. \A j \in 1 .. x - 1 : ~Matches(rx[j], marker)
  <2> SUFFICES ASSUME NEW j \in 1 .. x - 1 PROVE j \notin T BY <1>2, <1>4
  <2>1. ~(x <= j) BY <1>2, <1>4
  <2> QED BY <1>4, <2>1
<1>6. x \in DOMAIN rx /\ Matches(rx[x], marker) BY <1>2, <1>4
<1> HIDE DEF T
<1>7. /\ FirstOf(marker) \in DOMAIN rx /\ Matches(rx[FirstOf(marker)], marker)
      /\ \A j \in 1 .. FirstOf(marker) - 1 : ~Matches(rx[j], marker)
  BY <1>5, <1>6 DEF FirstOf
<1> QED BY <1>2, <1>7

-----------------------------------------------------------------------------
\* Tokens.

LEMMA InputFacts ==
  /\ \A key \in {"A", "B", "C", "D"} :
       Ctrl(key) \in Inputs /\ Ctrl(key).kind = key /\ Ctrl(key).of = 0
  /\ \A n \in Execs : Code(n) \in Inputs /\ Code(n).kind = "code" /\ Code(n).of = n
  /\ \A t \in Inputs :
       /\ t.kind \in {"A", "B", "C", "D", "code"} /\ t.of \in 0 .. MaxExecs
       /\ t.kind = "code" => t.of \in Execs /\ t = Code(t.of)
       /\ t.kind # "code" => t.of = 0 /\ t = Ctrl(t.kind)
<1>0. MaxExecs \in Nat BY BoundsAssumption
<1>1. \A key \in {"A", "B", "C", "D"} :
        Ctrl(key) \in Inputs /\ Ctrl(key).kind = key /\ Ctrl(key).of = 0
  BY DEF Inputs, Ctrl, Token
<1>2. \A n \in Execs : Code(n) \in Inputs /\ Code(n).kind = "code" /\ Code(n).of = n
  BY DEF Inputs, Code, Token
<1>3. ASSUME NEW t \in Inputs
      PROVE  /\ t.kind \in {"A", "B", "C", "D", "code"} /\ t.of \in 0 .. MaxExecs
             /\ t.kind = "code" => t.of \in Execs /\ t = Code(t.of)
             /\ t.kind # "code" => t.of = 0 /\ t = Ctrl(t.kind)
  <2>1. CASE \E key \in {"A", "B", "C", "D"} : t = Ctrl(key)
    <3>1. PICK key \in {"A", "B", "C", "D"} : t = Ctrl(key) BY <2>1
    <3>2. t.kind = key /\ t.of = 0 /\ key # "code" BY <1>1, <3>1
    <3> QED BY <1>0, <3>1, <3>2
  <2>2. CASE \E n \in Execs : t = Code(n)
    <3>1. PICK n \in Execs : t = Code(n) BY <2>2
    <3>2. t.kind = "code" /\ t.of = n BY <1>2, <3>1
    <3> QED BY <1>0, <3>1, <3>2 DEF Execs
  <2> QED BY <2>1, <2>2 DEF Inputs
<1> QED BY <1>1, <1>2, <1>3

LEMMA AnswerFacts ==
  /\ \A k \in {"ok", "eot", "prompt", "raw"}, n \in 0 .. MaxExecs :
       Token(k, n) \in Answers /\ Token(k, n).kind = k /\ Token(k, n).of = n
  /\ \A t \in Answers :
       t.kind \in {"ok", "eot", "prompt", "raw"} /\ t.of \in 0 .. MaxExecs
BY DEF Answers, Token

LEMMA EndedFacts ==
  ASSUME NEW n \in 0 .. MaxExecs + 1
  PROVE  /\ Ended(n) \in Seq(Answers)
         /\ \A i \in 1 .. Len(Ended(n)) : Ended(n)[i].kind # "raw"
         /\ n # Boot => /\ Ended(n) = <<Token("eot", n), Token("eot", n), Token("prompt", n)>>
                        /\ n \in 0 .. MaxExecs
<1>1. MaxExecs \in Nat BY BoundsAssumption
<1>2. CASE n = Boot
  <2>1. Token("prompt", 0) \in Answers /\ Token("prompt", 0).kind = "prompt"
    BY <1>1, AnswerFacts
  <2>2. Ended(n) = <<Token("prompt", 0)>> BY <1>2 DEF Ended, Friendly
  <2>3. /\ Ended(n) \in Seq(Answers) /\ Len(Ended(n)) = 1
        /\ Ended(n)[1] = Token("prompt", 0)
    BY <2>1, <2>2, OnePlace
  <2>4. \A i \in 1 .. Len(Ended(n)) : Ended(n)[i].kind # "raw" BY <2>1, <2>3
  <2> QED BY <1>2, <2>3, <2>4
<1>3. CASE n # Boot
  <2>1. n \in 0 .. MaxExecs BY <1>1, <1>3 DEF Boot
  <2> DEFINE e == Token("eot", n)
             p == Token("prompt", n)
  <2>2. e \in Answers /\ p \in Answers /\ e.kind = "eot" /\ p.kind = "prompt"
    BY <2>1, AnswerFacts
  <2>3. Ended(n) = <<e, e, p>> BY <1>3 DEF Ended
  <2> HIDE DEF e, p
  <2>4. <<e, e, p>> \in Seq(Answers) /\ Len(<<e, e, p>>) = 3 BY <2>2
  <2>5. \A i \in 1 .. 3 : <<e, e, p>>[i].kind # "raw" BY <2>2
  <2> QED BY <2>1, <2>3, <2>4, <2>5 DEF e, p
<1> QED BY <1>2, <1>3

-----------------------------------------------------------------------------
\* What the steps do to what is to come.

LEMMA Types ==
  ASSUME TypeOK
  PROVE  /\ rx \in Seq(Answers) /\ coming \in Seq(Answers) /\ saying \in Seq(Answers)
         /\ tx \in Seq(Inputs) /\ ToCome \in Seq(Answers)
         /\ Len(rx) \in Nat /\ Len(coming) \in Nat /\ Len(saying) \in Nat
         /\ Len(ToCome) = Len(rx) + Len(coming) + Len(saying)
         /\ DOMAIN ToCome = 1 .. Len(ToCome) /\ DOMAIN tx = 1 .. Len(tx) /\ Len(tx) \in Nat
         /\ \A i \in 1 .. Len(rx) : i \in 1 .. Len(ToCome) /\ ToCome[i] = rx[i]
<1>1. /\ rx \in Seq(Answers) /\ coming \in Seq(Answers) /\ saying \in Seq(Answers)
      /\ tx \in Seq(Inputs)
  BY DEF TypeOK
<1>2. /\ ToCome \in Seq(Answers)
      /\ Len(rx) \in Nat /\ Len(coming) \in Nat /\ Len(saying) \in Nat
      /\ Len(ToCome) = Len(rx) + Len(coming) + Len(saying)
      /\ \A i \in 1 .. Len(rx) + Len(coming) + Len(saying) :
           ToCome[i] = IF i <= Len(rx) THEN rx[i]
                       ELSE IF i <= Len(rx) + Len(coming) THEN coming[i - Len(rx)]
                       ELSE saying[i - (Len(rx) + Len(coming))]
  BY <1>1, LinePlaces DEF ToCome
<1>3. DOMAIN ToCome = 1 .. Len(ToCome) BY <1>2, SeqPlaces
<1>4. DOMAIN tx = 1 .. Len(tx) /\ Len(tx) \in Nat BY <1>1, SeqPlaces
<1>5. \A i \in 1 .. Len(rx) : i \in 1 .. Len(rx) + Len(coming) + Len(saying) /\ i <= Len(rx)
  BY <1>2
<1> QED BY <1>1, <1>2, <1>3, <1>4, <1>5

LEMMA ReadStep ==
  ASSUME TypeOK, NEW marker, Read(marker)
  PROVE  ToCome' = ToCome /\ rx' \in Seq(Answers) /\ coming' \in Seq(Answers)
<1>1. PICK n \in 1 .. Len(coming) :
        /\ rx' = rx \o SubSeq(coming, 1, n)
        /\ coming' = SubSeq(coming, n + 1, Len(coming))
  BY DEF Read
<1>2. rx \in Seq(Answers) /\ coming \in Seq(Answers) /\ saying \in Seq(Answers)
      /\ Len(coming) \in Nat
  BY Types
<1>3. n \in 0 .. Len(coming) BY <1>2
<1>4. SubSeq(coming, 1, n) \in Seq(Answers) BY <1>2, <1>3, PrefixPlaces
<1>5. coming' \in Seq(Answers) BY <1>1, <1>2, <1>3, SubSeqCut
<1>6. rx' \in Seq(Answers) BY <1>1, <1>2, <1>4, ConcatPlaces
<1>7. saying' = saying BY DEF Read, boardVars
<1>8. (rx \o SubSeq(coming, 1, n)) \o SubSeq(coming, n + 1, Len(coming)) \o saying = ToCome
  BY <1>2, ReadLine DEF ToCome
<1> QED BY <1>1, <1>5, <1>6, <1>7, <1>8 DEF ToCome

LEMMA ClearStep ==
  ASSUME TypeOK, Clear, saying' = saying
  PROVE  /\ IsCut(ToCome', ToCome, Len(rx) + Len(coming))
         /\ rx' \in Seq(Answers) /\ coming' \in Seq(Answers)
<1>1. rx' = <<>> /\ coming' = <<>> BY DEF Clear
<1>2. rx \in Seq(Answers) /\ coming \in Seq(Answers) /\ saying \in Seq(Answers) BY Types
<1> QED BY <1>1, <1>2, ClearedLine, EmptySeq DEF ToCome

LEMMA CutStep ==
  ASSUME TypeOK, NEW d \in 0 .. Len(rx), rx' = SubSeq(rx, d + 1, Len(rx)),
         coming' = coming, saying' = saying
  PROVE  IsCut(ToCome', ToCome, d) /\ rx' \in Seq(Answers)
<1>1. rx \in Seq(Answers) /\ coming \in Seq(Answers) /\ saying \in Seq(Answers) BY Types
<1>2. rx' \in Seq(Answers) /\ IsCut(rx', rx, d) BY <1>1, SubSeqCut
<1>3. IsCut(rx' \o coming \o saying, rx \o coming \o saying, d) BY <1>1, <1>2, TakenLine
<1> QED BY <1>2, <1>3 DEF ToCome

LEMMA TakeStep ==
  ASSUME TypeOK, NEW marker, TakeUntil(marker), coming' = coming, saying' = saying
  PROVE  /\ FirstOf(marker) \in 1 .. Len(rx)
         /\ IsCut(ToCome', ToCome, FirstOf(marker)) /\ rx' \in Seq(Answers)
         /\ Matches(ToCome[FirstOf(marker)], marker)
         /\ \A j \in 1 .. FirstOf(marker) - 1 :
              j \in 1 .. Len(rx) /\ ~Matches(ToCome[j], marker)
         /\ TakenFrom(marker) = {ToCome[i].of : i \in 1 .. FirstOf(marker)}
<1> DEFINE d == FirstOf(marker)
<1>1. Has(marker) /\ rx' = SubSeq(rx, d + 1, Len(rx)) BY DEF TakeUntil
<1>2. /\ d \in 1 .. Len(rx) /\ Matches(rx[d], marker)
      /\ \A j \in 1 .. d - 1 : ~Matches(rx[j], marker)
  BY <1>1, FirstPlace
<1>3. Len(rx) \in Nat /\ \A i \in 1 .. Len(rx) : ToCome[i] = rx[i] BY Types
<1>4. TakenFrom(marker) = {rx[i].of : i \in 1 .. d} BY DEF TakenFrom
<1> HIDE DEF d
<1>5. d \in 0 .. Len(rx) BY <1>2, <1>3
<1>6. IsCut(ToCome', ToCome, d) /\ rx' \in Seq(Answers) BY <1>1, <1>5, CutStep
<1>7. \A i \in 1 .. d : i \in 1 .. Len(rx) /\ ToCome[i] = rx[i] BY <1>2, <1>3
<1>8. {rx[i].of : i \in 1 .. d} = {ToCome[i].of : i \in 1 .. d} BY <1>7
<1>9. \A j \in 1 .. d - 1 : j \in 1 .. Len(rx) /\ ToCome[j] = rx[j] BY <1>2, <1>3
<1> QED BY <1>2, <1>3, <1>4, <1>6, <1>8, <1>9 DEF d

LEMMA EmptyStep ==
  ASSUME TypeOK, rx' = <<>>, coming' = coming, saying' = saying
  PROVE  IsCut(ToCome', ToCome, Len(rx)) /\ rx' \in Seq(Answers)
<1>1. Len(rx) \in Nat /\ Len(rx) \in 0 .. Len(rx) BY Types
<1>2. SubSeq(rx, Len(rx) + 1, Len(rx)) = <<>> BY <1>1, SubSeqEmpty
<1> QED BY <1>1, <1>2, CutStep

LEMMA SaysStep ==
  ASSUME TypeOK, Says
  PROVE  ToCome' = ToCome /\ coming' \in Seq(Answers) /\ saying' \in Seq(Answers)
<1>1. /\ saying # <<>> /\ rx' = rx
      /\ coming' = Append(coming, Head(saying)) /\ saying' = Tail(saying)
  BY DEF Says
<1>2. rx \in Seq(Answers) /\ coming \in Seq(Answers) /\ saying \in Seq(Answers) BY Types
<1>3. Head(saying) \in Answers /\ saying' \in Seq(Answers) BY <1>1, <1>2, HeadTailProperties
<1>4. coming' \in Seq(Answers) BY <1>1, <1>2, <1>3
<1>5. rx \o Append(coming, Head(saying)) \o Tail(saying) = ToCome
  BY <1>1, <1>2, SaidLine DEF ToCome
<1> QED BY <1>1, <1>3, <1>4, <1>5 DEF ToCome

LEMMA GrowStep ==
  ASSUME TypeOK, saying = <<>>, saying' \in Seq(Answers), rx' = rx, coming' = coming
  PROVE  ToCome' = ToCome \o saying'
<1>1. rx \in Seq(Answers) /\ coming \in Seq(Answers) BY Types
<1>2. rx \o coming \o saying' = (rx \o coming \o <<>>) \o saying' BY <1>1, GrownLine
<1> QED BY <1>2 DEF ToCome

-----------------------------------------------------------------------------
\* Types.

LEMMA WrittenType ==
  ASSUME TypeOK, NEW e \in Inputs
  PROVE  tx \o <<e>> \in Seq(Inputs)
BY Types, OnePlace, ConcatPlaces

LEMMA TypeInit == Init => TypeOK
<1> SUFFICES ASSUME Init PROVE TypeOK OBVIOUS
<1>1. MaxExecs \in Nat BY BoundsAssumption
<1>2. running \in 0 .. MaxExecs + 1 BY <1>1 DEF Init, Boot, Nothing
<1>3. /\ rx \in Seq(Answers) /\ coming \in Seq(Answers) /\ saying \in Seq(Answers)
      /\ tx \in Seq(Inputs) /\ reply \in Seq(SUBSET (0 .. MaxExecs))
  <2>1. rx = <<>> /\ coming = <<>> /\ saying = <<>> /\ tx = <<>> /\ reply = <<>> BY DEF Init
  <2>2. rx \in Seq(Answers) /\ coming \in Seq(Answers) /\ saying \in Seq(Answers)
    BY <2>1, EmptySeq, Zenon
  <2>3. tx \in Seq(Inputs) BY <2>1, EmptySeq, Zenon
  <2>4. reply \in Seq(SUBSET (0 .. MaxExecs)) BY <2>1, EmptySeq, Zenon
  <2> QED BY <2>2, <2>3, <2>4
<1>4. /\ port \in BOOLEAN /\ connected \in BOOLEAN /\ dirty \in BOOLEAN /\ doubted \in BOOLEAN
      /\ execs \in 0 .. MaxExecs /\ barred \in 0 .. MaxExecs
  <2>1. /\ port \in BOOLEAN /\ connected \in BOOLEAN /\ dirty \in BOOLEAN
        /\ doubted \in BOOLEAN
    BY Zenon DEF Init
  <2>2. execs \in 0 .. MaxExecs /\ barred \in 0 .. MaxExecs BY <1>1 DEF Init
  <2> QED BY <2>1, <2>2
<1>5. spent \in [resets : Nat, chatter : Nat, faults : Nat] BY DEF Init
<1>6. call = "connect" /\ step = "off" /\ dial = "opening" /\ mode \in {"raw", "friendly"}
  BY DEF Init
<1> QED BY <1>2, <1>3, <1>4, <1>5, <1>6 DEF TypeOK

LEMMA TypeDial ==
  ASSUME TypeOK, Dial
  PROVE  TypeOK'
<1>0. \A key \in {"A", "B", "C", "D"} : Ctrl(key) \in Inputs BY InputFacts
<1>1. CASE Opens
  <2>1. dial' \in {"done", "interrupt"} /\ call' \in {call, "none"} /\ port' \in {port, TRUE}
    BY <1>1 DEF Opens, Answered
  <2>2. port' \in BOOLEAN BY <2>1 DEF TypeOK
  <2> QED BY <1>1, <2>1, <2>2, SMTT(30) DEF TypeOK, Opens, boardVars
<1>2. CASE Interrupts
  <2>1. tx' \in Seq(Inputs) BY <1>0, <1>2, WrittenType DEF Interrupts, Write
  <2> QED BY <1>2, <2>1 DEF TypeOK, Interrupts, boardVars
<1>3. CASE EntersRaw
  <2>1. tx' \in Seq(Inputs) BY <1>0, <1>3, WrittenType DEF EntersRaw, Write
  <2>2. rx' \in Seq(Answers) /\ coming' \in Seq(Answers) BY <1>3, EmptySeq DEF EntersRaw, Clear
  <2>3. doubted' \in BOOLEAN BY <1>3 DEF EntersRaw
  <2> QED BY <1>3, <2>1, <2>2, <2>3 DEF TypeOK, EntersRaw, boardVars
<1>4. CASE Connects
  <2>1. rx' \in Seq(Answers) BY <1>4, EmptySeq DEF Connects
  <2> QED BY <1>4, <2>1 DEF TypeOK, Connects, boardVars, Answered
<1>5. CASE DialTimesOut BY <1>5 DEF TypeOK, DialTimesOut, boardVars, Answered
<1>6. CASE GivesUp BY <1>6 DEF TypeOK, GivesUp, boardVars
<1>7. CASE dial = "pump" /\ Read("raw")
  <2>1. rx' \in Seq(Answers) /\ coming' \in Seq(Answers) BY <1>7, ReadStep
  <2> QED BY <1>7, <2>1, SMTT(30) DEF TypeOK, Read, boardVars, hostVars
<1> QED BY <1>1, <1>2, <1>3, <1>4, <1>5, <1>6, <1>7 DEF Dial

LEMMA TypeHost ==
  ASSUME TypeOK, HostKept, Host
  PROVE  TypeOK'
<1>0. /\ \A key \in {"A", "B", "C", "D"} : Ctrl(key) \in Inputs
      /\ \A n \in Execs : Code(n) \in Inputs
      /\ MaxExecs \in Nat /\ tx \in Seq(Inputs) /\ execs \in 0 .. MaxExecs
      /\ spent \in [resets : Nat, chatter : Nat, faults : Nat]
  BY InputFacts, BoundsAssumption DEF TypeOK
<1>1. CASE ExecStarts
  <2>1. execs + 1 \in Execs /\ execs' \in 0 .. MaxExecs BY <1>0, <1>1 DEF ExecStarts, Execs
  <2>2. tx' \in Seq(Inputs) BY <1>0, <1>1, <2>1, WrittenType DEF ExecStarts, Write
  <2>3. reply' \in Seq(SUBSET (0 .. MaxExecs)) BY <1>1, EmptySeq DEF ExecStarts
  <2> QED BY <1>1, <2>1, <2>2, <2>3 DEF TypeOK, Resetting, ExecStarts, boardVars
<1>2. CASE Pumps
  <2>1. PICK m \in {"ok", "eot"} :
          /\ TakeUntil(m)
          /\ reply' \in {reply, <<TakenFrom(m)>>, Append(reply, TakenFrom(m))}
    BY <1>2 DEF Pumps
  <2>2. coming' = coming /\ saying' = saying BY <1>2 DEF Pumps, boardVars
  <2>3. /\ rx' \in Seq(Answers) /\ FirstOf(m) \in 1 .. Len(rx)
        /\ TakenFrom(m) = {ToCome[i].of : i \in 1 .. FirstOf(m)}
    BY <2>1, <2>2, TakeStep
  <2>4. TakenFrom(m) \subseteq 0 .. MaxExecs
    <3>1. /\ \A i \in 1 .. Len(rx) : i \in 1 .. Len(ToCome)
          /\ ToCome \in Seq(Answers) /\ Len(rx) \in Nat
      BY Types
    <3>2. \A i \in 1 .. FirstOf(m) : i \in 1 .. Len(rx) BY <2>3, <3>1
    <3>3. \A i \in 1 .. FirstOf(m) : ToCome[i] \in Answers BY <3>1, <3>2, SeqPlaces
    <3> QED BY <2>3, <3>3, AnswerFacts
  <2> HIDE DEF TakenFrom
  <2>5. reply' \in Seq(SUBSET (0 .. MaxExecs))
    <3> DEFINE U == SUBSET (0 .. MaxExecs)
               x == TakenFrom(m)
    <3>1. x \in U /\ reply \in Seq(U) BY <2>4 DEF TypeOK
    <3> HIDE DEF U, x
    <3>2. <<x>> \in Seq(U) /\ Append(reply, x) \in Seq(U) BY <3>1
    <3>3. reply' \in {reply, <<x>>, Append(reply, x)} BY <2>1 DEF x
    <3>4. reply' \in Seq(U) BY <3>1, <3>2, <3>3
    <3> QED BY <3>4 DEF U
  <2>6. step' \in {"out", "err", "prompt"} BY <1>2 DEF Pumps
  <2> QED BY <1>2, <2>3, <2>5, <2>6 DEF TypeOK, Pumps, boardVars
<1>3. CASE ExecReturns
  <2>1. rx' \in Seq(Answers)
    <3>1. CASE TakeUntil("prompt") BY <1>3, <3>1, TakeStep DEF ExecReturns, boardVars
    <3>2. CASE rx' = rx BY <3>2, Types
    <3> QED BY <1>3, <3>1, <3>2 DEF ExecReturns
  <2> QED BY <1>3, <2>1 DEF TypeOK, ExecReturns, boardVars
<1>4. CASE ExecTimesOut
  <2>1. reply' \in Seq(SUBSET (0 .. MaxExecs)) BY <1>4, EmptySeq DEF ExecTimesOut
  <2> QED BY <1>4, <2>1 DEF TypeOK, ExecTimesOut, boardVars
<1>5. CASE ResetStarts
  <2>1. reply' \in Seq(SUBSET (0 .. MaxExecs)) BY <1>5, EmptySeq DEF ResetStarts
  <2>2. spent' \in [resets : Nat, chatter : Nat, faults : Nat] BY <1>0, <1>5 DEF ResetStarts
  <2> QED BY <1>5, <2>1, <2>2 DEF TypeOK, Resetting, ResetStarts, boardVars
<1>6. ASSUME Breaks \/ Leaves \/ Restarts \/ Stops \/ Reenters PROVE TypeOK'
  <2>1. PICK key \in {"A", "B", "C", "D"}, at, next \in Resetting : Sends(key, at, next)
    BY <1>6, SMTT(30) DEF Breaks, Leaves, Restarts, Stops, Reenters, Resetting
  <2>2. tx' \in Seq(Inputs) BY <1>0, <2>1, WrittenType DEF Sends, Write
  <2>3. rx' \in Seq(Answers) /\ coming' \in Seq(Answers)
    <3>1. rx \in Seq(Answers) /\ coming \in Seq(Answers) BY DEF TypeOK
    <3> QED BY <1>6, <3>1, EmptySeq DEF Breaks, Leaves, Restarts, Stops, Reenters, Clear
  <2> QED BY <2>1, <2>2, <2>3 DEF TypeOK, Sends, boardVars
<1>8. CASE ResetReturns
  <2>1. call = "resync" => execs \in Execs BY <1>0 DEF HostKept, Execs
  <2>2. tx' \in Seq(Inputs) BY <1>0, <1>8, <2>1, WrittenType DEF ResetReturns, Write
  <2>3. rx' \in Seq(Answers) BY <1>8, EmptySeq DEF ResetReturns
  <2>4. barred' \in 0 .. MaxExecs BY <1>0, <1>8, <2>1 DEF ResetReturns, Execs
  <2>5. doubted' \in BOOLEAN BY <1>8 DEF ResetReturns
  <2> QED BY <1>8, <2>2, <2>3, <2>4, <2>5 DEF TypeOK, ResetReturns, boardVars
<1>9. CASE ResetRaises BY <1>9 DEF TypeOK, ResetRaises, boardVars
<1>10. CASE PortRaises
  <2>1. reply' \in Seq(SUBSET (0 .. MaxExecs)) BY <1>10, EmptySeq DEF PortRaises
  <2>2. spent' \in [resets : Nat, chatter : Nat, faults : Nat] BY <1>0, <1>10 DEF PortRaises
  <2> QED BY <1>10, <2>1, <2>2 DEF TypeOK, PortRaises, boardVars
<1>11. CASE Close
  <2>1. tx' \in Seq(Inputs) BY <1>0, <1>11, WrittenType DEF Close, Write
  <2> QED BY <1>11, <2>1 DEF TypeOK, Close, boardVars
<1>12. ASSUME NEW m, Read(m) PROVE TypeOK'
  <2>1. rx' \in Seq(Answers) /\ coming' \in Seq(Answers) BY <1>12, ReadStep
  <2> QED BY <1>12, <2>1, SMTT(30) DEF TypeOK, Read, boardVars, hostVars
<1> QED BY <1>1, <1>2, <1>3, <1>4, <1>5, <1>6, <1>8, <1>9, <1>10, <1>11, <1>12 DEF Host

-----------------------------------------------------------------------------
\* What the REPL does with an input, and with what runs.

NoRaw(e) == \A i \in 1 .. Len(e) : e[i].kind # "raw"

\* The answers to an input h, the REPL's mode and what it runs next.
Answer(h) ==
  \/ h.kind = "A" /\ saying' = <<Token("raw", 0)>> /\ mode' = "raw" /\ running' = Nothing
  \/ h.kind = "C" /\ NoRaw(saying') /\ mode' = mode /\ running' = Nothing
  \/ h.kind = "B" /\ NoRaw(saying') /\ mode' = "friendly" /\ running' = Nothing
  \/ h.kind = "D" /\ mode = "raw" /\ mode' = mode /\ running' = Nothing
  \/ /\ h.kind \in {"D", "code"} /\ mode = "friendly"
     /\ NoRaw(saying') /\ mode' = "friendly" /\ running' \in {Nothing, Boot}
  \/ /\ h.kind = "code" /\ mode = "raw"
     /\ saying' = <<Token("ok", h.of)>> /\ mode' = "raw" /\ running' = h.of

LEMMA ObeysStep ==
  ASSUME TypeOK, Obeys
  PROVE  /\ saying = <<>> /\ running = Nothing /\ tx # <<>>
         /\ tx' \in Seq(Inputs) /\ IsCut(tx', tx, 1) /\ 1 \in 1 .. Len(tx) /\ tx[1] \in Inputs
         /\ saying' \in Seq(Answers) /\ ToCome' = ToCome \o saying'
         /\ Answer(tx[1])
<1> DEFINE h == tx[1]
<1>1. saying = <<>> /\ running = Nothing /\ tx # <<>> /\ rx' = rx /\ coming' = coming
  BY DEF Obeys, Idle
<1>2. tx \in Seq(Inputs) /\ MaxExecs \in Nat /\ mode \in {"raw", "friendly"}
  BY BoundsAssumption DEF TypeOK
<1>3. tx' = Tail(tx) BY DEF Obeys
<1>4. /\ tx' \in Seq(Inputs) /\ IsCut(tx', tx, 1) /\ 1 \in 1 .. Len(tx) /\ h \in Inputs
      /\ Head(tx) = h
  BY <1>1, <1>2, <1>3, TailCut
<1> HIDE DEF h
<1> DEFINE P == <<Token("prompt", 0)>>
           n == h.of
<1>5. n \in 0 .. MaxExecs BY <1>4, InputFacts
<1>6. /\ P \in Seq(Answers) /\ NoRaw(P) /\ P = Friendly
      /\ <<>> \in Seq(Answers) /\ NoRaw(<<>>) /\ <<>> \o P = P
  <2>1. Token("prompt", 0) \in Answers /\ Token("prompt", 0).kind = "prompt"
    BY <1>2, AnswerFacts
  <2>2. P \in Seq(Answers) /\ Len(P) = 1 /\ P[1] = Token("prompt", 0) BY <2>1, OnePlace
  <2>3. NoRaw(P) BY <2>1, <2>2 DEF NoRaw
  <2>4. NoRaw(<<>>) BY DEF NoRaw
  <2>5. <<>> \o P = P BY <2>2, ConcatEmptySeq
  <2> QED BY <2>2, <2>3, <2>4, <2>5, EmptySeq DEF Friendly
<1> DEFINE Q == <<Token("prompt", n)>>
<1>7. Q \in Seq(Answers) /\ Q \o P \in Seq(Answers) /\ NoRaw(Q) /\ NoRaw(Q \o P)
  <2>1. Token("prompt", n) \in Answers /\ Token("prompt", n).kind = "prompt"
    BY <1>5, AnswerFacts
  <2>2. Q \in Seq(Answers) /\ Len(Q) = 1 /\ Q[1] = Token("prompt", n) BY <2>1, OnePlace
  <2>3. NoRaw(Q) BY <2>1, <2>2 DEF NoRaw
  <2> HIDE DEF Q, P
  <2>4. Q \o P \in Seq(Answers) BY <1>6, <2>2, ConcatPlaces
  <2>5. /\ Len(Q) \in Nat /\ Len(P) \in Nat /\ Len(Q \o P) = Len(Q) + Len(P)
        /\ \A i \in 1 .. Len(Q) + Len(P) :
             (Q \o P)[i] = IF i <= Len(Q) THEN Q[i] ELSE P[i - Len(Q)]
    BY <1>6, <2>2, ConcatPlaces
  <2>6. ASSUME NEW i \in 1 .. Len(Q) + Len(P) PROVE (Q \o P)[i].kind # "raw"
    <3>1. CASE i <= Len(Q)
      <4>1. i \in 1 .. Len(Q) BY <2>5, <3>1
      <4> QED BY <2>3, <2>5, <3>1, <4>1 DEF NoRaw
    <3>2. CASE ~(i <= Len(Q))
      <4> DEFINE j == i - Len(Q)
      <4>1. j \in 1 .. Len(P) BY <2>5, <3>2
      <4>2. (Q \o P)[i] = P[j] BY <2>5, <3>2
      <4> HIDE DEF j
      <4> QED BY <1>6, <4>1, <4>2 DEF NoRaw
    <3> QED BY <3>1, <3>2
  <2> QED BY <2>2, <2>3, <2>4, <2>5, <2>6 DEF NoRaw
<1>8. /\ Token("raw", 0) \in Answers /\ <<Token("raw", 0)>> \in Seq(Answers)
      /\ Token("ok", 0) \in Answers /\ <<Token("ok", 0), Token("raw", 0)>> \in Seq(Answers)
      /\ Token("ok", n) \in Answers /\ <<Token("ok", n)>> \in Seq(Answers)
  <2>1. Token("raw", 0) \in Answers /\ Token("ok", 0) \in Answers /\ Token("ok", n) \in Answers
    BY <1>2, <1>5, AnswerFacts
  <2> QED BY <2>1
<1> HIDE DEF P, Q
<1>9. \/ h.kind = "C" /\ Does(IF mode = "raw" THEN <<>> ELSE P, mode, Nothing)
      \/ h.kind = "A" /\ Does(<<Token("raw", 0)>>, "raw", Nothing)
      \/ h.kind = "B" /\ Does(P, "friendly", Nothing)
      \/ h.kind = "D" /\ mode = "friendly" /\ Reboots(<<>>)
      \/ h.kind = "D" /\ mode = "raw" /\ Does(<<Token("ok", 0), Token("raw", 0)>>, mode, Nothing)
      \/ h.kind = "code" /\ mode = "raw" /\ Does(<<Token("ok", n)>>, mode, n)
      \/ h.kind = "code" /\ mode = "friendly" /\ Reboots(Q)
  BY <1>4, <1>6 DEF Obeys, Q
<1>10. saying' \in Seq(Answers) /\ Answer(h)
  <2>1. CASE h.kind = "C" /\ Does(IF mode = "raw" THEN <<>> ELSE P, mode, Nothing)
    <3>1. saying' \in {<<>>, P} /\ mode' = mode /\ running' = Nothing BY <2>1 DEF Does
    <3>2. saying' \in Seq(Answers) /\ NoRaw(saying') BY <1>6, <3>1
    <3> QED BY <2>1, <3>1, <3>2 DEF Answer
  <2>2. CASE h.kind = "A" /\ Does(<<Token("raw", 0)>>, "raw", Nothing)
    BY <1>8, <2>2 DEF Does, Answer
  <2>3. CASE h.kind = "B" /\ Does(P, "friendly", Nothing) BY <1>6, <2>3 DEF Does, Answer
  <2>4. CASE h.kind = "D" /\ mode = "friendly" /\ Reboots(<<>>)
    <3>1. saying' \in {<<>>, <<>> \o Friendly} /\ mode' = "friendly" /\ running' \in {Nothing, Boot}
      BY <2>4 DEF Reboots, Does
    <3>2. saying' \in Seq(Answers) /\ NoRaw(saying') BY <1>6, <3>1
    <3> QED BY <2>4, <3>1, <3>2 DEF Answer
  <2>5. CASE h.kind = "D" /\ mode = "raw" /\ Does(<<Token("ok", 0), Token("raw", 0)>>, mode, Nothing)
    BY <1>8, <2>5 DEF Does, Answer
  <2>6. CASE h.kind = "code" /\ mode = "raw" /\ Does(<<Token("ok", n)>>, mode, n)
    BY <1>8, <2>6 DEF Does, Answer
  <2>7. CASE h.kind = "code" /\ mode = "friendly" /\ Reboots(Q)
    <3>1. saying' \in {Q, Q \o Friendly} /\ mode' = "friendly" /\ running' \in {Nothing, Boot}
      BY <2>7 DEF Reboots, Does
    <3>2. saying' \in Seq(Answers) /\ NoRaw(saying') BY <1>6, <1>7, <3>1
    <3> QED BY <2>7, <3>1, <3>2 DEF Answer
  <2> QED BY <1>9, <2>1, <2>2, <2>3, <2>4, <2>5, <2>6, <2>7
<1>11. ToCome' = ToCome \o saying' BY <1>1, <1>10, GrowStep
<1> QED BY <1>1, <1>4, <1>10, <1>11 DEF h

\* What runs goes on or ends; at most an interrupt is taken from what is sent.
Runs ==
  /\ saying = <<>> /\ running # Nothing
  /\ saying' \in Seq(Answers) /\ ToCome' = ToCome \o saying' /\ NoRaw(saying')
  /\ mode' = mode /\ running' \in {Nothing, running}
  /\ tx' \in Seq(Inputs)
  /\ \/ tx' = tx
     \/ \E i \in 1 .. Len(tx) : tx[i] = Ctrl("C") /\ tx' = RemoveAt(tx, i)

LEMMA RunsStep ==
  ASSUME TypeOK, Finishes \/ IsInterrupted \/ Chatters
  PROVE  Runs
<1>1. /\ saying = <<>> /\ running # Nothing /\ rx' = rx /\ coming' = coming /\ mode' = mode
      /\ running' \in {Nothing, running}
      /\ \/ tx' = tx
         \/ \E i \in 1 .. Len(tx) : tx[i] = Ctrl("C") /\ tx' = RemoveAt(tx, i)
  <2>1. DOMAIN tx = 1 .. Len(tx) BY Types
  <2>2. CASE Finishes BY <2>2 DEF Finishes, Does
  <2>3. CASE IsInterrupted BY <2>1, <2>3 DEF IsInterrupted, Does, boardVars
  <2>4. CASE Chatters
    <3>1. Boot # Nothing BY BoundsAssumption DEF Boot, Nothing
    <3> QED BY <2>4, <3>1 DEF Chatters
  <2> QED BY <2>2, <2>3, <2>4
<1>2. tx \in Seq(Inputs) /\ running \in 0 .. MaxExecs + 1 BY DEF TypeOK
<1>3. tx' \in Seq(Inputs)
  <2>1. CASE tx' = tx BY <1>2, <2>1
  <2>2. CASE \E i \in 1 .. Len(tx) : tx[i] = Ctrl("C") /\ tx' = RemoveAt(tx, i)
    BY <1>2, <2>2, RemovePlaces
  <2> QED BY <1>1, <2>1, <2>2
<1>4. saying' \in Seq(Answers) /\ NoRaw(saying')
  <2>1. saying' \in {saying, Ended(running)} \/ \E k \in {"ok", "eot", "prompt"} : saying' = <<Token(k, 0)>>
    BY DEF Finishes, IsInterrupted, Chatters, Does, boardVars
  <2>2. CASE saying' = saying
    <3>1. NoRaw(<<>>) BY DEF NoRaw
    <3> QED BY <1>1, <2>2, <3>1, EmptySeq
  <2>3. CASE saying' = Ended(running) BY <1>2, <2>3, EndedFacts DEF NoRaw
  <2>4. CASE \E k \in {"ok", "eot", "prompt"} : saying' = <<Token(k, 0)>>
    <3>1. PICK k \in {"ok", "eot", "prompt"} : saying' = <<Token(k, 0)>> BY <2>4
    <3>2. Token(k, 0) \in Answers /\ Token(k, 0).kind = k BY BoundsAssumption, AnswerFacts
    <3>3. saying' \in Seq(Answers) /\ Len(saying') = 1 /\ saying'[1] = Token(k, 0)
      BY <3>1, <3>2, OnePlace
    <3>4. NoRaw(saying') BY <3>2, <3>3 DEF NoRaw
    <3> QED BY <3>3, <3>4
  <2> QED BY <2>1, <2>2, <2>3, <2>4
<1>5. ToCome' = ToCome \o saying' BY <1>1, <1>4, GrowStep
<1> QED BY <1>1, <1>3, <1>4, <1>5 DEF Runs

LEMMA TypeBoard ==
  ASSUME TypeOK, Board
  PROVE  TypeOK'
<1>0. MaxExecs \in Nat /\ running \in 0 .. MaxExecs + 1 /\ Boot \in 0 .. MaxExecs + 1
  BY BoundsAssumption DEF TypeOK, Boot
<1>1. CASE Says
  <2>1. coming' \in Seq(Answers) /\ saying' \in Seq(Answers) BY <1>1, SaysStep
  <2> QED BY <1>1, <2>1 DEF TypeOK, Says, hostVars
<1>2. CASE Obeys
  <2>1. tx' \in Seq(Inputs) /\ saying' \in Seq(Answers) /\ tx[1] \in Inputs /\ Answer(tx[1])
    BY <1>2, ObeysStep
  <2>2. running' \in 0 .. MaxExecs + 1 /\ mode' \in {"raw", "friendly"}
    <3>1. tx[1].of \in 0 .. MaxExecs + 1 BY <1>0, <2>1, InputFacts
    <3>2. mode \in {"raw", "friendly"} BY DEF TypeOK
    <3> QED BY <1>0, <2>1, <3>1, <3>2 DEF Answer, Nothing
  <2> QED BY <1>2, <2>1, <2>2 DEF TypeOK, Obeys, hostVars
<1>3. CASE Finishes \/ IsInterrupted \/ Chatters
  <2>1. Runs BY <1>3, RunsStep
  <2>2. UNCHANGED <<hostVars, rx, coming>> BY <1>3 DEF Finishes, IsInterrupted, Chatters
  <2>3. spent' \in [resets : Nat, chatter : Nat, faults : Nat]
    <3>1. spent \in [resets : Nat, chatter : Nat, faults : Nat] BY DEF TypeOK
    <3>2. spent' \in {spent, [spent EXCEPT !.chatter = @ + 1]}
      BY <1>3 DEF Finishes, IsInterrupted, Chatters
    <3> QED BY <3>1, <3>2
  <2>4. running' \in 0 .. MaxExecs + 1 BY <1>0, <2>1 DEF Runs, Nothing
  <2>5. saying' \in Seq(Answers) /\ tx' \in Seq(Inputs) /\ mode' = mode BY <2>1 DEF Runs
  <2> QED BY <2>2, <2>3, <2>4, <2>5 DEF TypeOK, hostVars
<1> QED BY <1>1, <1>2, <1>3 DEF Board

LEMMA TypeStep ==
  ASSUME TypeOK, HostKept, [Next]_vars
  PROVE  TypeOK'
<1>1. CASE Dial BY <1>1, TypeDial
<1>2. CASE Host BY <1>2, TypeHost
<1>3. CASE Board BY <1>3, TypeBoard
<1>4. CASE UNCHANGED vars BY <1>4 DEF TypeOK, vars
<1> QED BY <1>1, <1>2, <1>3, <1>4 DEF Next

-----------------------------------------------------------------------------
\* Which calls need what.

LEMMA HostInit == Init => HostKept
BY DEF Init, HostKept, InReset, Resetting

LEMMA HostDial ==
  ASSUME TypeOK, HostKept, Dial
  PROVE  HostKept'
<1>0. execs \in Nat /\ barred \in Nat /\ execs <= execs BY BoundsAssumption DEF TypeOK
<1>1. CASE Opens BY <1>0, <1>1 DEF HostKept, InReset, Resetting, Opens, Answered, Awaited
<1>2. CASE Interrupts BY <1>2 DEF HostKept, InReset, Resetting, Interrupts
<1>3. CASE EntersRaw BY <1>3 DEF HostKept, InReset, Resetting, EntersRaw
<1>4. CASE Connects BY <1>0, <1>4 DEF HostKept, InReset, Resetting, Connects, Answered, Awaited
<1>5. CASE DialTimesOut BY <1>5 DEF HostKept, InReset, Resetting, DialTimesOut, Answered, Awaited
<1>6. CASE GivesUp BY <1>6 DEF HostKept, InReset, Resetting, GivesUp, Awaited
<1>7. CASE dial = "pump" /\ Read("raw")
  BY <1>7 DEF HostKept, InReset, Resetting, Read, hostVars
<1> QED BY <1>1, <1>2, <1>3, <1>4, <1>5, <1>6, <1>7 DEF Dial

LEMMA HostHost ==
  ASSUME TypeOK, HostKept, Host
  PROVE  HostKept'
<1>0. execs \in Nat /\ barred \in Nat BY BoundsAssumption DEF TypeOK
<1>1. CASE ExecStarts BY <1>0, <1>1 DEF HostKept, InReset, Resetting, ExecStarts
<1>2. CASE Pumps BY <1>2 DEF HostKept, InReset, Resetting, Pumps
<1>3. CASE ExecReturns BY <1>3 DEF HostKept, InReset, Resetting, ExecReturns
<1>4. CASE ExecTimesOut BY <1>4 DEF HostKept, InReset, Resetting, ExecTimesOut
<1>5. CASE ResetStarts BY <1>5 DEF HostKept, InReset, Resetting, ResetStarts
<1>6. CASE Breaks BY <1>6 DEF HostKept, InReset, Resetting, Breaks, Sends
<1>7. CASE Leaves \/ Restarts \/ Stops \/ Reenters
  BY <1>7 DEF HostKept, InReset, Resetting, Leaves, Restarts, Stops, Reenters, Sends
<1>8. CASE ResetReturns BY <1>0, <1>8 DEF HostKept, InReset, Resetting, ResetReturns
<1>9. CASE ResetRaises BY <1>9 DEF HostKept, InReset, Resetting, ResetRaises
<1>10. CASE PortRaises BY <1>10 DEF HostKept, InReset, Resetting, PortRaises
<1>11. CASE Close BY <1>11 DEF HostKept, InReset, Resetting, Close
<1>12. ASSUME NEW m, Read(m) PROVE HostKept'
  BY <1>12 DEF HostKept, InReset, Resetting, Read, hostVars
<1> QED BY <1>1, <1>2, <1>3, <1>4, <1>5, <1>6, <1>7, <1>8, <1>9, <1>10, <1>11, <1>12 DEF Host

LEMMA HostStep ==
  ASSUME TypeOK, HostKept, [Next]_vars
  PROVE  HostKept'
<1>1. CASE Dial BY <1>1, HostDial
<1>2. CASE Host BY <1>2, HostHost
<1>3. CASE Board
  BY <1>3 DEF Board, HostKept, InReset, Resetting, Says, Obeys, Finishes, IsInterrupted, Chatters, hostVars
<1>4. CASE UNCHANGED vars BY <1>4 DEF HostKept, InReset, Resetting, vars
<1> QED BY <1>1, <1>2, <1>3, <1>4 DEF Next

-----------------------------------------------------------------------------
\* What is sent.

LEMMA SentOf ==
  ASSUME NEW X, TypeOK, \A i \in DOMAIN tx : tx[i] \in X
  PROVE  tx \in Seq(X)
<1>1. tx \in Seq(Inputs) /\ DOMAIN tx = 1 .. Len(tx) /\ Len(tx) \in Nat BY Types
<1>2. tx = SubSeq(tx, 1, Len(tx)) BY <1>1, SubSeqFull
<1>3. 1 \in Int /\ Len(tx) \in Int /\ \A i \in 1 .. Len(tx) : tx[i] \in X BY <1>1
<1>4. SubSeq(tx, 1, Len(tx)) \in Seq(X) BY <1>3, SubSeqProperties
<1> QED BY <1>2, <1>4

LEMMA AddedTo ==
  ASSUME NEW X, NEW s \in Seq(X), NEW e \in X
  PROVE  s \o <<e>> \in Seq(X)
BY OnePlace, ConcatPlaces

\* If all that is on its way to the board is in X, and what is written is, it stays so.
LEMMA SentStep ==
  ASSUME NEW X, tx \in Seq(X), TypeOK, [Next]_vars,
         \A key \in {"A", "B", "C", "D"} : Ctrl(key) \in X,
         ExecStarts /\ ~dirty => Code(execs + 1) \in X,
         ResetReturns /\ call = "resync" => Code(execs) \in X
  PROVE  tx' \in Seq(X)
<1>1. CASE \/ Interrupts \/ EntersRaw \/ Close
           \/ Breaks \/ Leaves \/ Restarts \/ Stops \/ Reenters
  <2>1. tx' = tx \/ \E key \in {"A", "B", "C", "D"} : tx' = tx \o <<Ctrl(key)>>
    BY <1>1 DEF Interrupts, EntersRaw, Close, Breaks, Leaves, Restarts, Stops, Reenters,
                Sends, Write
  <2> QED BY <2>1, AddedTo
<1>2. CASE ExecStarts
  <2>1. tx' = tx \/ (~dirty /\ tx' = tx \o <<Code(execs + 1)>>)
    BY <1>2 DEF ExecStarts, Write
  <2> QED BY <1>2, <2>1, AddedTo
<1>3. CASE ResetReturns
  <2>1. tx' = tx \/ (call = "resync" /\ tx' = tx \o <<Code(execs)>>)
    BY <1>3 DEF ResetReturns, Write
  <2> QED BY <1>3, <2>1, AddedTo
<1>5. CASE Obeys
  <2>1. tx' = Tail(tx) /\ tx # <<>> BY <1>5 DEF Obeys
  <2> QED BY <2>1, TailCut
<1>6. CASE Finishes \/ IsInterrupted \/ Chatters
  <2>1. tx' = tx \/ \E i \in 1 .. Len(tx) : tx' = RemoveAt(tx, i)
    BY <1>6, RunsStep DEF Runs
  <2> QED BY <2>1, RemovePlaces
<1>7. CASE \/ Opens \/ Connects \/ DialTimesOut \/ GivesUp \/ (\E m : Read(m))
           \/ Pumps \/ ExecReturns \/ ExecTimesOut \/ ResetStarts \/ ResetRaises \/ PortRaises
           \/ Says \/ UNCHANGED vars
  <2>1. tx' = tx
    BY <1>7 DEF Opens, Connects, DialTimesOut, GivesUp, Read, Pumps, ExecReturns, ExecTimesOut,
                ResetStarts, ResetRaises, PortRaises, Says, vars
  <2> QED BY <2>1
<1> QED BY <1>1, <1>2, <1>3, <1>5, <1>6, <1>7, Zenon DEF Next, Dial, Host, Board

LEMMA LineInit == Init => LineKept
<1> SUFFICES ASSUME Init PROVE LineKept OBVIOUS
<1>1. /\ tx = <<>> /\ rx = <<>> /\ coming = <<>> /\ saying = <<>> /\ execs = 0
      /\ running \in {Boot, Nothing}
  BY DEF Init
<1>2. ToCome = <<>> BY <1>1, ConcatEmptySeq DEF ToCome
<1>3. running \in 0 .. execs \/ running = Boot BY <1>1 DEF Nothing
<1>4. DOMAIN <<>> = {} OBVIOUS
<1> QED BY <1>1, <1>2, <1>3, <1>4 DEF LineKept

LEMMA LineStep ==
  ASSUME TypeOK, TypeOK', HostKept, LineKept, [Next]_vars
  PROVE  LineKept'
<1>0. /\ MaxExecs \in Nat /\ execs \in 0 .. MaxExecs /\ execs' \in 0 .. MaxExecs
      /\ tx \in Seq(Inputs) /\ tx' \in Seq(Inputs)
  BY BoundsAssumption DEF TypeOK
<1>1. execs' = execs \/ (ExecStarts /\ execs' = execs + 1)
  BY DEF Next, Dial, Host, Board, vars, hostVars, Opens, Interrupts, EntersRaw, Connects,
         DialTimesOut, GivesUp, Read, ExecStarts, Pumps, ExecReturns, ExecTimesOut, ResetStarts,
         Breaks, Leaves, Restarts, Stops, Sends, Reenters, ResetReturns, ResetRaises,
         PortRaises, Close, Says, Obeys, Finishes, IsInterrupted, Chatters
<1>2. execs <= execs' BY <1>0, <1>1
<1>3. \A i \in DOMAIN tx' : tx'[i].of <= execs'
  <2> DEFINE X == {t \in Inputs : t.of <= execs'}
  <2>1. \A i \in DOMAIN tx : tx[i] \in Inputs /\ tx[i].of <= execs'
    <3>1. \A i \in DOMAIN tx : tx[i] \in Inputs BY <1>0, SeqPlaces
    <3>2. \A i \in DOMAIN tx : tx[i].of \in 0 .. MaxExecs BY <3>1, InputFacts
    <3> QED BY <1>0, <1>2, <3>1, <3>2 DEF LineKept
  <2>2. tx \in Seq(X)
    <3>1. \A i \in DOMAIN tx : tx[i] \in X BY <2>1
    <3> HIDE DEF X
    <3> QED BY <3>1, SentOf
  <2>3. \A key \in {"A", "B", "C", "D"} : Ctrl(key) \in X BY <1>0, InputFacts
  <2>4. ExecStarts => Code(execs + 1) \in X
    <3> SUFFICES ASSUME ExecStarts PROVE Code(execs + 1) \in X OBVIOUS
    <3>1. execs + 1 \in Execs /\ execs + 1 = execs' BY <1>0 DEF ExecStarts, Execs
    <3>2. Code(execs + 1) \in Inputs /\ Code(execs + 1).of = execs' BY <3>1, InputFacts
    <3> QED BY <1>0, <3>2
  <2>5. call = "resync" => Code(execs) \in X
    <3> SUFFICES ASSUME call = "resync" PROVE Code(execs) \in X OBVIOUS
    <3>1. execs \in Execs BY <1>0 DEF HostKept, Execs
    <3>2. Code(execs) \in Inputs /\ Code(execs).of = execs BY <3>1, InputFacts
    <3> QED BY <1>2, <3>2
  <2>6. tx' \in Seq(X)
    <3> HIDE DEF X
    <3> QED BY <2>2, <2>3, <2>4, <2>5, SentStep
  <2>7. \A i \in DOMAIN tx' : tx'[i] \in X BY <2>6, SeqPlaces
  <2> QED BY <2>7
<1>4. running' \in 0 .. execs' \/ running' = Boot
  <2>1. CASE Obeys
    <3>1. Answer(tx[1]) /\ 1 \in DOMAIN tx /\ tx[1] \in Inputs BY <2>1, ObeysStep, Types
    <3>2. tx[1].of \in 0 .. execs' BY <1>0, <1>2, <3>1, InputFacts DEF LineKept
    <3> QED BY <1>0, <3>1, <3>2 DEF Answer, Nothing
  <2>2. CASE Finishes \/ IsInterrupted \/ Chatters
    <3>1. running' \in {Nothing, running} BY <2>2, RunsStep DEF Runs
    <3> QED BY <1>0, <1>2, <3>1 DEF LineKept, Nothing
  <2>3. CASE Dial \/ Host \/ Says \/ UNCHANGED vars
    <3>1. running' = running
      BY <2>3 DEF Dial, Host, vars, boardVars, Opens, Interrupts, EntersRaw, Connects,
         DialTimesOut, GivesUp, Read, ExecStarts, Pumps, ExecReturns, ExecTimesOut, ResetStarts,
         Breaks, Leaves, Restarts, Stops, Sends, Reenters, ResetReturns, ResetRaises,
              PortRaises, Close, Says
    <3> QED BY <1>0, <1>2, <3>1 DEF LineKept
  <2> QED BY <2>1, <2>2, <2>3 DEF Next, Board
<1>5. ASSUME dial' = "opening"
      PROVE  tx' = <<>> /\ rx' = <<>> /\ \A i \in DOMAIN ToCome' : ToCome'[i].kind # "raw"
  <2>1. /\ dial = "opening" /\ ~port /\ ~InReset /\ call # "exec" /\ ~connected
        /\ GivesUp \/ Close \/ Board \/ UNCHANGED vars
    BY <1>5 DEF HostKept, Next, Dial, Host, Board, vars, hostVars, Opens, Interrupts, EntersRaw,
         Connects, DialTimesOut, GivesUp, Read, ExecStarts, Pumps, ExecReturns, ExecTimesOut,
         ResetStarts, Breaks, Leaves, Restarts, Stops, Sends, Reenters, ResetReturns,
         ResetRaises, PortRaises, Close, Says, Obeys, Finishes, IsInterrupted, Chatters
  <2>2. tx = <<>> /\ rx = <<>> /\ \A i \in DOMAIN ToCome : ToCome[i].kind # "raw"
    BY <2>1 DEF LineKept
  <2>3. CASE GivesUp \/ Close \/ UNCHANGED vars
    <3>1. tx' = tx /\ rx' = rx /\ coming' = coming /\ saying' = saying
      BY <2>1, <2>3 DEF GivesUp, Close, vars, boardVars
    <3> QED BY <2>2, <3>1 DEF ToCome
  <2>4. CASE Says
    <3>1. ToCome' = ToCome /\ tx' = tx /\ rx' = rx BY <2>4, SaysStep DEF Says
    <3> QED BY <2>2, <3>1
  <2>5. CASE Obeys BY <2>2, <2>5 DEF Obeys
  <2>6. CASE Finishes \/ IsInterrupted \/ Chatters
    <3>1. Runs /\ rx' = rx BY <2>6, RunsStep DEF Finishes, IsInterrupted, Chatters
    <3>2. tx' = tx BY <2>2, <3>1 DEF Runs
    <3>3. /\ ToCome \in Seq(Answers) /\ saying' \in Seq(Answers) /\ NoRaw(saying')
          /\ ToCome' = ToCome \o saying'
      BY <3>1, Types DEF Runs
    <3>4. Places(ToCome', "raw") = Places(ToCome, "raw") BY <3>3, GrowCount DEF NoRaw
    <3> QED BY <2>2, <3>1, <3>2, <3>4 DEF Places
  <2> QED BY <2>1, <2>3, <2>4, <2>5, <2>6 DEF Board
<1> QED BY <1>3, <1>4, <1>5 DEF LineKept

LEMMA AddedPlaces ==
  ASSUME NEW S, NEW s \in Seq(S), NEW e \in S
  PROVE  /\ s \o <<e>> \in Seq(S) /\ Len(s) \in Nat /\ Len(s \o <<e>>) = Len(s) + 1
         /\ DOMAIN (s \o <<e>>) = 1 .. Len(s) + 1
         /\ \A i \in 1 .. Len(s) : (s \o <<e>>)[i] = s[i]
         /\ (s \o <<e>>)[Len(s) + 1] = e
         /\ s \o <<e>> # <<>> /\ Last(s \o <<e>>) = e
<1> DEFINE p == <<e>>
           t == s \o p
<1>1. p \in Seq(S) /\ Len(p) = 1 /\ p[1] = e BY OnePlace
<1> HIDE DEF p
<1>2. /\ t \in Seq(S) /\ Len(s) \in Nat /\ Len(t) = Len(s) + 1
      /\ \A i \in 1 .. Len(s) + 1 : t[i] = IF i <= Len(s) THEN s[i] ELSE p[i - Len(s)]
  BY <1>1, ConcatPlaces
<1> HIDE DEF t
<1>3. DOMAIN t = 1 .. Len(s) + 1 BY <1>2, SeqPlaces
<1>4. \A i \in 1 .. Len(s) : t[i] = s[i] BY <1>2
<1>5. t[Len(s) + 1] = e
  <2> DEFINE x == Len(s) + 1
  <2>1. x \in 1 .. Len(s) + 1 /\ ~(x <= Len(s)) /\ x - Len(s) = 1 BY <1>2
  <2> HIDE DEF x
  <2>2. t[x] = e BY <1>1, <1>2, <2>1
  <2> QED BY <2>2 DEF x
<1>6. t # <<>> BY <1>2, SeqPlaces
<1>7. Last(t) = e BY <1>2, <1>5 DEF Last
<1> QED BY <1>2, <1>3, <1>4, <1>5, <1>6, <1>7 DEF t, p

-----------------------------------------------------------------------------
\* Who writes what.

\* The one input that a step adds, if it adds one.
Added(e) == e \in Inputs /\ tx' = tx \o <<e>>
Sent ==
  \/ tx' = tx
  \/ Interrupts /\ Added(Ctrl("C"))
  \/ (EntersRaw \/ Reenters) /\ Added(Ctrl("A"))
  \/ (Breaks \/ Stops) /\ Added(Ctrl("C"))
  \/ Leaves /\ Added(Ctrl("B"))
  \/ Restarts /\ Added(Ctrl("D"))
  \/ Close /\ Added(Ctrl("B"))
  \/ ExecStarts /\ ~dirty /\ Added(Code(execs + 1))
  \/ ResetReturns /\ call = "resync" /\ Added(Code(execs))

LEMMA HostSends ==
  ASSUME TypeOK, HostKept, Dial \/ Host
  PROVE  /\ mode' = mode /\ running' = running /\ saying' = saying
         /\ Sent
<1>0. /\ \A key \in {"A", "B", "C", "D"} : Ctrl(key) \in Inputs
      /\ \A n \in Execs : Code(n) \in Inputs
      /\ MaxExecs \in Nat /\ execs \in 0 .. MaxExecs
  BY InputFacts, BoundsAssumption DEF TypeOK
<1>1. mode' = mode /\ running' = running /\ saying' = saying
  BY DEF Dial, Host, boardVars, Opens, Interrupts, EntersRaw, Connects, DialTimesOut, GivesUp,
         Read, ExecStarts, Pumps, ExecReturns, ExecTimesOut, ResetStarts, Breaks, Leaves,
         Restarts, Stops, Sends, Reenters, ResetReturns, ResetRaises, PortRaises, Close
<1> SUFFICES Sent BY <1>1
<1>2. CASE Interrupts BY <1>0, <1>2 DEF Sent, Added, Interrupts, Write
<1>3. CASE EntersRaw BY <1>0, <1>3 DEF Sent, Added, EntersRaw, Write
<1>4. CASE Reenters BY <1>0, <1>4 DEF Sent, Added, Reenters, Sends, Write
<1>5. CASE Close BY <1>0, <1>5 DEF Sent, Added, Close, Write
<1>6. CASE ExecStarts
  <2>1. execs + 1 \in Execs BY <1>0, <1>6 DEF ExecStarts, Execs
  <2> QED BY <1>0, <1>6, <2>1 DEF Sent, Added, ExecStarts, Write
<1>7. CASE ResetReturns
  <2>1. call = "resync" => execs \in Execs BY <1>0 DEF HostKept, Execs
  <2> QED BY <1>0, <1>7, <2>1 DEF Sent, Added, ResetReturns, Write
<1>8. CASE Breaks \/ Leaves \/ Restarts \/ Stops
  BY <1>0, <1>8 DEF Sent, Added, Breaks, Leaves, Restarts, Stops, Sends, Write
<1>9. CASE \/ Opens \/ Connects \/ DialTimesOut \/ GivesUp \/ (\E m : Read(m))
           \/ Pumps \/ ExecReturns \/ ExecTimesOut \/ ResetStarts \/ ResetRaises \/ PortRaises
  BY <1>9 DEF Sent, Opens, Connects, DialTimesOut, GivesUp, Read, Pumps, ExecReturns,
              ExecTimesOut, ResetStarts, ResetRaises, PortRaises
<1> QED BY <1>2, <1>3, <1>4, <1>5, <1>6, <1>7, <1>8, <1>9, Zenon DEF Dial, Host

\* An interrupt that is taken leaves the order of the rest.
LEMMA RunsPlaces ==
  ASSUME TypeOK, Runs, tx' # tx
  PROVE  /\ tx' \in Seq(Inputs) /\ Len(tx) \in Nat /\ Len(tx') = Len(tx) - 1
         /\ \E i \in 1 .. Len(tx) :
              /\ tx[i] = Ctrl("C")
              /\ \A j \in 1 .. Len(tx) - 1 : tx'[j] = IF j < i THEN tx[j] ELSE tx[j + 1]
<1>1. PICK i \in 1 .. Len(tx) : tx[i] = Ctrl("C") /\ tx' = RemoveAt(tx, i) BY DEF Runs
<1>2. tx \in Seq(Inputs) BY Types
<1> QED BY <1>1, <1>2, RemovePlaces

\* Only a resync that gets its prompt ends a doubt.
LEMMA StillDoubted ==
  ASSUME [Next]_vars, ~ResetReturns, ~doubted'
  PROVE  ~doubted
BY DEF Next, Dial, Host, Board, vars, hostVars, Opens, Interrupts, EntersRaw, Connects,
       DialTimesOut, GivesUp, Read, ExecStarts, Pumps, ExecReturns, ExecTimesOut, ResetStarts,
       Breaks, Leaves, Restarts, Stops, Sends, Reenters, ResetRaises, PortRaises, Close,
       Says, Obeys, Finishes, IsInterrupted, Chatters

\* The late answer to a doubted resync: nothing is left on the line.
LEMMA NothingLeft ==
  ASSUME TypeOK, ResetReturns, CaughtUp
  PROVE  ToCome' = <<>> /\ tx' \in {<<>>, <<Code(execs)>>}
<1>1. rx' = <<>> /\ coming' = <<>> /\ saying' = <<>> /\ tx = <<>>
  BY DEF ResetReturns, CaughtUp, boardVars
<1>2. ToCome' = <<>> BY <1>1, ConcatEmptySeq DEF ToCome
<1>3. tx' \in {tx, tx \o <<Code(execs)>>} BY DEF ResetReturns, Write
<1>4. <<>> \o <<Code(execs)>> = <<Code(execs)>> OBVIOUS
<1> QED BY <1>1, <1>2, <1>3, <1>4

\* j is what makes the REPL friendly for the i-th of q: it is friendly, or told to be by
\* the j-th, and nothing but interrupts follows.
IsFriendly(q, m, i, j) ==
  /\ j \in 0 .. i - 1
  /\ IF j = 0 THEN m = "friendly" ELSE q[j].kind = "B"
  /\ \A k \in DOMAIN q : j < k /\ k < i => q[k].kind = "C"

\* What was written before the i-th is what makes it so.
LEMMA SameFriendly ==
  ASSUME NEW q, NEW m, NEW s, NEW len \in Nat, DOMAIN q = 1 .. len,
         NEW size \in Nat, DOMAIN s = 1 .. size,
         NEW i \in 1 .. len + 1, \A k \in 1 .. i - 1 : s[k] = q[k],
         NEW j, IsFriendly(q, m, i, j)
  PROVE  IsFriendly(s, m, i, j)
<1>1. j \in 0 .. i - 1 /\ (j # 0 => j \in 1 .. i - 1) BY DEF IsFriendly
<1>2. \A k \in DOMAIN s : j < k /\ k < i => k \in 1 .. i - 1 /\ k \in DOMAIN q
  BY <1>1
<1> QED BY <1>1, <1>2 DEF IsFriendly

LEMMA FriendlyInit == Init => ResetsAreFriendly
<1>1. Init => tx = <<>> /\ step = "off" BY DEF Init
<1> QED BY <1>1 DEF ResetsAreFriendly

LEMMA FriendlyStep ==
  ASSUME TypeOK, TypeOK', HostKept, ResetsAreFriendly, [Next]_vars
  PROVE  ResetsAreFriendly'
<1>0. /\ tx \in Seq(Inputs) /\ Len(tx) \in Nat /\ DOMAIN tx = 1 .. Len(tx)
      /\ tx' \in Seq(Inputs) /\ Len(tx') \in Nat /\ DOMAIN tx' = 1 .. Len(tx')
  <2>1. tx \in Seq(Inputs) /\ tx' \in Seq(Inputs) BY DEF TypeOK
  <2> QED BY <2>1, SeqPlaces
<1>1. /\ Ctrl("C").kind = "C" /\ Ctrl("B").kind = "B" /\ Ctrl("A").kind = "A"
      /\ Ctrl("D").kind = "D" /\ \A n : Code(n).kind = "code"
  BY InputFacts DEF Code, Token
<1> DEFINE Sought(q, at, i) ==
      \/ i \in 1 .. Len(q) /\ q[i].kind = "D"
      \/ i = Len(q) + 1 /\ at = "restart"
<1>2. SUFFICES ASSUME ~doubted', NEW i \in 1 .. Len(tx') + 1, Sought(tx', step', i)
               PROVE  \E j : IsFriendly(tx', mode', i, j)
  <2>1. ASSUME NEW n \in 1 .. Len(tx') + 1, \E j : IsFriendly(tx', mode', n, j)
        PROVE  ReadFriendly(n)'
    BY <2>1 DEF IsFriendly, ReadFriendly
  <2>2. Len(tx') + 1 \in 1 .. Len(tx') + 1 /\ \A n \in 1 .. Len(tx') : n \in 1 .. Len(tx') + 1
    BY <1>0
  <2> QED BY <1>0, <2>1, <2>2 DEF ResetsAreFriendly
<1>3. CASE doubted
  <2>1. ResetReturns /\ CaughtUp
    <3>1. ResetReturns BY <1>2, <1>3, StillDoubted
    <3> QED BY <1>2, <1>3, <3>1 DEF ResetReturns
  <2>2. tx' \in {<<>>, <<Code(execs)>>} BY <2>1, NothingLeft
  <2>3. step' # "restart" BY <2>1 DEF ResetReturns
  <2>4. i \in 1 .. Len(tx') /\ tx'[i].kind = "D" BY <1>2, <2>3
  <2>5. CASE tx' = <<>> BY <2>4, <2>5
  <2>6. CASE tx' = <<Code(execs)>>
    <3>1. Len(tx') = 1 /\ tx'[1] = Code(execs) BY <2>6
    <3>2. i = 1 BY <2>4, <3>1
    <3> QED BY <1>1, <2>4, <3>1, <3>2
  <2> QED BY <2>2, <2>5, <2>6
<1>4. CASE ~doubted
  <2>1. ASSUME NEW n \in 1 .. Len(tx) + 1, Sought(tx, step, n)
        PROVE  \E j : IsFriendly(tx, mode, n, j)
    <3>1. ReadFriendly(n) BY <1>0, <1>4, <2>1 DEF ResetsAreFriendly
    <3> QED BY <3>1 DEF ReadFriendly, IsFriendly
  <2>2. ASSUME i \in 1 .. Len(tx) + 1, Sought(tx, step, i), mode' = mode,
               \A k \in 1 .. i - 1 : tx'[k] = tx[k]
        PROVE  \E j : IsFriendly(tx', mode', i, j)
    <3>1. PICK j : IsFriendly(tx, mode, i, j) BY <2>1, <2>2
    <3>2. IsFriendly(tx', mode, i, j) BY <1>0, <2>2, <3>1, SameFriendly
    <3> QED BY <2>2, <3>2
  <2>3. ASSUME tx' = tx, mode' = mode, step' = "restart" => step = "restart"
        PROVE  \E j : IsFriendly(tx', mode', i, j)
    BY <1>2, <2>2, <2>3
  <2>4. ASSUME NEW e \in Inputs, tx' = tx \o <<e>>, mode' = mode,
               e.kind = "D" => step = "restart",
               step' = "restart" => e.kind = "B" \/ (e.kind = "C" /\ step = "restart")
        PROVE  \E j : IsFriendly(tx', mode', i, j)
    <3> DEFINE l == Len(tx)
    <3>1. /\ l \in Nat /\ Len(tx') = l + 1 /\ tx'[l + 1] = e
          /\ \A k \in 1 .. l : tx'[k] = tx[k] /\ DOMAIN tx' = 1 .. l + 1 /\ DOMAIN tx = 1 .. l
      BY <1>0, <2>4, AddedPlaces
    <3>2. l + 1 \in 1 .. l + 1 /\ \A k \in 1 .. l + 1 : \A n \in 1 .. k - 1 : n \in 1 .. l
      BY <3>1
    <3>3. CASE i \in 1 .. l
      <4>1. i # l + 1 /\ i # l + 2 /\ i \in 1 .. l + 1 BY <3>1, <3>3
      <4>2. tx[i].kind = "D" BY <1>2, <3>1, <3>3, <4>1
      <4>3. Sought(tx, step, i) BY <3>3, <4>2
      <4> HIDE DEF Sought
      <4> QED BY <2>2, <2>4, <3>1, <3>2, <4>1, <4>3
    <3>4. CASE i = l + 1
      <4>1. e.kind = "D" BY <1>2, <3>1, <3>4
      <4>2. Sought(tx, step, i) BY <2>4, <3>4, <4>1
      <4> HIDE DEF Sought
      <4> QED BY <2>2, <2>4, <3>1, <3>2, <3>4, <4>2
    <3>5. CASE i = l + 2
      <4>1. step' = "restart" BY <1>2, <3>1, <3>5
      <4>2. CASE e.kind = "B"
        <5>1. l + 1 # 0 /\ l + 1 \in 0 .. i - 1 BY <3>1, <3>5
        <5>2. \A k \in 1 .. l + 1 : ~(l + 1 < k /\ k < i) BY <3>1, <3>5
        <5>3. IsFriendly(tx', mode', i, l + 1) BY <3>1, <4>2, <5>1, <5>2 DEF IsFriendly
        <5> QED BY <5>3
      <4>3. CASE e.kind = "C" /\ step = "restart"
        <5>1. PICK j : IsFriendly(tx, mode, l + 1, j) BY <2>1, <3>2, <4>3
        <5>2. IsFriendly(tx', mode, l + 1, j)
          BY <1>0, <3>1, <3>2, <5>1, SameFriendly
        <5>3. j \in 0 .. i - 1 BY <3>1, <3>5, <5>2 DEF IsFriendly
        <5>4. \A k \in 1 .. l + 1 : k < i => k < l + 1 \/ k = l + 1 BY <3>1, <3>5
        <5>5. IsFriendly(tx', mode', i, j)
          BY <2>4, <3>1, <4>3, <5>2, <5>3, <5>4 DEF IsFriendly
        <5> QED BY <5>5
      <4> QED BY <2>4, <4>1, <4>2, <4>3
    <3>6. i \in 1 .. l \/ i = l + 1 \/ i = l + 2 BY <1>2, <3>1
    <3> QED BY <3>3, <3>4, <3>5, <3>6
  <2>5. CASE Dial \/ Host
    <3>1. mode' = mode /\ Sent BY <2>5, HostSends
    <3>2. Leaves => tx' # tx
      <4>1. Leaves => tx' = tx \o <<Ctrl("B")>> BY DEF Leaves, Sends, Write
      <4>2. Len(tx \o <<Ctrl("B")>>) = Len(tx) + 1 BY <1>0, InputFacts, AddedPlaces
      <4>3. \A n \in Nat : n + 1 # n OBVIOUS
      <4> QED BY <1>0, <4>1, <4>2, <4>3, Zenon
    <3>3. step' = "restart" => Leaves \/ (step = "restart" /\ ~EntersRaw)
      BY <1>2, <2>5 DEF Dial, Host, hostVars, Opens, Interrupts, EntersRaw, Connects,
         DialTimesOut, GivesUp, Read, ExecStarts, Pumps, ExecReturns, ExecTimesOut, ResetStarts,
         Breaks, Leaves, Restarts, Stops, Reenters, Sends, ResetReturns, ResetRaises,
         PortRaises, Close
    <3>4. /\ Restarts => step = "restart" /\ step' # "restart"
          /\ Breaks \/ Stops \/ Reenters => step' # "restart"
          /\ ResetReturns => step' # "restart"
          /\ ExecStarts /\ ~dirty => step' # "restart"
      BY DEF Restarts, Breaks, Stops, Reenters, Sends, ResetReturns, ExecStarts
    <3>5. Close => step' # "restart"
      BY DEF Close, HostKept, InReset, Resetting
    <3>6. CASE tx' = tx BY <2>3, <3>1, <3>2, <3>3, <3>6
    <3>7. CASE Interrupts /\ Added(Ctrl("C"))
      <4>1. step' = step BY <3>7 DEF Interrupts
      <4> QED BY <1>1, <2>4, <3>1, <3>7, <4>1 DEF Added
    <3>8. CASE (EntersRaw \/ Reenters) /\ Added(Ctrl("A"))
      <4>1. ~(EntersRaw /\ Leaves) BY DEF EntersRaw, Leaves, Sends
      <4>2. step' # "restart" BY <3>3, <3>4, <3>8, <4>1
      <4> QED BY <1>1, <2>4, <3>1, <3>8, <4>2 DEF Added
    <3>9. CASE (Breaks \/ Stops) /\ Added(Ctrl("C"))
      BY <1>1, <2>4, <3>1, <3>4, <3>9 DEF Added
    <3>10. CASE (Leaves \/ Close) /\ Added(Ctrl("B"))
      BY <1>1, <2>4, <3>1, <3>10 DEF Added
    <3>11. CASE Restarts /\ Added(Ctrl("D"))
      BY <1>1, <2>4, <3>1, <3>4, <3>11 DEF Added
    <3>12. CASE (ExecStarts /\ ~dirty /\ Added(Code(execs + 1)))
                \/ (ResetReturns /\ Added(Code(execs)))
      <4>1. PICK n : Added(Code(n)) BY <3>12
      <4>2. step' # "restart" BY <3>4, <3>12
      <4> QED BY <1>1, <2>4, <3>1, <4>1, <4>2 DEF Added
    <3> QED BY <3>1, <3>6, <3>7, <3>8, <3>9, <3>10, <3>11, <3>12 DEF Sent
  <2>6. CASE Obeys
    <3>1. /\ IsCut(tx', tx, 1) /\ 1 \in 1 .. Len(tx) /\ Answer(tx[1]) BY <2>6, ObeysStep
    <3>2. step' = step BY <2>6 DEF Obeys, hostVars
    <3>3. Len(tx') = Len(tx) - 1 /\ \A k \in 1 .. Len(tx') : tx'[k] = tx[k + 1]
      BY <3>1 DEF IsCut
    <3> DEFINE x == i + 1
    <3>4. x \in 1 .. Len(tx) + 1 /\ x - 1 = i BY <1>0, <3>3
    <3>5. Sought(tx, step, x)
      <4>1. i \in 1 .. Len(tx') => x \in 1 .. Len(tx) /\ tx'[i] = tx[x] BY <1>0, <3>3
      <4>2. i = Len(tx') + 1 => x = Len(tx) + 1 BY <1>0, <3>3
      <4> HIDE DEF x
      <4> QED BY <1>2, <3>2, <4>1, <4>2
    <3> HIDE DEF Sought
    <3>6. PICK j : IsFriendly(tx, mode, x, j) BY <2>1, <3>4, <3>5
    <3>7. /\ j \in 0 .. i /\ (IF j = 0 THEN mode = "friendly" ELSE tx[j].kind = "B")
          /\ \A k \in 1 .. Len(tx) : j < k /\ k < i + 1 => tx[k].kind = "C"
      BY <1>0, <3>4, <3>6 DEF IsFriendly
    <3>8. CASE j = 0 \/ j = 1
      <4>1. IF j = 0 THEN mode = "friendly" /\ tx[1].kind = "C" ELSE tx[1].kind = "B"
        BY <3>1, <3>7, <3>8
      <4>2. mode' = "friendly" BY <3>1, <3>8, <4>1 DEF Answer
      <4>3. \A k \in 1 .. Len(tx') : 0 < k /\ k < i =>
              k + 1 \in 1 .. Len(tx) /\ j < k + 1 /\ k + 1 < i + 1
        BY <1>0, <3>3, <3>8
      <4>4. \A k \in 1 .. Len(tx') : 0 < k /\ k < i => tx'[k].kind = "C"
        BY <3>3, <3>7, <4>3
      <4>5. 0 \in 0 .. i - 1 BY <1>2
      <4>6. IsFriendly(tx', mode', i, 0) BY <1>0, <4>2, <4>4, <4>5 DEF IsFriendly
      <4> QED BY <4>6
    <3>9. CASE ~(j = 0 \/ j = 1)
      <4> DEFINE y == j - 1
      <4>1. y \in 0 .. i - 1 /\ y # 0 /\ y \in 1 .. Len(tx') /\ y + 1 = j /\ j # 0
        BY <1>0, <1>2, <3>3, <3>7, <3>9
      <4>2. \A k \in 1 .. Len(tx') : y < k /\ k < i =>
              k + 1 \in 1 .. Len(tx) /\ j < k + 1 /\ k + 1 < i + 1
        BY <1>0, <3>3, <4>1
      <4> HIDE DEF y
      <4>3. tx'[y].kind = "B" BY <3>3, <3>7, <4>1
      <4>4. \A k \in 1 .. Len(tx') : y < k /\ k < i => tx'[k].kind = "C"
        BY <3>3, <3>7, <4>2
      <4>5. IsFriendly(tx', mode', i, y) BY <1>0, <4>1, <4>3, <4>4 DEF IsFriendly
      <4> QED BY <4>5
    <3> QED BY <3>8, <3>9
  <2>7. CASE Finishes \/ IsInterrupted \/ Chatters
    <3>1. Runs /\ mode' = mode BY <2>7, RunsStep DEF Runs
    <3>2. step' = step BY <2>7 DEF Finishes, IsInterrupted, Chatters, hostVars
    <3>3. CASE tx' = tx BY <2>3, <3>1, <3>2, <3>3
    <3>4. CASE tx' # tx
      <4>1. PICK m \in 1 .. Len(tx) :
              /\ tx[m] = Ctrl("C") /\ Len(tx') = Len(tx) - 1
              /\ \A k \in 1 .. Len(tx) - 1 : tx'[k] = IF k < m THEN tx[k] ELSE tx[k + 1]
        BY <3>1, <3>4, RunsPlaces
      <4>2. CASE i < m
        <5>0. i \in 1 .. Len(tx') + 1 BY <1>2
        <5>1. /\ i \in 1 .. Len(tx) + 1 /\ i \in 1 .. Len(tx) - 1 /\ i \in 1 .. Len(tx)
              /\ i # Len(tx') + 1
              /\ \A k \in 1 .. i - 1 : k \in 1 .. Len(tx) - 1 /\ k < m
          <6> DEFINE l == Len(tx)
          <6>1. l \in Nat /\ m \in 1 .. l /\ Len(tx') = l - 1 /\ i \in 1 .. l /\ i < m
            BY <1>0, <4>1, <4>2, <5>0
          <6> HIDE DEF l
          <6>2. i \in 1 .. l + 1 /\ i \in 1 .. l - 1 /\ i # (l - 1) + 1 BY <6>1
          <6>3. \A k \in 1 .. i - 1 : k \in 1 .. l - 1 /\ k < m BY <6>1
          <6> QED BY <6>1, <6>2, <6>3 DEF l
        <5>2. tx'[i] = tx[i] /\ \A k \in 1 .. i - 1 : tx'[k] = tx[k] BY <4>1, <4>2, <5>1
        <5>3. Sought(tx, step, i) BY <1>2, <5>1, <5>2
        <5> HIDE DEF Sought
        <5> QED BY <2>2, <3>1, <5>1, <5>2, <5>3
      <4>3. CASE ~(i < m)
        <5> DEFINE x == i + 1
        <5>0. i \in 1 .. Len(tx') + 1 BY <1>2
        <5>1. x \in 1 .. Len(tx) + 1 /\ x - 1 = i BY <1>0, <4>1, <5>0
        <5>2. Sought(tx, step, x)
          <6>1. i \in 1 .. Len(tx') => x \in 1 .. Len(tx) /\ tx'[i] = tx[x]
            BY <1>0, <4>1, <4>3
          <6>2. i = Len(tx') + 1 => x = Len(tx) + 1 BY <1>0, <4>1
          <6> HIDE DEF x
          <6> QED BY <1>2, <3>2, <6>1, <6>2
        <5> HIDE DEF Sought
        <5>3. PICK j : IsFriendly(tx, mode, x, j) BY <2>1, <5>1, <5>2
        <5>4. /\ j \in 0 .. i /\ (IF j = 0 THEN mode = "friendly" ELSE tx[j].kind = "B")
              /\ \A k \in 1 .. Len(tx) : j < k /\ k < i + 1 => tx[k].kind = "C"
          BY <1>0, <5>1, <5>3 DEF IsFriendly
        <5>5. j # m BY <1>1, <4>1, <5>4
        <5>6. CASE j < m
          <6>1. j \in 0 .. i - 1 /\ (j # 0 => j \in 1 .. Len(tx) - 1)
            BY <1>0, <1>2, <4>1, <4>3, <5>4, <5>6
          <6>2. \A k \in 1 .. Len(tx') : j < k /\ k < i =>
                  /\ k \in 1 .. Len(tx) - 1 /\ k \in 1 .. Len(tx) /\ k + 1 \in 1 .. Len(tx)
                  /\ k < i + 1 /\ j < k + 1 /\ k + 1 < i + 1
            BY <1>0, <1>2, <4>1, <5>4
          <6>3. \A k \in 1 .. Len(tx') : j < k /\ k < i => tx'[k].kind = "C"
            BY <4>1, <5>4, <6>2
          <6>4. IsFriendly(tx', mode', i, j)
            BY <1>0, <3>1, <4>1, <5>4, <5>6, <6>1, <6>3 DEF IsFriendly
          <6> QED BY <6>4
        <5>7. CASE m < j
          <6> DEFINE y == j - 1
          <6>1. /\ y \in 0 .. i - 1 /\ y # 0 /\ y \in 1 .. Len(tx) - 1 /\ y + 1 = j
                /\ ~(y < m) /\ j # 0
            BY <1>0, <1>2, <4>1, <5>4, <5>7
          <6>2. \A k \in 1 .. Len(tx') : y < k /\ k < i =>
                  /\ k \in 1 .. Len(tx) - 1 /\ ~(k < m) /\ k + 1 \in 1 .. Len(tx)
                  /\ j < k + 1 /\ k + 1 < i + 1
            BY <1>0, <1>2, <4>1, <5>4, <5>7, <6>1
          <6> HIDE DEF y
          <6>3. tx'[y].kind = "B" BY <4>1, <5>4, <6>1
          <6>4. \A k \in 1 .. Len(tx') : y < k /\ k < i => tx'[k].kind = "C"
            BY <4>1, <5>4, <6>2
          <6>5. IsFriendly(tx', mode', i, y) BY <1>0, <6>1, <6>3, <6>4 DEF IsFriendly
          <6> QED BY <6>5
        <5>8. j < m \/ m < j BY <4>1, <5>4, <5>5
        <5> QED BY <5>6, <5>7, <5>8
      <4> QED BY <4>2, <4>3
    <3> QED BY <3>3, <3>4
  <2>8. CASE Says \/ UNCHANGED vars
    <3>1. tx' = tx /\ mode' = mode /\ step' = step BY <2>8 DEF Says, vars, hostVars
    <3> QED BY <2>3, <3>1
  <2> QED BY <2>5, <2>6, <2>7, <2>8 DEF Next, Board
<1> QED BY <1>3, <1>4

\* j marks the last request for the raw prompt, or that the board is in the raw REPL.
IsMark(q, m, j) ==
  /\ j \in 0 .. Len(q)
  /\ IF j = 0 THEN m = "raw" ELSE q[j].kind = "A"
  /\ \A i \in 1 .. Len(q) : i > j => q[i].kind \in {"A", "C"}

LEMMA ModeInit == Init => ModeKept
BY DEF Init, ModeKept, Pumping, InReset

LEMMA ModeStep ==
  ASSUME TypeOK, TypeOK', HostKept, ModeKept, [Next]_vars
  PROVE  ModeKept'
<1>0. /\ tx \in Seq(Inputs) /\ Len(tx) \in Nat /\ DOMAIN tx = 1 .. Len(tx)
      /\ tx' \in Seq(Inputs) /\ Len(tx') \in Nat /\ DOMAIN tx' = 1 .. Len(tx')
  <2>1. tx \in Seq(Inputs) /\ tx' \in Seq(Inputs) BY DEF TypeOK
  <2> QED BY <2>1, SeqPlaces
<1>1. SUFFICES ASSUME Pumping' PROVE \E j : IsMark(tx', mode', j)
  BY <1>0 DEF ModeKept, IsMark
<1>2. Ctrl("C").kind = "C" /\ Ctrl("A").kind = "A" /\ Ctrl("C") \in Inputs /\ Ctrl("A") \in Inputs
  BY InputFacts
<1>3. CASE Reenters
  <2>1. tx' = tx \o <<Ctrl("A")>> BY <1>3 DEF Reenters, Sends, Write
  <2>2. Len(tx') = Len(tx) + 1 /\ tx'[Len(tx) + 1] = Ctrl("A") BY <1>0, <1>2, <2>1,
  AddedPlaces
  <2>3. IsMark(tx', mode', Len(tx) + 1) BY <1>0, <1>2, <2>2 DEF IsMark
  <2> QED BY <2>3
<1>4. CASE ~Reenters
  <2>1. /\ Pumping /\ ~Close /\ ~ExecStarts /\ ~ResetReturns
        /\ ~Breaks /\ ~Leaves /\ ~Restarts /\ ~Stops
    BY <1>1, <1>4 DEF HostKept, Pumping, InReset, Next, Dial, Host, Board, vars, hostVars, Opens,
         Interrupts, EntersRaw, Connects, DialTimesOut, GivesUp, Read, ExecStarts, Pumps,
         ExecReturns, ExecTimesOut, ResetStarts, Breaks, Leaves, Restarts, Stops, Sends,
         Reenters, ResetReturns, ResetRaises, PortRaises, Close, Says, Obeys, Finishes,
         IsInterrupted, Chatters, Answered, Awaited
  <2>2. PICK j : IsMark(tx, mode, j) BY <1>0, <2>1 DEF ModeKept, IsMark
  <2>3. /\ j \in 0 .. Len(tx) /\ (IF j = 0 THEN mode = "raw" ELSE tx[j].kind = "A")
        /\ \A i \in 1 .. Len(tx) : i > j => tx[i].kind \in {"A", "C"}
    BY <2>2 DEF IsMark
  <2>4. ASSUME tx' = tx, mode' = mode PROVE IsMark(tx', mode', j)
    BY <2>2, <2>4
  <2>5. ASSUME NEW e \in Inputs, e.kind \in {"A", "C"}, tx' = tx \o <<e>>, mode' = mode
        PROVE  IsMark(tx', mode', j)
    <3>1. /\ Len(tx') = Len(tx) + 1 /\ tx'[Len(tx) + 1] = e
          /\ \A i \in 1 .. Len(tx) : tx'[i] = tx[i]
      BY <1>0, <2>5, AddedPlaces
    <3>2. j \in 0 .. Len(tx') /\ (j # 0 => j \in 1 .. Len(tx)) BY <1>0, <2>3, <3>1
    <3>3. \A i \in 1 .. Len(tx') : i \in 1 .. Len(tx) \/ i = Len(tx) + 1 BY <1>0, <3>1
    <3> QED BY <2>3, <2>5, <3>1, <3>2, <3>3 DEF IsMark
  <2>6. CASE Dial \/ Host
    <3>1. mode' = mode /\ Sent BY <2>6, HostSends
    <3>2. tx' = tx \/ Added(Ctrl("C")) \/ Added(Ctrl("A")) BY <1>4, <2>1, <3>1 DEF Sent
    <3> QED BY <1>2, <2>4, <2>5, <3>1, <3>2 DEF Added
  <2>7. CASE Obeys
    <3>1. IsCut(tx', tx, 1) /\ 1 \in 1 .. Len(tx) /\ Answer(tx[1]) BY <2>7, ObeysStep
    <3>2. Len(tx') = Len(tx) - 1 /\ \A i \in 1 .. Len(tx') : tx'[i] = tx[i + 1]
      BY <3>1 DEF IsCut
    <3>3. CASE j = 0 \/ j = 1
      <4>1. mode' = "raw" BY <2>3, <3>1, <3>3 DEF Answer
      <4>2. \A i \in 1 .. Len(tx') : i + 1 \in 1 .. Len(tx) /\ i + 1 > j BY <1>0, <3>2, <3>3
      <4>3. \A i \in 1 .. Len(tx') : tx'[i].kind \in {"A", "C"} BY <2>3, <3>2, <4>2
      <4>4. IsMark(tx', mode', 0) BY <1>0, <4>1, <4>3 DEF IsMark
      <4> QED BY <4>4
    <3>4. CASE ~(j = 0 \/ j = 1)
      <4> DEFINE k == j - 1
      <4>1. k \in 1 .. Len(tx') /\ k + 1 = j /\ k # 0 BY <1>0, <2>3, <3>2, <3>4
      <4>2. \A i \in 1 .. Len(tx') : i > k => i + 1 \in 1 .. Len(tx) /\ i + 1 > j
        BY <1>0, <2>3, <3>2, <4>1
      <4> HIDE DEF k
      <4>3. tx'[k].kind = "A" BY <2>3, <3>2, <3>4, <4>1
      <4>4. \A i \in 1 .. Len(tx') : i > k => tx'[i].kind \in {"A", "C"}
        BY <2>3, <3>2, <4>2
      <4>5. k \in 0 .. Len(tx') BY <1>0, <4>1
      <4>6. IsMark(tx', mode', k) BY <4>1, <4>3, <4>4, <4>5 DEF IsMark
      <4> QED BY <4>6
    <3> QED BY <3>3, <3>4
  <2>8. CASE Finishes \/ IsInterrupted \/ Chatters
    <3>1. Runs /\ mode' = mode BY <2>8, RunsStep DEF Runs
    <3>2. CASE tx' # tx
      <4>1. PICK m \in 1 .. Len(tx) :
              /\ tx[m] = Ctrl("C") /\ Len(tx') = Len(tx) - 1
              /\ \A i \in 1 .. Len(tx) - 1 : tx'[i] = IF i < m THEN tx[i] ELSE tx[i + 1]
        BY <3>1, <3>2, RunsPlaces
      <4>2. m # j BY <1>0, <1>2, <2>3, <4>1
      <4>3. CASE j < m
        <5>1. j \in 0 .. Len(tx') /\ (j # 0 => j \in 1 .. Len(tx) - 1) BY <1>0, <2>3, <4>1, <4>3
        <5>2. \A i \in 1 .. Len(tx') : i > j =>
                i \in 1 .. Len(tx) - 1 /\ i \in 1 .. Len(tx) /\ i + 1 \in 1 .. Len(tx) /\ i + 1 > j
          BY <1>0, <2>3, <4>1
        <5>3. \A i \in 1 .. Len(tx') : i > j => tx'[i].kind \in {"A", "C"}
          BY <2>3, <4>1, <5>2
        <5>4. IsMark(tx', mode', j) BY <2>3, <3>1, <4>1, <4>3, <5>1, <5>3 DEF IsMark
        <5> QED BY <5>4
      <4>4. CASE m < j
        <5> DEFINE k == j - 1
        <5>1. /\ k \in 1 .. Len(tx) - 1 /\ k \in 0 .. Len(tx') /\ k + 1 = j /\ k # 0
              /\ ~(k < m) /\ j # 0
          BY <1>0, <2>3, <4>1, <4>4
        <5>2. \A i \in 1 .. Len(tx') : i > k =>
                i \in 1 .. Len(tx) - 1 /\ ~(i < m) /\ i + 1 \in 1 .. Len(tx) /\ i + 1 > j
          BY <1>0, <2>3, <4>1, <4>4, <5>1
        <5> HIDE DEF k
        <5>3. tx'[k].kind = "A" BY <2>3, <4>1, <5>1
        <5>4. \A i \in 1 .. Len(tx') : i > k => tx'[i].kind \in {"A", "C"}
          BY <2>3, <4>1, <5>2
        <5>5. IsMark(tx', mode', k) BY <5>1, <5>3, <5>4 DEF IsMark
        <5> QED BY <5>5
      <4>5. j < m \/ m < j BY <1>0, <2>3, <4>2
      <4> QED BY <4>3, <4>4, <4>5
    <3> QED BY <2>4, <3>1, <3>2
  <2>9. CASE Says \/ UNCHANGED vars
    <3>1. tx' = tx /\ mode' = mode BY <2>9 DEF Says, vars
    <3> QED BY <2>4, <3>1
  <2> QED BY <2>6, <2>7, <2>8, <2>9 DEF Next, Board
<1> QED BY <1>3, <1>4

-----------------------------------------------------------------------------
\* Raw prompts and the requests for them.

\* The raw prompts to come: those that have left the board and those asked for.
Due == Cardinality(Places(ToCome, "raw")) + Cardinality(Places(tx, "A"))

LEMMA SameCut ==
  ASSUME NEW S, NEW s \in Seq(S)
  PROVE  IsCut(s, s, 0)
BY SeqPlaces DEF IsCut

\* A thread only takes from the head of what is to come.
LEMMA HostTakes ==
  ASSUME TypeOK, Dial \/ Host
  PROVE  \E d : /\ IsCut(ToCome', ToCome, d)
                /\ Connects \/ ResetReturns => \E i \in 1 .. d : ToCome[i].kind = "raw"
<1>0. /\ ToCome \in Seq(Answers) /\ Len(rx) \in Nat
      /\ \A i \in 1 .. Len(rx) : ToCome[i] = rx[i]
  BY Types
<1>1. CASE ToCome' = ToCome /\ ~Connects /\ ~ResetReturns BY <1>0, <1>1, SameCut
<1>2. CASE Connects \/ ResetReturns
  <2>1. rx' = <<>> /\ coming' = coming /\ saying' = saying /\ Has("raw")
    BY <1>2 DEF Connects, ResetReturns, boardVars
  <2>2. IsCut(ToCome', ToCome, Len(rx)) BY <2>1, EmptyStep
  <2>3. FirstOf("raw") \in 1 .. Len(rx) /\ Matches(rx[FirstOf("raw")], "raw")
    BY <2>1, FirstPlace
  <2>4. ToCome[FirstOf("raw")].kind = "raw" BY <1>0, <2>3 DEF Matches
  <2> QED BY <2>2, <2>3, <2>4
<1>3. CASE EntersRaw \/ Breaks \/ Reenters
  <2>1. Clear /\ saying' = saying BY <1>3 DEF EntersRaw, Breaks, Reenters, Sends, boardVars
  <2>2. IsCut(ToCome', ToCome, Len(rx) + Len(coming)) BY <2>1, ClearStep
  <2>3. ~Connects /\ ~ResetReturns
    BY <1>3 DEF EntersRaw, Breaks, Reenters, Sends, Connects, ResetReturns
  <2> QED BY <2>2, <2>3
<1>4. CASE Pumps \/ ExecReturns
  <2>1. coming' = coming /\ saying' = saying /\ ~Connects /\ ~ResetReturns
    BY <1>4 DEF Pumps, ExecReturns, boardVars, Connects, ResetReturns, InReset
  <2>2. CASE \E m : TakeUntil(m)
    <3>1. PICK m : TakeUntil(m) BY <2>2
    <3>2. IsCut(ToCome', ToCome, FirstOf(m)) BY <2>1, <3>1, TakeStep
    <3> QED BY <2>1, <3>2
  <2>3. CASE rx' = rx BY <1>1, <2>1, <2>3 DEF ToCome
  <2> QED BY <1>4, <2>2, <2>3 DEF Pumps, ExecReturns
<1>5. CASE (dial = "pump" /\ Read("raw")) \/ (call = "exec" /\ Read(Wanted))
           \/ (InReset /\ step = "pump" /\ Read("raw"))
  <2>1. PICK m : Read(m) BY <1>5
  <2>2. ToCome' = ToCome BY <2>1, ReadStep
  <2>3. ~Connects /\ ~ResetReturns BY <1>5 DEF Read, Connects, ResetReturns, InReset
  <2> QED BY <1>1, <2>2, <2>3
<1>6. CASE \/ Opens \/ Interrupts \/ DialTimesOut \/ GivesUp
           \/ ExecStarts \/ ExecTimesOut \/ ResetStarts \/ Leaves \/ Restarts \/ Stops
           \/ ResetRaises \/ PortRaises \/ Close
  <2>1. CASE Connects \/ ResetReturns BY <1>2, <2>1
  <2>2. rx' = rx /\ coming' = coming /\ saying' = saying
    BY <1>6 DEF Opens, Interrupts, DialTimesOut, GivesUp, ExecStarts, ExecTimesOut, ResetStarts,
                Leaves, Restarts, Stops, Sends, ResetRaises, PortRaises, Close, boardVars
  <2>3. ToCome' = ToCome BY <2>2 DEF ToCome
  <2> QED BY <1>1, <2>1, <2>3
<1> QED BY <1>2, <1>3, <1>4, <1>5, <1>6, Zenon DEF Dial, Host

LEMMA DueType ==
  ASSUME TypeOK
  PROVE  /\ Due \in Nat
         /\ Cardinality(Places(ToCome, "raw")) \in Nat /\ Cardinality(Places(tx, "A")) \in Nat
<1>1. ToCome \in Seq(Answers) /\ tx \in Seq(Inputs) BY Types
<1>2. Cardinality(Places(ToCome, "raw")) \in Nat BY <1>1, PlacesCount
<1>3. Cardinality(Places(tx, "A")) \in Nat BY <1>1, PlacesCount
<1> QED BY <1>2, <1>3 DEF Due

LEMMA NewTypes ==
  ASSUME TypeOK'
  PROVE  /\ ToCome' \in Seq(Answers) /\ tx' \in Seq(Inputs) /\ Due' \in Nat
         /\ Len(ToCome') \in Nat /\ DOMAIN ToCome' = 1 .. Len(ToCome')
         /\ Len(tx') \in Nat /\ DOMAIN tx' = 1 .. Len(tx')
         /\ Cardinality(Places(ToCome', "raw")) \in Nat /\ Cardinality(Places(tx', "A")) \in Nat
<1>1. rx' \in Seq(Answers) /\ coming' \in Seq(Answers) /\ saying' \in Seq(Answers)
      /\ tx' \in Seq(Inputs)
  BY DEF TypeOK
<1>2. ToCome' \in Seq(Answers) BY <1>1, LinePlaces DEF ToCome
<1>3. Cardinality(Places(ToCome', "raw")) \in Nat BY <1>2, PlacesCount
<1>4. Cardinality(Places(tx', "A")) \in Nat BY <1>1, PlacesCount
<1>5. Len(ToCome') \in Nat /\ DOMAIN ToCome' = 1 .. Len(ToCome') BY <1>2, SeqPlaces
<1>6. Len(tx') \in Nat /\ DOMAIN tx' = 1 .. Len(tx') BY <1>1, SeqPlaces
<1> QED BY <1>1, <1>2, <1>3, <1>4, <1>5, <1>6 DEF Due

\* Asking adds one, the thread that takes its prompt is answered for.
LEMMA DueHost ==
  ASSUME TypeOK, TypeOK', HostKept, Dial \/ Host
  PROVE  /\ Due' <= Due \/ ((EntersRaw \/ Reenters) /\ Due' <= Due + 1)
         /\ Connects \/ ResetReturns => Due' + 1 <= Due
<1> DEFINE r == Cardinality(Places(ToCome, "raw"))
           q == Cardinality(Places(ToCome', "raw"))
           a == Cardinality(Places(tx, "A"))
           b == Cardinality(Places(tx', "A"))
<1>0. /\ r \in Nat /\ q \in Nat /\ a \in Nat /\ b \in Nat
      /\ ToCome \in Seq(Answers) /\ ToCome' \in Seq(Answers)
      /\ tx \in Seq(Inputs) /\ tx' \in Seq(Inputs)
  BY Types, DueType, NewTypes
<1>1. PICK d : /\ IsCut(ToCome', ToCome, d)
               /\ Connects \/ ResetReturns => \E i \in 1 .. d : ToCome[i].kind = "raw"
  BY HostTakes
<1>2. q <= r /\ (Connects \/ ResetReturns => q + 1 <= r) BY <1>0, <1>1, CutCount
<1>3. Sent BY HostSends
<1>4. b <= a \/ ((EntersRaw \/ Reenters) /\ b <= a + 1)
  <2>1. CASE tx' = tx BY <1>0, <2>1
  <2>2. ASSUME NEW e \in Inputs, e.kind # "A", tx' = tx \o <<e>> PROVE b <= a
    <3> DEFINE w == <<e>>
    <3>1. w \in Seq(Inputs) /\ Len(w) = 1 /\ w[1] = e BY OnePlace
    <3>2. \A i \in 1 .. Len(w) : w[i].kind # "A" BY <2>2, <3>1
    <3> HIDE DEF w
    <3>3. Places(tx \o w, "A") = Places(tx, "A") BY <1>0, <3>1, <3>2, GrowCount
    <3> QED BY <1>0, <2>2, <3>3 DEF w
  <2>3. CASE (EntersRaw \/ Reenters) /\ Added(Ctrl("A"))
    <3> DEFINE w == <<Ctrl("A")>>
    <3>1. w \in Seq(Inputs) /\ Len(w) = 1 BY <2>3, OnePlace DEF Added
    <3>2. tx' = tx \o w BY <2>3 DEF Added
    <3> HIDE DEF w
    <3>3. Cardinality(Places(tx \o w, "A")) <= Cardinality(Places(tx, "A")) + 1
      BY <1>0, <3>1, GrowCount
    <3> QED BY <2>3, <3>2, <3>3
  <2>4. CASE \E key \in {"B", "C", "D"} : Added(Ctrl(key))
    <3>1. PICK key \in {"B", "C", "D"} : Added(Ctrl(key)) BY <2>4
    <3>2. Ctrl(key).kind # "A" BY InputFacts
    <3> QED BY <2>2, <3>1, <3>2 DEF Added
  <2>5. CASE \E e \in {Code(execs), Code(execs + 1)} : Added(e)
    <3>1. PICK e \in {Code(execs), Code(execs + 1)} : Added(e) BY <2>5
    <3>2. e.kind # "A" BY <3>1, InputFacts DEF Code, Token
    <3> QED BY <2>2, <3>1, <3>2 DEF Added
  <2> QED BY <1>3, <2>1, <2>3, <2>4, <2>5 DEF Sent
<1>5. ~(Connects /\ (EntersRaw \/ Reenters)) /\ ~(ResetReturns /\ (EntersRaw \/ Reenters))
  <2>1. EntersRaw => ~Connects BY DEF Connects, EntersRaw
  <2>2. Reenters => ~ResetReturns BY DEF ResetReturns, Reenters, Sends
  <2>3. Connects => UNCHANGED step BY DEF Connects
  <2>4. Reenters => step' # step BY DEF Reenters, Sends
  <2>5. EntersRaw => dial' # dial BY DEF EntersRaw
  <2>6. ResetReturns => UNCHANGED dial BY DEF ResetReturns
  <2> QED BY <2>1, <2>2, <2>3, <2>4, <2>5, <2>6
<1>6. Due = r + a /\ Due' = q + b BY DEF Due
<1> HIDE DEF r, q, a, b
<1> QED BY <1>0, <1>2, <1>4, <1>5, <1>6

\* The board turns a request into a prompt, and never answers more than was asked.
LEMMA DueBoard ==
  ASSUME TypeOK, TypeOK', ResetsAreFriendly, ~doubted, Board \/ UNCHANGED vars
  PROVE  Due' <= Due
<1> DEFINE r == Cardinality(Places(ToCome, "raw"))
           q == Cardinality(Places(ToCome', "raw"))
           a == Cardinality(Places(tx, "A"))
           b == Cardinality(Places(tx', "A"))
<1>0. /\ r \in Nat /\ q \in Nat /\ a \in Nat /\ b \in Nat
      /\ ToCome \in Seq(Answers) /\ ToCome' \in Seq(Answers)
      /\ tx \in Seq(Inputs) /\ tx' \in Seq(Inputs)
  BY Types, DueType, NewTypes
<1>1. Due = r + a /\ Due' = q + b BY DEF Due
<1>2. CASE Says \/ UNCHANGED vars
  <2>1. ToCome' = ToCome /\ tx' = tx
    <3>1. CASE Says BY <3>1, SaysStep DEF Says
    <3>2. CASE UNCHANGED vars BY <3>2 DEF ToCome, vars
    <3> QED BY <1>2, <3>1, <3>2
  <2>2. Due' = Due BY <2>1 DEF Due
  <2> QED BY <1>0, <1>1, <2>2
<1>3. CASE Obeys
  <2>1. /\ IsCut(tx', tx, 1) /\ 1 \in 1 .. Len(tx) /\ saying' \in Seq(Answers)
        /\ ToCome' = ToCome \o saying' /\ Answer(tx[1]) /\ DOMAIN tx = 1 .. Len(tx)
    BY <1>3, ObeysStep, Types
  <2>2. b <= a /\ (tx[1].kind = "A" => b + 1 <= a)
    <3>1. /\ b <= a
          /\ (\E i \in 1 .. 1 : tx[i].kind = "A") => b + 1 <= a
      BY <1>0, <2>1, CutCount
    <3> QED BY <3>1
  <2>3. CASE tx[1].kind = "A"
    <3>1. saying' = <<Token("raw", 0)>> BY <2>1, <2>3 DEF Answer
    <3>2. Len(saying') = 1 BY <3>1
    <3>3. q <= r + 1 BY <1>0, <2>1, <3>2, GrowCount
    <3> HIDE DEF r, q, a, b
    <3> QED BY <1>0, <1>1, <2>2, <2>3, <3>3
  <2>4. CASE tx[1].kind # "A"
    <3>1. ~(tx[1].kind = "D" /\ mode = "raw")
      <4>1. tx[1].kind = "D" => ReadFriendly(1) BY <2>1 DEF ResetsAreFriendly
      <4>2. ReadFriendly(1) => mode = "friendly" BY DEF ReadFriendly
      <4> QED BY <4>1, <4>2
    <3>2. NoRaw(saying')
      <4>1. CASE saying' = <<Token("ok", tx[1].of)>>
        <5>1. Len(saying') = 1 /\ saying'[1].kind = "ok" BY <4>1 DEF Token
        <5> QED BY <5>1 DEF NoRaw
      <4> QED BY <2>1, <2>4, <3>1, <4>1 DEF Answer
    <3>3. q = r BY <1>0, <2>1, <3>2, GrowCount DEF NoRaw
    <3> HIDE DEF r, q, a, b
    <3> QED BY <1>0, <1>1, <2>2, <3>3
  <2> QED BY <2>3, <2>4
<1>4. CASE Finishes \/ IsInterrupted \/ Chatters
  <2>1. Runs BY <1>4, RunsStep
  <2>2. /\ saying' \in Seq(Answers) /\ ToCome' = ToCome \o saying' /\ NoRaw(saying')
        /\ (tx' = tx \/ \E i \in 1 .. Len(tx) : tx' = RemoveAt(tx, i))
    BY <2>1 DEF Runs
  <2>3. q = r BY <1>0, <2>2, GrowCount DEF NoRaw
  <2>4. b <= a
    <3>1. CASE tx' = tx BY <1>0, <3>1
    <3>2. CASE \E i \in 1 .. Len(tx) : tx' = RemoveAt(tx, i) BY <1>0, <3>2, RemoveCount
    <3> QED BY <2>2, <3>1, <3>2
  <2> HIDE DEF r, q, a, b
  <2> QED BY <1>0, <1>1, <2>3, <2>4
<1> QED BY <1>2, <1>3, <1>4 DEF Board

\* Who stops waiting, and how.
LEMMA WaitingHost ==
  ASSUME TypeOK, HostKept, Dial \/ Host
  PROVE  /\ Waiting \in Nat
         /\ EntersRaw \/ Reenters => Waiting' = Waiting + 1
         /\ Connects \/ ResetReturns => Waiting' + 1 = Waiting
         /\ \/ EntersRaw \/ Reenters \/ Connects \/ ResetReturns
            \/ DialTimesOut \/ ResetRaises \/ PortRaises
            \/ Waiting' = Waiting
<1> DEFINE x == IF dial = "pump" THEN 1 ELSE 0
           y == IF Pumping THEN 1 ELSE 0
           u == IF dial' = "pump" THEN 1 ELSE 0
           v == IF Pumping' THEN 1 ELSE 0
<1>1. Waiting = x + y /\ Waiting' = u + v BY DEF Waiting
<1>2. x \in {0, 1} /\ y \in {0, 1} /\ u \in {0, 1} /\ v \in {0, 1} OBVIOUS
<1>3. CASE EntersRaw
  <2>1. x = 0 /\ u = 1 /\ v = y
    <3>1. dial # "pump" /\ dial' = "pump" /\ call' = call /\ step' = step
      BY <1>3 DEF EntersRaw
    <3> QED BY <3>1 DEF Pumping, InReset
  <2>2. ~Reenters /\ ~Connects /\ ~ResetReturns
    BY <1>3 DEF EntersRaw, Reenters, Sends, Connects, ResetReturns
  <2> HIDE DEF x, y, u, v
  <2> QED BY <1>1, <1>2, <1>3, <2>1, <2>2
<1>4. CASE Reenters
  <2>1. y = 0 /\ v = 1 /\ u = x
    <3>1. step # "pump" /\ step' = "pump" /\ call' = call /\ dial' = dial /\ InReset
      BY <1>4 DEF Reenters, Sends
    <3> QED BY <3>1 DEF Pumping, InReset
  <2>2. ~EntersRaw /\ ~Connects /\ ~ResetReturns
    BY <1>4 DEF EntersRaw, Reenters, Sends, Connects, ResetReturns
  <2> HIDE DEF x, y, u, v
  <2> QED BY <1>1, <1>2, <1>4, <2>1, <2>2
<1>5. CASE Connects
  <2>1. x = 1 /\ u = 0 /\ v = y
    <3>1. /\ dial = "pump" /\ dial' = "done" /\ step' = step
          /\ call' \in {"none", call} /\ (call' = call \/ call = "connect")
      BY <1>5 DEF Connects, Answered, Awaited
    <3> QED BY <3>1 DEF Pumping, InReset
  <2>2. ~EntersRaw /\ ~Reenters /\ ~ResetReturns
    BY <1>5 DEF EntersRaw, Reenters, Sends, Connects, ResetReturns
  <2> HIDE DEF x, y, u, v
  <2> QED BY <1>1, <1>2, <1>5, <2>1, <2>2
<1>6. CASE ResetReturns
  <2>1. y = 1 /\ v = 0 /\ u = x
    <3>1. Pumping /\ dial' = dial /\ call' \in {"exec", "none"}
      BY <1>6 DEF ResetReturns, Pumping
    <3> QED BY <3>1 DEF Pumping, InReset
  <2>2. ~EntersRaw /\ ~Reenters /\ ~Connects
    BY <1>6 DEF EntersRaw, Reenters, Sends, Connects, ResetReturns
  <2> HIDE DEF x, y, u, v
  <2> QED BY <1>1, <1>2, <1>6, <2>1, <2>2
<1>7. CASE \/ Opens \/ Interrupts \/ GivesUp \/ (\E m : Read(m)) \/ ExecStarts \/ Pumps
           \/ ExecReturns \/ ExecTimesOut \/ ResetStarts \/ Breaks \/ Leaves \/ Restarts
           \/ Stops \/ Close
  <2>1. (dial' = "pump" <=> dial = "pump") /\ (Pumping' <=> Pumping)
    BY <1>7 DEF Pumping, InReset, HostKept, Opens, Interrupts, GivesUp, Read, ExecStarts, Pumps,
         ExecReturns, ExecTimesOut, ResetStarts, Breaks, Leaves, Restarts, Stops, Sends,
         Close, hostVars, Answered, Awaited
  <2>2. ~EntersRaw /\ ~Reenters /\ ~Connects /\ ~ResetReturns
    <3>1. CASE EntersRaw \/ Reenters \/ Connects \/ ResetReturns
      BY <1>7, <2>1, <3>1 DEF Pumping, InReset, EntersRaw, Reenters, Sends, Connects,
           ResetReturns
    <3> QED BY <3>1
  <2> QED BY <1>1, <1>2, <2>1, <2>2
<1>8. CASE DialTimesOut \/ ResetRaises \/ PortRaises
  <2>1. CASE EntersRaw \/ Reenters \/ Connects \/ ResetReturns
    BY <1>3, <1>4, <1>5, <1>6, <2>1
  <2> HIDE DEF x, y, u, v
  <2> QED BY <1>1, <1>2, <1>8, <2>1
<1> QED BY <1>3, <1>4, <1>5, <1>6, <1>7, <1>8, Zenon DEF Dial, Host

LEMMA PromptsInit == Init => PromptsAwaited
BY DEF Init, PromptsAwaited

LEMMA PromptsStep ==
  ASSUME TypeOK, TypeOK', HostKept, LineKept, ResetsAreFriendly, PromptsAwaited, [Next]_vars
  PROVE  PromptsAwaited'
<1>0. Due \in Nat /\ Due' \in Nat BY DueType, NewTypes
<1>1. SUFFICES ASSUME port', ~doubted' PROVE Due' <= Waiting'
  BY DEF PromptsAwaited, Due
<1>2. port /\ ~doubted => Due <= Waiting BY DEF PromptsAwaited, Due
<1>3. CASE Board \/ UNCHANGED vars
  <2>1. port' = port /\ doubted' = doubted /\ Waiting' = Waiting
    BY <1>3 DEF Board, vars, hostVars, Waiting, Pumping, InReset, Says, Obeys, Finishes,
         IsInterrupted, Chatters
  <2>2. Due' <= Due BY <1>1, <1>3, <2>1, DueBoard
  <2>3. Waiting \in Nat BY DEF Waiting
  <2> QED BY <1>0, <1>1, <1>2, <2>1, <2>2, <2>3
<1>4. CASE Dial \/ Host
  <2>1. /\ Due' <= Due \/ ((EntersRaw \/ Reenters) /\ Due' <= Due + 1)
        /\ Connects \/ ResetReturns => Due' + 1 <= Due
    BY <1>4, DueHost
  <2>2. /\ Waiting \in Nat
        /\ EntersRaw \/ Reenters => Waiting' = Waiting + 1
        /\ Connects \/ ResetReturns => Waiting' + 1 = Waiting
        /\ \/ EntersRaw \/ Reenters \/ Connects \/ ResetReturns
           \/ DialTimesOut \/ ResetRaises \/ PortRaises
           \/ Waiting' = Waiting
    BY <1>4, WaitingHost
  <2>3. ~DialTimesOut /\ ~ResetRaises /\ ~PortRaises
    BY <1>1 DEF DialTimesOut, ResetRaises, PortRaises
  <2>4. Waiting' \in Nat BY DEF Waiting
  <2>5. CASE ~port
    <3>1. Opens /\ dial = "opening"
      BY <1>1, <1>4, <2>5 DEF HostKept, Dial, Host, hostVars, Opens, Interrupts, EntersRaw,
           Connects, DialTimesOut, GivesUp, Read, ExecStarts, Pumps, ExecReturns, ExecTimesOut,
           ResetStarts, Breaks, Leaves, Restarts, Stops, Sends, Reenters, ResetReturns,
           ResetRaises, PortRaises, Close, InReset
    <3>2. tx = <<>> /\ \A i \in DOMAIN ToCome : ToCome[i].kind # "raw" BY <3>1 DEF LineKept
    <3>3. Places(tx, "A") = {} /\ Places(ToCome, "raw") = {} BY <3>2 DEF Places
    <3>4. Due = 0 BY <3>3, FS_EmptySet DEF Due
    <3>5. Due' <= Due
      <4>1. ~EntersRaw /\ ~Reenters BY <3>1 DEF Opens, EntersRaw, Reenters, Sends
      <4> QED BY <2>1, <4>1
    <3> QED BY <1>0, <2>4, <3>4, <3>5
  <2>6. CASE port /\ doubted
    <3>1. ResetReturns /\ CaughtUp
      BY <1>1, <1>4, <2>6 DEF Dial, Host, hostVars, Opens, Interrupts, EntersRaw,
           Connects, DialTimesOut, GivesUp, Read, ExecStarts, Pumps, ExecReturns, ExecTimesOut,
           ResetStarts, Breaks, Leaves, Restarts, Stops, Sends, Reenters, ResetReturns,
           ResetRaises, PortRaises, Close
    <3>2. ToCome' = <<>> /\ tx' \in {<<>>, <<Code(execs)>>} BY <3>1, NothingLeft
    <3>3. Places(ToCome', "raw") = {} BY <3>2 DEF Places
    <3>4. Places(tx', "A") = {}
      <4>1. CASE tx' = <<>> BY <4>1 DEF Places
      <4>2. CASE tx' = <<Code(execs)>>
        <5>1. \A i \in DOMAIN tx' : tx'[i].kind = "code" BY <4>2 DEF Code, Token
        <5> QED BY <5>1 DEF Places
      <4> QED BY <3>2, <4>1, <4>2
    <3>5. Due' = 0 BY <3>3, <3>4, FS_EmptySet DEF Due
    <3> QED BY <2>4, <3>5
  <2>7. CASE port /\ ~doubted
    <3>1. Due <= Waiting /\ Waiting \in Nat BY <1>2, <2>2, <2>7
    <3>2. CASE EntersRaw \/ Reenters
      <4>1. Due' <= Due + 1 /\ Waiting' = Waiting + 1 BY <1>0, <2>1, <2>2, <3>2
      <4> QED BY <1>0, <2>4, <3>1, <4>1
    <3>3. CASE Connects \/ ResetReturns
      <4>1. Due' + 1 <= Due /\ Waiting' + 1 = Waiting BY <2>1, <2>2, <3>3
      <4>2. \A a, b, c, d \in Nat : a + 1 <= b /\ b <= c /\ d + 1 = c => a <= d OBVIOUS
      <4> QED BY <1>0, <2>4, <3>1, <4>1, <4>2, Zenon
    <3>4. CASE ~EntersRaw /\ ~Reenters /\ ~Connects /\ ~ResetReturns
      <4>1. Due' <= Due /\ Waiting' = Waiting BY <2>1, <2>2, <2>3, <3>4
      <4> QED BY <1>0, <3>1, <4>1
    <3> QED BY <3>2, <3>3, <3>4
  <2> QED BY <2>5, <2>6, <2>7
<1> QED BY <1>3, <1>4 DEF Next

-----------------------------------------------------------------------------
\* The line is on its way to the raw prompt.

OkBefore(s) ==
  \A i \in DOMAIN s : s[i].kind \in {"ok", "eot"} =>
    \E j \in DOMAIN s : j > i /\ s[j].kind = "raw"

OnItsWay ==
  IF tx # <<>> THEN Last(tx) = Ctrl("A")
  ELSE mode = "raw" /\ running = Nothing /\ OkBefore(ToCome)

LEMMA CutOk ==
  ASSUME NEW S, NEW s \in Seq(S), NEW t \in Seq(S), NEW d, IsCut(t, s, d), OkBefore(s)
  PROVE  OkBefore(t)
<1>1. /\ Len(s) \in Nat /\ DOMAIN s = 1 .. Len(s) /\ Len(t) \in Nat /\ DOMAIN t = 1 .. Len(t)
      /\ d \in 0 .. Len(s) /\ Len(t) = Len(s) - d /\ \A i \in 1 .. Len(t) : t[i] = s[i + d]
  BY SeqPlaces DEF IsCut
<1> SUFFICES ASSUME NEW i \in 1 .. Len(t), t[i].kind \in {"ok", "eot"}
             PROVE  \E j \in 1 .. Len(t) : j > i /\ t[j].kind = "raw"
  BY <1>1 DEF OkBefore
<1> DEFINE x == i + d
<1>2. x \in 1 .. Len(s) /\ t[i] = s[x] BY <1>1
<1> HIDE DEF x
<1>3. PICK y \in 1 .. Len(s) : y > x /\ s[y].kind = "raw" BY <1>1, <1>2 DEF OkBefore
<1> DEFINE j == y - d
<1>4. j \in 1 .. Len(t) /\ j > i /\ j + d = y BY <1>1, <1>3 DEF x
<1> HIDE DEF j
<1>5. t[j] = s[y] BY <1>1, <1>4
<1> QED BY <1>3, <1>4, <1>5

\* What ends in a raw prompt waits for it.
LEMMA RawOk ==
  ASSUME NEW s \in Seq(Answers)
  PROVE  OkBefore(s \o <<Token("raw", 0)>>)
<1> DEFINE e == Token("raw", 0)
           t == s \o <<e>>
           n == Len(s)
           x == n + 1
<1>1. e \in Answers /\ e.kind = "raw" BY BoundsAssumption, AnswerFacts
<1> HIDE DEF e
<1>2. n \in Nat /\ DOMAIN t = 1 .. n + 1 /\ t[n + 1] = e BY <1>1, AddedPlaces
<1> HIDE DEF t, n
<1>3. x \in 1 .. n + 1 /\ t[x] = e BY <1>2
<1>4. ASSUME NEW i \in 1 .. n + 1, t[i].kind \in {"ok", "eot"} PROVE x > i
  <2>1. i # x BY <1>1, <1>3, <1>4
  <2> QED BY <1>2, <2>1
<1>5. OkBefore(t) BY <1>1, <1>2, <1>3, <1>4 DEF OkBefore
<1> QED BY <1>5 DEF t, e

\* The sections and the prompt that end an exec.
LEMMA EndedPlaces ==
  ASSUME NEW n \in 0 .. MaxExecs
  PROVE  /\ Ended(n) = <<Token("eot", n), Token("eot", n), Token("prompt", n)>>
         /\ Tail(Ended(n)) = <<Token("eot", n), Token("prompt", n)>>
         /\ Tail(Tail(Ended(n))) = <<Token("prompt", n)>>
<1>1. MaxExecs \in Nat /\ n # Boot BY BoundsAssumption DEF Boot
<1> DEFINE e == Token("eot", n)
           p == Token("prompt", n)
<1>2. Ended(n) = <<e, e, p>> BY <1>1 DEF Ended
<1> HIDE DEF e, p
<1>3. Tail(<<e, e, p>>) = <<e, p>> /\ Tail(<<e, p>>) = <<p>> OBVIOUS
<1> QED BY <1>2, <1>3 DEF e, p

LEMMA WayBoard ==
  ASSUME TypeOK, TypeOK', OnItsWay, Board \/ UNCHANGED vars
  PROVE  OnItsWay'
<1>0. /\ tx \in Seq(Inputs) /\ Len(tx) \in Nat /\ (tx = <<>> <=> Len(tx) = 0)
      /\ tx' \in Seq(Inputs) /\ Len(tx') \in Nat /\ (tx' = <<>> <=> Len(tx') = 0)
      /\ ToCome \in Seq(Answers)
  <2>1. tx \in Seq(Inputs) /\ tx' \in Seq(Inputs) BY DEF TypeOK
  <2> QED BY <2>1, SeqPlaces, Types
<1>1. CASE Says \/ UNCHANGED vars
  <2>1. ToCome' = ToCome /\ tx' = tx /\ mode' = mode /\ running' = running
    <3>1. CASE Says BY <3>1, SaysStep DEF Says
    <3>2. CASE UNCHANGED vars BY <3>2 DEF ToCome, vars
    <3> QED BY <1>1, <3>1, <3>2
  <2> QED BY <2>1 DEF OnItsWay
<1>2. CASE Obeys
  <2>1. /\ tx # <<>> /\ IsCut(tx', tx, 1) /\ ToCome' = ToCome \o saying' /\ Answer(tx[1])
    BY <1>2, ObeysStep
  <2>2. tx[Len(tx)] = Ctrl("A") BY <2>1 DEF OnItsWay, Last
  <2>3. Len(tx') = Len(tx) - 1 /\ \A i \in 1 .. Len(tx') : tx'[i] = tx[i + 1]
    BY <2>1 DEF IsCut
  <2>4. CASE tx' # <<>>
    <3> DEFINE n == Len(tx')
    <3>1. n \in 1 .. Len(tx') /\ n + 1 = Len(tx) BY <1>0, <2>3, <2>4
    <3> HIDE DEF n
    <3>2. tx'[n] = Ctrl("A") BY <2>2, <2>3, <3>1
    <3> QED BY <2>4, <3>2 DEF n, OnItsWay, Last
  <2>5. CASE tx' = <<>>
    <3>1. Len(tx) = 1 BY <1>0, <2>3, <2>5
    <3>2. tx[1].kind = "A" BY <2>2, <3>1, InputFacts
    <3>3. saying' = <<Token("raw", 0)>> /\ mode' = "raw" /\ running' = Nothing
      BY <2>1, <3>2 DEF Answer
    <3>4. OkBefore(ToCome \o <<Token("raw", 0)>>) BY <1>0, RawOk
    <3>5. OkBefore(ToCome') BY <2>1, <3>3, <3>4
    <3> QED BY <2>5, <3>3, <3>5 DEF OnItsWay, OkBefore
  <2> QED BY <2>4, <2>5
<1>3. CASE Finishes \/ IsInterrupted \/ Chatters
  <2>1. Runs BY <1>3, RunsStep
  <2>2. tx # <<>> /\ tx[Len(tx)] = Ctrl("A") BY <2>1 DEF OnItsWay, Runs, Last
  <2>3. CASE tx' = tx BY <2>2, <2>3 DEF OnItsWay, Last
  <2>4. CASE tx' # tx
    <3>1. PICK m \in 1 .. Len(tx) :
            /\ tx[m] = Ctrl("C") /\ Len(tx') = Len(tx) - 1
            /\ \A j \in 1 .. Len(tx) - 1 : tx'[j] = IF j < m THEN tx[j] ELSE tx[j + 1]
      BY <2>1, <2>4, RunsPlaces
    <3>2. Ctrl("A") # Ctrl("C") BY DEF Ctrl, Token
    <3>3. m # Len(tx) BY <2>2, <3>1, <3>2
    <3> DEFINE n == Len(tx')
    <3>4. n \in 1 .. Len(tx) - 1 /\ ~(n < m) /\ n + 1 = Len(tx) BY <1>0, <3>1, <3>3
    <3> HIDE DEF n
    <3>5. tx'[n] = Ctrl("A") BY <2>2, <3>1, <3>4
    <3>6. tx' # <<>> BY <1>0, <3>4 DEF n
    <3> QED BY <3>5, <3>6 DEF n, OnItsWay, Last
  <2> QED BY <2>3, <2>4
<1> QED BY <1>1, <1>2, <1>3 DEF Board

\* When somebody has asked for the raw prompt and the line was not used again.
Asked ==
  port /\ ~doubted /\ dial \in {"pump", "done"} /\ call # "exec"
       /\ step \notin {"leave", "restart", "stop", "reenter"}
       /\ (dirty => Pumping)

LEMMA SameAsked ==
  ASSUME Asked', UNCHANGED hostVars
  PROVE  Asked
<1>1. /\ port' = port /\ doubted' = doubted /\ dial' = dial /\ step' = step /\ call' = call
      /\ dirty' = dirty
  BY DEF hostVars
<1>2. Pumping' <=> Pumping BY <1>1 DEF Pumping, InReset
<1> QED BY <1>1, <1>2 DEF Asked

\* A step that only takes from the line.
LEMMA TakenOnItsWay ==
  ASSUME TypeOK, TypeOK', OnItsWay, tx' = tx, mode' = mode, running' = running,
         NEW d, IsCut(ToCome', ToCome, d)
  PROVE  OnItsWay'
<1>1. ToCome \in Seq(Answers) /\ ToCome' \in Seq(Answers) BY Types, NewTypes
<1>2. OkBefore(ToCome) => OkBefore(ToCome') BY <1>1, CutOk
<1> QED BY <1>2 DEF OnItsWay, OkBefore

LEMMA WayInit == Init => LineInStep
BY DEF Init, LineInStep

LEMMA WayStep ==
  ASSUME TypeOK, TypeOK', HostKept, ModeKept, LineInStep, ExecKept, [Next]_vars
  PROVE  LineInStep'
<1>0. Asked => OnItsWay BY DEF Asked, LineInStep, OnItsWay, OkBefore
<1> SUFFICES ASSUME Asked' PROVE OnItsWay' BY DEF Asked, LineInStep, OnItsWay, OkBefore
<1>1. /\ port' /\ ~doubted' /\ dial' \in {"pump", "done"} /\ call' # "exec"
      /\ step' \notin {"leave", "restart", "stop", "reenter"} /\ (dirty' => Pumping')
  BY DEF Asked
<1>2. CASE Board \/ UNCHANGED vars
  <2>1. UNCHANGED hostVars
    BY <1>2 DEF Board, vars, hostVars, Says, Obeys, Finishes, IsInterrupted, Chatters
  <2>2. Asked BY <1>1, <2>1, SameAsked
  <2> QED BY <1>0, <1>2, <2>2, WayBoard
<1>3. CASE Dial \/ Host
  <2>1. mode' = mode /\ running' = running BY <1>3, HostSends
  <2>2. PICK d : IsCut(ToCome', ToCome, d) BY <1>3, HostTakes
  <2>3. CASE tx' = tx /\ Asked BY <1>0, <2>1, <2>2, <2>3, TakenOnItsWay
  <2>4. CASE EntersRaw \/ Reenters
    <3>1. tx' = tx \o <<Ctrl("A")>> BY <2>4 DEF EntersRaw, Reenters, Sends, Write
    <3>2. tx \in Seq(Inputs) /\ Ctrl("A") \in Inputs BY Types, InputFacts
    <3>3. tx' # <<>> /\ Last(tx') = Ctrl("A") BY <3>1, <3>2, AddedPlaces
    <3> QED BY <3>3 DEF OnItsWay
  <2>5. CASE Connects
    <3>1. tx' = tx BY <2>5 DEF Connects
    <3>2. Asked
      BY <1>1, <2>5 DEF Asked, HostKept, Connects, Answered, Awaited, Pumping, InReset
    <3> QED BY <2>3, <3>1, <3>2
  <2>6. CASE GivesUp \/ (\E m : Read(m))
    <3>1. tx' = tx BY <2>6 DEF GivesUp, Read
    <3>2. CASE GivesUp
      BY <1>1, <2>3, <3>1, <3>2 DEF Asked, GivesUp, Awaited, Pumping, InReset
    <3>3. CASE \E m : Read(m)
      <4>1. UNCHANGED hostVars BY <3>3 DEF Read
      <4> QED BY <2>3, <3>1, <4>1, SameAsked
    <3> QED BY <2>6, <3>2, <3>3
  <2>7. CASE ResetStarts
    <3>1. tx' = tx BY <2>7 DEF ResetStarts
    <3>2. Asked
      BY <1>1, <2>7 DEF Asked, HostKept, ResetStarts, Pumping, InReset, Resetting
    <3> QED BY <2>3, <3>1, <3>2
  <2>8. CASE ResetReturns
    <3>1. call = "reset" /\ tx' = tx /\ dial' = dial /\ port' = port /\ Pumping
      BY <1>1, <2>8 DEF ResetReturns, InReset, Pumping
    <3>2. CASE ~doubted
      <4>1. Asked BY <1>1, <3>1, <3>2 DEF Asked, Pumping
      <4> QED BY <2>3, <3>1, <4>1
    <3>3. CASE doubted
      <4>1. CaughtUp BY <1>1, <2>8, <3>3 DEF ResetReturns
      <4>2. tx = <<>> /\ running = Nothing BY <4>1 DEF CaughtUp
      <4>3. mode = "raw"
        <5>1. Len(tx) = 0 BY <4>2
        <5>2. PICK j \in 0 .. Len(tx) : IF j = 0 THEN mode = "raw" ELSE tx[j].kind = "A"
          BY <3>1 DEF ModeKept
        <5> QED BY <5>1, <5>2
      <4>4. ToCome' = <<>> BY <2>8, <4>1, NothingLeft
      <4>5. OkBefore(ToCome') BY <4>4 DEF OkBefore
      <4> QED BY <2>1, <3>1, <4>2, <4>3, <4>5 DEF OnItsWay, OkBefore
    <3> QED BY <3>2, <3>3
  <2>9. CASE ExecReturns
    <3>1. call = "exec" /\ step = "prompt" /\ tx' = tx /\ ~doubted /\ execs \in 0 .. MaxExecs
      BY <1>1, <2>9 DEF ExecReturns, TypeOK
    <3>2. /\ mode = "raw" /\ tx = <<>> /\ running = Nothing
          /\ ToCome = Tail(Tail(Ended(execs)))
      BY <3>1 DEF ExecKept
    <3>3. ToCome = <<Token("prompt", execs)>> BY <3>1, <3>2, EndedPlaces
    <3>4. \A i \in DOMAIN ToCome : ToCome[i].kind = "prompt" BY <3>3 DEF Token
    <3>5. OkBefore(ToCome) BY <3>4 DEF OkBefore
    <3>6. OnItsWay BY <3>2, <3>5 DEF OnItsWay
    <3> QED BY <2>1, <2>2, <3>1, <3>6, TakenOnItsWay
  <2>10. CASE \/ Opens \/ Interrupts \/ DialTimesOut \/ ExecStarts \/ Pumps \/ ExecTimesOut
              \/ Breaks \/ Leaves \/ Restarts \/ Stops \/ ResetRaises \/ PortRaises \/ Close
    <3>1. CASE Opens BY <1>1, <3>1 DEF HostKept, Opens
    <3>2. CASE Interrupts BY <1>1, <3>2 DEF Interrupts
    <3>3. CASE DialTimesOut \/ Close BY <1>1, <3>3 DEF DialTimesOut, Close
    <3>4. CASE ExecStarts BY <1>1, <3>4 DEF ExecStarts, Pumping
    <3>5. CASE Pumps BY <1>1, <3>5 DEF Pumps
    <3>6. CASE ExecTimesOut BY <1>1, <3>6 DEF ExecTimesOut, Pumping, InReset
    <3>7. CASE Breaks \/ Leaves \/ Restarts \/ Stops
      BY <1>1, <3>7 DEF Breaks, Leaves, Restarts, Stops, Sends
    <3>8. CASE ResetRaises \/ PortRaises BY <1>1, <3>8 DEF ResetRaises, PortRaises
    <3> QED BY <2>10, <3>1, <3>2, <3>3, <3>4, <3>5, <3>6, <3>7, <3>8
  <2> QED BY <1>3, <2>4, <2>5, <2>6, <2>7, <2>8, <2>9, <2>10, Zenon DEF Dial, Host
<1> QED BY <1>2, <1>3 DEF Next

-----------------------------------------------------------------------------
\* A clean line is in step.

\* As many prompts as requests are owed to nobody: then the board is done.
LEMMA Drained ==
  ASSUME TypeOK, OnItsWay, Due <= 0
  PROVE  Synced
<1>1. /\ Due \in Nat /\ Cardinality(Places(ToCome, "raw")) \in Nat
      /\ Cardinality(Places(tx, "A")) \in Nat
  BY DueType
<1>2. Cardinality(Places(ToCome, "raw")) = 0 /\ Cardinality(Places(tx, "A")) = 0
  BY <1>1 DEF Due
<1>3. /\ tx \in Seq(Inputs) /\ ToCome \in Seq(Answers) /\ DOMAIN ToCome = 1 .. Len(ToCome)
      /\ Len(tx) \in Nat /\ (tx = <<>> <=> Len(tx) = 0)
  BY Types, SeqPlaces
<1>4. \A i \in 1 .. Len(ToCome) : ToCome[i].kind # "raw" BY <1>2, <1>3, PlacesCount
<1>5. \A i \in 1 .. Len(tx) : tx[i].kind # "A" BY <1>2, <1>3, PlacesCount
<1>6. tx = <<>>
  <2> SUFFICES ASSUME tx # <<>> PROVE FALSE OBVIOUS
  <2>1. Len(tx) \in 1 .. Len(tx) BY <1>3
  <2>2. tx[Len(tx)] = Ctrl("A") BY DEF OnItsWay, Last
  <2>3. Ctrl("A").kind = "A" BY InputFacts
  <2> QED BY <1>5, <2>1, <2>2, <2>3
<1>7. mode = "raw" /\ running = Nothing /\ OkBefore(ToCome) BY <1>6 DEF OnItsWay
<1>8. \A i \in 1 .. Len(ToCome) : ToCome[i].kind \in {"ok", "eot", "prompt", "raw"}
  BY <1>3, SeqPlaces, AnswerFacts
<1>9. \A i \in DOMAIN ToCome : ToCome[i].kind = "prompt"
  BY <1>3, <1>4, <1>7, <1>8 DEF OkBefore
<1> QED BY <1>6, <1>7, <1>9 DEF Synced

\* Nobody waits, and nobody is at work on the line.
LEMMA CleanSynced ==
  ASSUME TypeOK, HostKept, PromptsAwaited, LineInStep,
         port, connected, ~dirty, ~doubted, call = "none"
  PROVE  Synced
<1>1. dial = "done" /\ step = "off" BY DEF TypeOK, HostKept, InReset
<1>2. ~Pumping /\ Waiting = 0 BY <1>1 DEF Waiting, Pumping
<1>3. OnItsWay BY <1>1, <1>2 DEF LineInStep, OnItsWay, OkBefore
<1>4. Due <= 0 BY <1>2 DEF PromptsAwaited, Due
<1> QED BY <1>3, <1>4, Drained

-----------------------------------------------------------------------------
\* An exec that waits.

LEMMA SameSeq ==
  ASSUME NEW S, NEW s \in Seq(S), NEW t \in Seq(S), Len(s) = Len(t),
         \A i \in 1 .. Len(s) : s[i] = t[i]
  PROVE  s = t
BY SeqEqual

LEMMA CutIsSubSeq ==
  ASSUME NEW S, NEW s \in Seq(S), NEW t \in Seq(S), NEW d, IsCut(t, s, d)
  PROVE  t = SubSeq(s, d + 1, Len(s))
<1> DEFINE q == SubSeq(s, d + 1, Len(s))
<1>1. d \in 0 .. Len(s) BY DEF IsCut
<1>2. q \in Seq(S) /\ IsCut(q, s, d) BY <1>1, SubSeqCut
<1> HIDE DEF q
<1>3. Len(t) = Len(q) /\ \A i \in 1 .. Len(t) : t[i] = q[i] BY <1>2 DEF IsCut
<1>4. t = q BY <1>2, <1>3, SameSeq
<1> QED BY <1>4 DEF q

LEMMA CutIsTail ==
  ASSUME NEW S, NEW s \in Seq(S), s # <<>>, NEW t \in Seq(S), IsCut(t, s, 1)
  PROVE  t = Tail(s)
<1> DEFINE q == Tail(s)
<1>1. q \in Seq(S) /\ IsCut(q, s, 1) BY TailCut
<1> HIDE DEF q
<1>2. Len(t) = Len(q) /\ \A i \in 1 .. Len(t) : t[i] = q[i] BY <1>1 DEF IsCut
<1>3. t = q BY <1>1, <1>2, SameSeq
<1> QED BY <1>3 DEF q

LEMMA SuffixIs ==
  ASSUME NEW S, NEW s \in Seq(S), NEW e \in Seq(S)
  PROVE  SubSeq(s \o e, Len(s) + 1, Len(s \o e)) = e
<1> DEFINE t == s \o e
           n == Len(s)
           q == SubSeq(t, n + 1, Len(t))
<1>1. /\ t \in Seq(S) /\ n \in Nat /\ Len(e) \in Nat /\ Len(t) = n + Len(e)
      /\ \A i \in 1 .. n + Len(e) : t[i] = IF i <= n THEN s[i] ELSE e[i - n]
  BY ConcatPlaces
<1> HIDE DEF t, n
<1>2. n \in 0 .. Len(t) BY <1>1
<1>3. q \in Seq(S) /\ IsCut(q, t, n) BY <1>1, <1>2, SubSeqCut
<1> HIDE DEF q
<1>4. Len(q) = Len(e) BY <1>1, <1>3 DEF IsCut
<1>5. ASSUME NEW i \in 1 .. Len(q) PROVE q[i] = e[i]
  <2> DEFINE x == i + n
  <2>1. x \in 1 .. n + Len(e) /\ ~(x <= n) /\ x - n = i BY <1>1, <1>4
  <2>2. q[i] = t[x] BY <1>3 DEF IsCut
  <2> HIDE DEF x
  <2>3. t[x] = e[i] BY <1>1, <2>1
  <2> QED BY <2>2, <2>3
<1>6. q = e BY <1>3, <1>4, <1>5, SameSeq
<1> QED BY <1>6 DEF q, t, n

\* While the exec waits, nothing but its own reads and the board can happen.
LEMMA ExecAlone ==
  ASSUME TypeOK, HostKept, [Next]_vars, call = "exec", call' = "exec"
  PROVE  /\ doubted' = doubted /\ execs' = execs
         /\ \/ Pumps \/ Board
            \/ (\E m : Read(m)) \/ UNCHANGED vars
<1>1. dial = "done" BY DEF HostKept
<1>2. ~Dial \/ \E m : Read(m)
  BY <1>1 DEF Dial, Opens, Interrupts, EntersRaw, Connects, DialTimesOut, GivesUp, Awaited
<1>3. CASE Host
  <2>1. Pumps \/ \E m : Read(m)
    BY <1>3 DEF Host, InReset, ExecStarts, ExecReturns, ExecTimesOut, ResetStarts, Breaks,
         Leaves, Restarts, Stops, Sends, Reenters, ResetReturns, ResetRaises, PortRaises,
         Close
  <2> QED BY <2>1 DEF Pumps, Read, hostVars
<1>4. CASE Board
  BY <1>4 DEF Board, hostVars, Says, Obeys, Finishes, IsInterrupted, Chatters
<1>5. CASE UNCHANGED vars BY <1>5 DEF vars
<1>6. CASE \E m : Read(m) BY <1>6 DEF Read, hostVars
<1> QED BY <1>2, <1>3, <1>4, <1>5, <1>6 DEF Next

\* The board is idle and has the code to come.
LEMMA ExecBegins ==
  ASSUME step' = "ack", tx' = <<Code(execs')>>, mode' = "raw", running' = Nothing,
         reply' = <<>>, \A i \in DOMAIN ToCome' : ToCome'[i].kind = "prompt"
  PROVE  ExecKept'
<1>1. tx' # <<>> OBVIOUS
<1> QED BY <1>1 DEF ExecKept

LEMMA ExecOnClean ==
  ASSUME TypeOK, HostKept, PromptsAwaited, LineInStep, ExecStarts, call' = "exec", ~doubted
  PROVE  ExecKept'
<1>1. /\ ~dirty /\ port /\ connected /\ call = "none" /\ step' = "ack" /\ reply' = <<>>
      /\ tx' = tx \o <<Code(execs')>> /\ mode' = mode /\ running' = running
      /\ rx' = rx /\ coming' = coming /\ saying' = saying
  BY DEF ExecStarts, Write, boardVars
<1>2. Synced BY <1>1, CleanSynced
<1>3. /\ tx = <<>> /\ mode = "raw" /\ running = Nothing
      /\ \A i \in DOMAIN ToCome : ToCome[i].kind = "prompt"
  BY <1>2 DEF Synced
<1>4. ToCome' = ToCome BY <1>1 DEF ToCome
<1>5. tx' = <<Code(execs')>>
  <2>1. \A x : <<>> \o <<x>> = <<x>> OBVIOUS
  <2> QED BY <1>1, <1>3, <2>1
<1> QED BY <1>1, <1>3, <1>4, <1>5, ExecBegins

\* The resync of a line in step takes the one prompt that is owed.
LEMMA ResyncSynced ==
  ASSUME TypeOK, TypeOK', HostKept, ModeKept, PromptsAwaited, LineInStep, ResetReturns,
         ~doubted', dial = "done"
  PROVE  /\ tx = <<>> /\ mode = "raw" /\ running = Nothing
         /\ \A i \in DOMAIN ToCome' : ToCome'[i].kind = "prompt"
<1>1. port /\ Pumping BY DEF ResetReturns, Pumping
<1>2. CASE doubted
  <2>1. CaughtUp BY <1>2 DEF ResetReturns
  <2>2. tx = <<>> /\ running = Nothing BY <2>1 DEF CaughtUp
  <2>3. mode = "raw"
    <3>1. Len(tx) = 0 BY <2>2
    <3>2. PICK j \in 0 .. Len(tx) : IF j = 0 THEN mode = "raw" ELSE tx[j].kind = "A"
      BY <1>1 DEF ModeKept
    <3> QED BY <3>1, <3>2
  <2>4. ToCome' = <<>> BY <2>1, NothingLeft
  <2>5. DOMAIN <<>> = {} OBVIOUS
  <2> QED BY <2>2, <2>3, <2>4, <2>5
<1>3. CASE ~doubted
  <2> DEFINE r == Cardinality(Places(ToCome, "raw"))
             q == Cardinality(Places(ToCome', "raw"))
             a == Cardinality(Places(tx, "A"))
  <2>1. /\ r \in Nat /\ q \in Nat /\ a \in Nat
        /\ ToCome \in Seq(Answers) /\ ToCome' \in Seq(Answers) /\ tx \in Seq(Inputs)
        /\ DOMAIN ToCome' = 1 .. Len(ToCome') /\ Len(tx) \in Nat /\ (tx = <<>> <=> Len(tx) = 0)
    BY Types, DueType, NewTypes, SeqPlaces
  <2>2. Waiting = 1 BY <1>1 DEF Waiting
  <2>3. r + a <= 1
    <3>1. r + a <= Waiting BY <1>1, <1>3 DEF PromptsAwaited
    <3> QED BY <2>2, <3>1
  <2>4. PICK d : IsCut(ToCome', ToCome, d) /\ \E i \in 1 .. d : ToCome[i].kind = "raw"
    BY HostTakes DEF Host
  <2>5. q + 1 <= r BY <2>1, <2>4, CutCount
  <2>6. a = 0 /\ q = 0
    <3> HIDE DEF r, q, a
    <3> QED BY <2>1, <2>3, <2>5
  <2>7. \A i \in 1 .. Len(tx) : tx[i].kind # "A" BY <2>1, <2>6, PlacesCount
  <2>8. \A i \in 1 .. Len(ToCome') : ToCome'[i].kind # "raw" BY <2>1, <2>6, PlacesCount
  <2>9. OnItsWay
    <3>1. call # "exec" /\ step = "pump" BY DEF ResetReturns, InReset
    <3> QED BY <1>1, <1>3, <3>1 DEF LineInStep, OnItsWay, OkBefore
  <2>10. tx = <<>>
    <3> SUFFICES ASSUME tx # <<>> PROVE FALSE OBVIOUS
    <3>1. Len(tx) \in 1 .. Len(tx) BY <2>1
    <3>2. tx[Len(tx)] = Ctrl("A") BY <2>9 DEF OnItsWay, Last
    <3>3. Ctrl("A").kind = "A" BY InputFacts
    <3> QED BY <2>7, <3>1, <3>2, <3>3
  <2>11. mode = "raw" /\ running = Nothing /\ OkBefore(ToCome) BY <2>9, <2>10 DEF OnItsWay
  <2>12. OkBefore(ToCome') BY <2>1, <2>4, <2>11, CutOk
  <2>13. \A i \in 1 .. Len(ToCome') : ToCome'[i].kind \in {"ok", "eot", "prompt", "raw"}
    BY <2>1, SeqPlaces, AnswerFacts
  <2>14. \A i \in DOMAIN ToCome' : ToCome'[i].kind = "prompt"
    BY <2>1, <2>8, <2>12, <2>13 DEF OkBefore
  <2> QED BY <2>10, <2>11, <2>14
<1> QED BY <1>2, <1>3

LEMMA ExecOnResync ==
  ASSUME TypeOK, TypeOK', HostKept, ModeKept, PromptsAwaited, LineInStep, ResetReturns,
         call' = "exec", ~doubted'
  PROVE  ExecKept'
<1>1. call = "resync"
  BY DEF ResetReturns, InReset
<1>2. /\ step' = "ack" /\ reply' = reply /\ execs' = execs
      /\ tx' = tx \o <<Code(execs)>> /\ mode' = mode /\ running' = running
  BY <1>1 DEF ResetReturns, Write, boardVars
<1>3. port /\ connected /\ dial = "done" /\ reply = <<>> BY <1>1 DEF HostKept, InReset
<1>4. /\ tx = <<>> /\ mode = "raw" /\ running = Nothing
      /\ \A i \in DOMAIN ToCome' : ToCome'[i].kind = "prompt"
  BY <1>3, ResyncSynced
<1>5. tx' = <<Code(execs')>>
  <2>1. \A x : <<>> \o <<x>> = <<x>> OBVIOUS
  <2> QED BY <1>2, <1>4, <2>1
<1> QED BY <1>2, <1>3, <1>4, <1>5, ExecBegins

\* The board reads the code and acknowledges it.
LEMMA ExecObeyed ==
  ASSUME TypeOK, TypeOK', HostKept, ExecKept, call = "exec", ~doubted, Obeys
  PROVE  ExecKept'
<1>1. /\ tx # <<>> /\ IsCut(tx', tx, 1) /\ tx' \in Seq(Inputs) /\ saying' \in Seq(Answers)
      /\ ToCome' = ToCome \o saying' /\ Answer(tx[1])
  BY ObeysStep
<1>2. /\ mode = "raw" /\ step = "ack" /\ tx = <<Code(execs)>> /\ reply = <<>>
      /\ \A i \in DOMAIN ToCome : ToCome[i].kind = "prompt"
  BY <1>1 DEF ExecKept
<1>3. /\ step' = step /\ reply' = reply /\ execs' = execs /\ call' = call
      /\ execs \in 0 .. MaxExecs /\ execs > 0 /\ MaxExecs \in Nat
  BY BoundsAssumption DEF Obeys, hostVars, HostKept, TypeOK
<1>4. tx[1] = Code(execs) /\ Len(tx) = 1 BY <1>2
<1>5. tx[1].kind = "code" /\ tx[1].of = execs BY <1>4 DEF Code, Token
<1>6. saying' = <<Token("ok", execs)>> /\ mode' = "raw" /\ running' = execs
  BY <1>1, <1>2, <1>5 DEF Answer
<1>7. tx' = <<>>
  <2>1. Len(tx') = 0 BY <1>1, <1>4 DEF IsCut
  <2> QED BY <1>1, <2>1, SeqPlaces
<1> DEFINE e == Token("ok", execs)
           n == Len(ToCome)
           k == n + 1
<1>8. ToCome \in Seq(Answers) /\ n \in Nat /\ DOMAIN ToCome = 1 .. n /\ e \in Answers
  BY <1>3, Types, SeqPlaces, AnswerFacts
<1>9. ToCome' = ToCome \o <<e>> BY <1>1, <1>6
<1> HIDE DEF e
<1>10. /\ ToCome' \in Seq(Answers) /\ Len(ToCome') = n + 1 /\ DOMAIN ToCome' = 1 .. n + 1
       /\ ToCome'[n + 1] = e /\ \A i \in 1 .. n : ToCome'[i] = ToCome[i]
  BY <1>8, <1>9, AddedPlaces
<1>11. SubSeq(ToCome', k + 1, Len(ToCome')) = <<>>
  <2>1. k + 1 \in Int /\ Len(ToCome') \in Int /\ Len(ToCome') < k + 1 BY <1>8, <1>10
  <2> QED BY <2>1, SubSeqEmpty
<1>12. k \in DOMAIN ToCome' /\ ToCome'[k] = e /\ \A i \in 1 .. k - 1 : ToCome'[i].kind = "prompt"
  <2>1. k \in 1 .. n + 1 /\ \A i \in 1 .. k - 1 : i \in 1 .. n BY <1>8
  <2> QED BY <1>2, <1>8, <1>10, <2>1
<1>13. Output(execs)' = <<>> BY <1>3, <1>6 DEF Output
<1> HIDE DEF k, n
<1> QED BY <1>2, <1>3, <1>6, <1>7, <1>11, <1>12, <1>13 DEF ExecKept, e, Output

\* The exec ends, and its sections follow the ack.
LEMMA ExecRuns ==
  ASSUME TypeOK, TypeOK', HostKept, ExecKept, call = "exec", ~doubted,
         Finishes \/ IsInterrupted \/ Chatters
  PROVE  ExecKept'
<1>1. Runs BY RunsStep
<1>2. /\ step' = step /\ reply' = reply /\ execs' = execs /\ call' = call
      /\ execs \in 0 .. MaxExecs /\ MaxExecs \in Nat
  BY BoundsAssumption DEF Finishes, IsInterrupted, Chatters, hostVars, TypeOK
<1>3. tx = <<>> /\ running = execs /\ step \in {"ack", "out"} /\ mode = "raw" /\ running # Boot
  <2>1. running # Nothing BY <1>1 DEF Runs
  <2>2. tx = <<>> BY <2>1 DEF ExecKept
  <2>3. running = execs BY <2>1, <2>2 DEF ExecKept
  <2>4. step \in {"ack", "out"} BY <2>1 DEF ExecKept, HostKept
  <2>5. execs # Boot BY <1>2 DEF Boot
  <2> QED BY <2>2, <2>3, <2>4, <2>5 DEF ExecKept
<1>4. Finishes
  <2>1. DOMAIN tx = {} BY <1>3
  <2>2. ~IsInterrupted BY <2>1 DEF IsInterrupted
  <2>3. ~Chatters BY <1>3 DEF Chatters
  <2> QED BY <2>2, <2>3
<1>5. /\ tx' = <<>> /\ mode' = "raw" /\ running' = Nothing /\ saying' = Ended(execs)
      /\ ToCome' = ToCome \o Ended(execs) /\ ToCome \in Seq(Answers)
  BY <1>1, <1>3, <1>4, Types DEF Finishes, Does, Runs
<1>6. Output(execs) = <<>> /\ Output(execs)' = Ended(execs)
  <2>1. Nothing # execs BY <1>1, <1>3 DEF Runs
  <2>2. Ended(execs)' = Ended(execs) BY <1>2 DEF Ended
  <2> QED BY <1>2, <1>3, <1>5, <2>1, <2>2 DEF Output
<1>7. Ended(execs) \in Seq(Answers)
  <2>1. execs \in 0 .. MaxExecs + 1 BY <1>2
  <2> QED BY <2>1, EndedFacts
<1>8. CASE step = "out"
  <2>1. ToCome = <<>> /\ reply = <<>> BY <1>6, <1>8 DEF ExecKept
  <2>2. ToCome' = Ended(execs) BY <1>5, <1>7, <2>1, ConcatEmptySeq
  <2> QED BY <1>2, <1>5, <1>6, <1>8, <2>1, <2>2 DEF ExecKept
<1>9. CASE step = "ack"
  <2>1. reply = <<>> BY <1>3, <1>9 DEF ExecKept
  <2>2. PICK k \in DOMAIN ToCome :
          /\ \A i \in 1 .. k - 1 : ToCome[i].kind = "prompt"
          /\ ToCome[k] = Token("ok", execs)
          /\ SubSeq(ToCome, k + 1, Len(ToCome)) = <<>>
    BY <1>3, <1>6, <1>9 DEF ExecKept
  <2> DEFINE n == Len(ToCome)
  <2>3. n \in Nat /\ k \in 1 .. n BY <1>5, SeqPlaces
  <2>4. k = n
    <3> DEFINE q == SubSeq(ToCome, k + 1, n)
    <3>1. k \in 0 .. n BY <2>3
    <3>2. q \in Seq(Answers) /\ IsCut(q, ToCome, k) BY <1>5, <3>1, SubSeqCut
    <3>3. Len(q) = n - k BY <3>2 DEF IsCut
    <3>4. q = <<>> BY <2>2, Zenon
    <3> HIDE DEF q, n
    <3>5. Len(q) = 0 BY <3>4
    <3> QED BY <2>3, <3>3, <3>5
  <2>5. SubSeq(ToCome', k + 1, Len(ToCome')) = Ended(execs)
    BY <1>5, <1>7, <2>4, SuffixIs
  <2>6. /\ Len(ToCome') = n + Len(Ended(execs)) /\ Len(Ended(execs)) \in Nat
        /\ \A i \in 1 .. n + Len(Ended(execs)) :
             ToCome'[i] = IF i <= n THEN ToCome[i] ELSE Ended(execs)[i - n]
    BY <1>5, <1>7, ConcatPlaces
  <2>7. \A i \in 1 .. k : ToCome'[i] = ToCome[i]
    <3>1. \A i \in 1 .. k : i <= n /\ i \in 1 .. n + Len(Ended(execs)) BY <2>3, <2>4, <2>6
    <3> QED BY <2>6, <3>1
  <2>8. k \in DOMAIN ToCome' /\ k \in 1 .. k /\ \A i \in 1 .. k - 1 : i \in 1 .. k
    <3>1. DOMAIN ToCome' = 1 .. Len(ToCome') BY NewTypes
    <3> QED BY <2>3, <2>6, <3>1
  <2>9. /\ \A i \in 1 .. k - 1 : ToCome'[i].kind = "prompt"
        /\ ToCome'[k] = Token("ok", execs)
    BY <2>2, <2>7, <2>8
  <2> HIDE DEF n
  <2> QED BY <1>2, <1>5, <1>6, <1>9, <2>1, <2>5, <2>8, <2>9 DEF ExecKept
<1> QED BY <1>3, <1>8, <1>9

\* The reads of the exec: each takes up to its own marker.
LEMMA ExecPumps ==
  ASSUME TypeOK, TypeOK', HostKept, ExecKept, call = "exec", ~doubted, Pumps
  PROVE  ExecKept'
<1> DEFINE n == Len(ToCome)
           e == Token("eot", execs)
           p == Token("prompt", execs)
<1>0. /\ ToCome \in Seq(Answers) /\ ToCome' \in Seq(Answers) /\ n \in Nat
      /\ DOMAIN ToCome = 1 .. n /\ Len(rx) \in Nat /\ MaxExecs \in Nat
      /\ execs \in 0 .. MaxExecs /\ execs > 0 /\ \A i \in 1 .. Len(rx) : i \in 1 .. n
  <2>1. /\ ToCome \in Seq(Answers) /\ Len(rx) \in Nat /\ DOMAIN ToCome = 1 .. n
        /\ \A i \in 1 .. Len(rx) : i \in 1 .. n
    BY Types
  <2>2. ToCome' \in Seq(Answers) BY NewTypes
  <2>3. n \in Nat BY <2>1, SeqPlaces
  <2>4. MaxExecs \in Nat /\ execs \in 0 .. MaxExecs /\ execs > 0
    BY BoundsAssumption DEF TypeOK, HostKept
  <2> QED BY <2>1, <2>2, <2>3, <2>4
<1>1. /\ coming' = coming /\ saying' = saying /\ tx' = tx /\ mode' = mode /\ running' = running
      /\ execs' = execs /\ call' = call
  BY DEF Pumps, boardVars
<1>2. mode = "raw" BY DEF ExecKept
<1>3. /\ Ended(execs) = <<e, e, p>> /\ Tail(Ended(execs)) = <<e, p>>
      /\ Tail(Tail(Ended(execs))) = <<p>> /\ Ended(execs)' = Ended(execs)
      /\ e.kind = "eot" /\ e.of = execs
  BY <1>0, <1>1, EndedPlaces, AnswerFacts DEF Ended
<1>4. CASE step = "ack" /\ TakeUntil("ok") /\ step' = "out" /\ UNCHANGED reply
  <2> DEFINE d == FirstOf("ok")
  <2>1. /\ d \in 1 .. Len(rx) /\ IsCut(ToCome', ToCome, d) /\ Matches(ToCome[d], "ok")
        /\ \A j \in 1 .. d - 1 : ~Matches(ToCome[j], "ok")
    BY <1>1, <1>4, TakeStep
  <2> HIDE DEF d
  <2>2. d \in 1 .. n /\ ToCome[d].kind = "ok" BY <1>0, <2>1 DEF Matches
  <2>3. tx = <<>>
    <3> SUFFICES ASSUME tx # <<>> PROVE FALSE OBVIOUS
    <3>1. ToCome[d].kind = "prompt" BY <1>0, <1>4, <2>2 DEF ExecKept
    <3> QED BY <2>2, <3>1
  <2>4. PICK k \in 1 .. n :
          /\ \A i \in 1 .. k - 1 : ToCome[i].kind = "prompt"
          /\ ToCome[k] = Token("ok", execs)
          /\ SubSeq(ToCome, k + 1, n) = Output(execs)
    BY <1>0, <1>4, <2>3 DEF ExecKept
  <2>5. d = k
    <3>1. ToCome[k].kind = "ok" BY <1>0, <2>4, AnswerFacts
    <3>2. k \notin 1 .. d - 1 BY <2>1, <3>1 DEF Matches
    <3>3. d \notin 1 .. k - 1 BY <2>2, <2>4
    <3> QED BY <1>0, <2>2, <3>2, <3>3
  <2>6. ToCome' = SubSeq(ToCome, k + 1, n) BY <1>0, <2>1, <2>5, CutIsSubSeq
  <2>7. reply' = <<>> BY <1>4, <2>3 DEF ExecKept
  <2>8. running \in {Nothing, execs} BY <2>3 DEF ExecKept
  <2>9. Output(execs)' = Output(execs) BY <1>1, <1>3 DEF Output
  <2>10. ToCome' = Output(execs)' BY <2>4, <2>6, <2>9
  <2> QED BY <1>1, <1>2, <1>4, <2>3, <2>7, <2>8, <2>10 DEF ExecKept
<1>5. ASSUME step \in {"out", "err"}, TakeUntil("eot"),
             ToCome # <<>> => ToCome[1] = e
      PROVE  ToCome # <<>> /\ ToCome' = Tail(ToCome) /\ TakenFrom("eot") = {execs}
  <2> DEFINE d == FirstOf("eot")
  <2>1. /\ d \in 1 .. Len(rx) /\ IsCut(ToCome', ToCome, d)
        /\ \A j \in 1 .. d - 1 : ~Matches(ToCome[j], "eot")
        /\ TakenFrom("eot") = {ToCome[i].of : i \in 1 .. d}
    BY <1>1, <1>5, TakeStep
  <2> HIDE DEF d
  <2>2. d \in 1 .. n BY <1>0, <2>1
  <2>3. ToCome # <<>> /\ ToCome[1] = e BY <1>0, <1>5, <2>2, SeqPlaces
  <2>4. 1 \notin 1 .. d - 1 BY <1>3, <2>1, <2>3 DEF Matches
  <2>5. d = 1 BY <1>0, <2>2, <2>4
  <2>6. ToCome' = Tail(ToCome) BY <1>0, <2>1, <2>3, <2>5, CutIsTail
  <2>7. {ToCome[i].of : i \in 1 .. 1} = {execs}
    <3>1. \A i \in 1 .. 1 : i = 1 OBVIOUS
    <3>2. 1 \in 1 .. 1 /\ ToCome[1].of = execs BY <1>3, <2>3
    <3> QED BY <3>1, <3>2
  <2> QED BY <2>1, <2>3, <2>5, <2>6, <2>7
<1>6. CASE /\ step = "out" /\ TakeUntil("eot")
           /\ reply' = <<TakenFrom("eot")>> /\ step' = "err"
  <2>1. tx = <<>> /\ ToCome = Output(execs) /\ running \in {Nothing, execs}
    BY <1>6 DEF ExecKept
  <2>2. ToCome # <<>> => ToCome[1] = e
    <3>1. Ended(execs)[1] = e BY <1>3
    <3> QED BY <2>1, <3>1 DEF Output
  <2>3. ToCome # <<>> /\ ToCome' = Tail(ToCome) /\ TakenFrom("eot") = {execs}
    BY <1>5, <1>6, <2>2
  <2>4. running = Nothing /\ ToCome = Ended(execs) BY <2>1, <2>3 DEF Output
  <2>5. ToCome' = Tail(Ended(execs)') BY <1>3, <2>3, <2>4
  <2>6. reply' = <<{execs}>> BY <1>6, <2>3
  <2> QED BY <1>1, <1>2, <1>6, <2>1, <2>4, <2>5, <2>6 DEF ExecKept
<1>7. CASE /\ step = "err" /\ TakeUntil("eot")
           /\ reply' = Append(reply, TakenFrom("eot")) /\ step' = "prompt"
  <2>1. tx = <<>> /\ running = Nothing /\ ToCome = Tail(Ended(execs)) /\ reply = <<{execs}>>
    BY <1>7 DEF ExecKept
  <2>2. ToCome[1] = e BY <1>3, <2>1
  <2>3. ToCome # <<>> /\ ToCome' = Tail(ToCome) /\ TakenFrom("eot") = {execs}
    BY <1>5, <1>7, <2>2
  <2>4. ToCome' = Tail(Tail(Ended(execs)')) BY <1>3, <2>1, <2>3
  <2>5. reply' = <<{execs}, {execs}>>
    <3> DEFINE x == {execs}
    <3>1. reply = <<x>> /\ reply' = Append(reply, x) BY <1>7, <2>1, <2>3
    <3> HIDE DEF x
    <3> DEFINE u == <<x>>
               a == Append(u, x)
               b == <<x, x>>
    <3>2. u \in Seq({x}) /\ Len(u) = 1 /\ x \in {x} OBVIOUS
    <3>3. b \in Seq({x}) /\ Len(b) = 2 /\ \A i \in 1 .. 2 : b[i] = x OBVIOUS
    <3> HIDE DEF u, b
    <3>4. a \in Seq({x}) /\ Len(a) = 2
      <4>1. a \in Seq({x}) /\ Len(a) = Len(u) + 1 BY <3>2, AppendProperties, SMTT(30)
      <4> HIDE DEF a
      <4> QED BY <3>2, <4>1
    <3> HIDE DEF a
    <3>5. \A i \in 1 .. 2 : a[i] = x
      <4>1. \A i \in 1 .. Len(a) : a[i] \in {x} BY <3>4, SeqPlaces
      <4> QED BY <3>4, <4>1
    <3>6. a = b BY <3>3, <3>4, <3>5, SameSeq
    <3> QED BY <3>1, <3>6 DEF a, b, u, x
  <2> QED BY <1>1, <1>2, <1>7, <2>1, <2>4, <2>5 DEF ExecKept
<1> QED BY <1>4, <1>6, <1>7 DEF Pumps

LEMMA ExecInit == Init => ExecKept
BY DEF Init, ExecKept

LEMMA ExecStep ==
  ASSUME TypeOK, TypeOK', HostKept, ModeKept, PromptsAwaited, LineInStep, ExecKept, [Next]_vars
  PROVE  ExecKept'
<1> SUFFICES ASSUME call' = "exec", ~doubted' PROVE ExecKept'
  BY DEF ExecKept
<1>1. CASE call = "exec"
  <2>1. /\ doubted' = doubted /\ execs' = execs
        /\ Pumps \/ Board \/ (\E m : Read(m)) \/ UNCHANGED vars
    BY <1>1, ExecAlone
  <2>2. ~doubted BY <2>1
  <2>3. CASE Pumps BY <1>1, <2>2, <2>3, ExecPumps
  <2>4. CASE Obeys BY <1>1, <2>2, <2>4, ExecObeyed
  <2>5. CASE Finishes \/ IsInterrupted \/ Chatters BY <1>1, <2>2, <2>5, ExecRuns
  <2>6. CASE Says \/ (\E m : Read(m)) \/ UNCHANGED vars
    <3>1. ToCome' = ToCome
      <4>1. CASE Says BY <4>1, SaysStep
      <4>2. CASE \E m : Read(m) BY <4>2, ReadStep
      <4>3. CASE UNCHANGED vars BY <4>3 DEF ToCome, vars
      <4> QED BY <2>6, <4>1, <4>2, <4>3
    <3>2. /\ tx' = tx /\ mode' = mode /\ running' = running /\ step' = step /\ reply' = reply
          /\ execs' = execs /\ call' = call
      BY <2>6 DEF Says, Read, hostVars, boardVars, vars
    <3>3. Output(execs)' = Output(execs) /\ Ended(execs)' = Ended(execs)
      BY <3>2 DEF Output, Ended
    <3> QED BY <1>1, <2>2, <3>1, <3>2, <3>3 DEF ExecKept
  <2> QED BY <2>1, <2>3, <2>4, <2>5, <2>6 DEF Board
<1>2. CASE call # "exec"
  <2>1. ExecStarts \/ ResetReturns
    BY <1>2 DEF Next, Dial, Host, Board, vars, hostVars, Opens, Interrupts, EntersRaw, Connects,
         DialTimesOut, GivesUp, Read, Pumps, ExecReturns, ExecTimesOut, ResetStarts,
         Breaks, Leaves, Restarts, Stops, Sends, Reenters, ResetRaises, PortRaises, Close,
         Says, Obeys, Finishes, IsInterrupted, Chatters, Answered, Awaited
  <2>2. CASE ExecStarts
    <3>1. ~doubted BY <2>2 DEF ExecStarts
    <3> QED BY <2>2, <3>1, ExecOnClean
  <2>3. CASE ResetReturns BY <2>3, ExecOnResync
  <2> QED BY <2>1, <2>2, <2>3
<1> QED BY <1>1, <1>2

-----------------------------------------------------------------------------
\* Code and replies.

LEMMA FreshInit == Init => CodeIsFresh
<1>1. Init => tx = <<>> BY DEF Init
<1> QED BY <1>1 DEF CodeIsFresh

LEMMA FreshStep ==
  ASSUME TypeOK, TypeOK', HostKept, LineKept, ModeKept, PromptsAwaited, LineInStep,
         CodeIsFresh, [Next]_vars
  PROVE  CodeIsFresh'
<1> SUFFICES ASSUME ~doubted'
             PROVE  \A i \in DOMAIN tx' : tx'[i].kind = "code" => tx'[i].of > barred'
  BY DEF CodeIsFresh
<1> DEFINE X == {t \in Inputs : t.kind = "code" => t.of > barred'}
<1>0. /\ MaxExecs \in Nat /\ execs \in 0 .. MaxExecs /\ barred \in 0 .. MaxExecs
      /\ barred' \in 0 .. MaxExecs /\ barred <= execs
      /\ tx \in Seq(Inputs) /\ \A i \in DOMAIN tx : tx[i] \in Inputs
  <2>1. tx \in Seq(Inputs) BY DEF TypeOK
  <2>2. \A i \in DOMAIN tx : tx[i] \in Inputs BY <2>1, SeqPlaces
  <2> QED BY <2>1, <2>2, BoundsAssumption DEF TypeOK, HostKept
<1>1. \A key \in {"A", "B", "C", "D"} : Ctrl(key) \in X BY InputFacts
<1>2. execs = 0 => \A i \in DOMAIN tx : tx[i] \in X
  <2> SUFFICES ASSUME execs = 0, NEW i \in DOMAIN tx PROVE tx[i] \in X OBVIOUS
  <2>1. tx[i] \in Inputs /\ tx[i].of <= 0 BY <1>0 DEF LineKept
  <2>2. tx[i].kind = "code" => tx[i].of \in Execs BY <2>1, InputFacts
  <2>3. tx[i].kind # "code" BY <1>0, <2>1, <2>2 DEF Execs
  <2> QED BY <2>1, <2>3
<1>3. ASSUME ResetReturns
      PROVE  /\ \A i \in DOMAIN tx : tx[i] \in X
             /\ call = "resync" => Code(execs) \in X
  <2>1. \A i \in DOMAIN tx : tx[i] \in X
    <3>1. CASE dial = "done"
      <4>1. tx = <<>> BY <1>3, <3>1, ResyncSynced
      <4> QED BY <4>1
    <3>2. CASE dial # "done"
      <4>1. execs = 0 BY <3>2 DEF HostKept
      <4> QED BY <1>2, <4>1
    <3> QED BY <3>1, <3>2
  <2>2. call = "resync" => Code(execs) \in X
    <3> SUFFICES ASSUME call = "resync" PROVE Code(execs) \in X OBVIOUS
    <3>1. execs \in Execs /\ barred' = execs - 1
      BY <1>0, <1>3 DEF HostKept, Execs, ResetReturns
    <3>2. Code(execs) \in Inputs /\ Code(execs).of = execs BY <3>1, InputFacts
    <3>3. execs > barred' BY <1>0, <3>1
    <3> QED BY <3>2, <3>3
  <2> QED BY <2>1, <2>2
<1>4. ASSUME Connects
      PROVE  \A i \in DOMAIN tx : tx[i] \in X
  <2>1. execs = 0 BY <1>4 DEF HostKept, Connects
  <2> QED BY <1>2, <2>1
<1>5. ASSUME ~ResetReturns, ~Connects
      PROVE  barred' = barred /\ \A i \in DOMAIN tx : tx[i] \in X
  <2>1. barred' = barred
    BY <1>5 DEF Next, Dial, Host, Board, vars, hostVars, Opens, Interrupts, EntersRaw,
         DialTimesOut, GivesUp, Read, ExecStarts, Pumps, ExecReturns, ExecTimesOut, ResetStarts,
         Breaks, Leaves, Restarts, Stops, Sends, Reenters, ResetRaises, PortRaises, Close,
         Says, Obeys, Finishes, IsInterrupted, Chatters
  <2>2. ~doubted BY <1>5, StillDoubted
  <2> QED BY <1>0, <2>1, <2>2 DEF CodeIsFresh
<1>6. ExecStarts => Code(execs + 1) \in X
  <2> SUFFICES ASSUME ExecStarts PROVE Code(execs + 1) \in X OBVIOUS
  <2>1. execs + 1 \in Execs BY <1>0 DEF ExecStarts, Execs
  <2>2. Code(execs + 1) \in Inputs /\ Code(execs + 1).of = execs + 1 BY <2>1, InputFacts
  <2>3. barred' = barred BY DEF ExecStarts
  <2>4. execs + 1 > barred' BY <1>0, <2>3
  <2> QED BY <2>2, <2>4
<1>7. \A i \in DOMAIN tx : tx[i] \in X BY <1>3, <1>4, <1>5
<1>8. ResetReturns /\ call = "resync" => Code(execs) \in X BY <1>3
<1>9. tx' \in Seq(X)
  <2> HIDE DEF X
  <2>1. tx \in Seq(X) BY <1>7, SentOf
  <2> QED BY <1>1, <1>6, <1>8, <2>1, SentStep
<1>10. \A i \in DOMAIN tx' : tx'[i] \in X BY <1>9, SeqPlaces
<1> QED BY <1>10

LEMMA ReplyInit == Init => ReplyIsOwn
BY DEF Init, ReplyIsOwn

LEMMA ReplyStep ==
  ASSUME TypeOK, HostKept, ExecKept, ReplyIsOwn, [Next]_vars
  PROVE  ReplyIsOwn'
<1> SUFFICES ASSUME call' = "none", Len(reply') = 2, ~doubted'
             PROVE  \A i \in 1 .. 2 : reply'[i] = {execs'}
  BY DEF ReplyIsOwn
<1>1. reply' # <<>>
  <2>1. Len(<<>>) = 0 OBVIOUS
  <2> QED BY <2>1
<1>2. CASE ExecReturns
  <2>1. call = "exec" /\ step = "prompt" /\ reply' = reply /\ execs' = execs /\ doubted' = doubted
    BY <1>2 DEF ExecReturns
  <2>2. reply = <<{execs}, {execs}>> BY <2>1 DEF ExecKept
  <2> QED BY <2>1, <2>2
<1>3. CASE ~ExecReturns
  <2>1. \/ reply' = <<>>
        \/ call = "none" /\ reply' = reply /\ execs' = execs /\ (doubted => doubted')
    <3>1. CASE Dial
      <4>1. doubted => doubted'
        <5>1. doubted' = doubted \/ doubted' = (doubted \/ step = "restart")
          BY <3>1 DEF Dial, hostVars, Opens, Interrupts, EntersRaw, Connects, DialTimesOut,
               GivesUp, Read
        <5> QED BY <5>1
      <4>2. /\ reply' = reply /\ execs' = execs
            /\ call = "none" \/ call = "connect"
        BY <3>1 DEF Dial, hostVars, Opens, Interrupts, EntersRaw, Connects, DialTimesOut,
             GivesUp, Read, Answered, Awaited
      <4> QED BY <4>1, <4>2 DEF HostKept
    <3>2. CASE \/ ExecStarts \/ ResetStarts \/ Close \/ Pumps
               \/ Breaks \/ Leaves \/ Restarts \/ Stops \/ Reenters
      BY <3>2 DEF HostKept, InReset, ExecStarts, ResetStarts, Close, Pumps, Breaks, Leaves,
         Restarts, Stops, Reenters, Sends
    <3>3. CASE ExecTimesOut \/ PortRaises BY <3>3 DEF ExecTimesOut, PortRaises
    <3>4. CASE ResetReturns \/ ResetRaises
      BY <3>4 DEF HostKept, ResetReturns, ResetRaises
    <3>5. CASE (\E m : Read(m)) \/ Board \/ UNCHANGED vars
      BY <3>5 DEF Board, vars, hostVars, Read, Says, Obeys, Finishes, IsInterrupted, Chatters
    <3> QED BY <1>3, <3>1, <3>2, <3>3, <3>4, <3>5, Zenon DEF Next, Host
  <2> QED BY <1>1, <2>1 DEF ReplyIsOwn
<1> QED BY <1>2, <1>3

-----------------------------------------------------------------------------
\* The theorems.

\* Every variable keeps its type, and the inductive invariant holds: SerialBoard's threads
\* and the board's REPL never leave the states that LinkInv describes.
THEOREM LinkIsKept == Spec => [](TypeOK /\ LinkInv)
<1>1. Init => TypeOK /\ LinkInv
  BY TypeInit, HostInit, LineInit, FriendlyInit, ModeInit, PromptsInit, WayInit, ExecInit,
     FreshInit, ReplyInit
  DEF LinkInv
<1>2. TypeOK /\ LinkInv /\ [Next]_vars => (TypeOK /\ LinkInv)'
  <2> SUFFICES ASSUME TypeOK, LinkInv, [Next]_vars PROVE TypeOK' /\ LinkInv' OBVIOUS
  <2>1. /\ HostKept /\ LineKept /\ ResetsAreFriendly /\ ModeKept /\ PromptsAwaited
        /\ LineInStep /\ ExecKept /\ CodeIsFresh /\ ReplyIsOwn
    BY DEF LinkInv
  <2>2. TypeOK' BY <2>1, TypeStep
  <2>3. HostKept' BY <2>1, HostStep
  <2>4. LineKept' BY <2>1, <2>2, LineStep
  <2>5. ResetsAreFriendly' BY <2>1, <2>2, FriendlyStep
  <2>6. ModeKept' BY <2>1, <2>2, ModeStep
  <2>7. PromptsAwaited' BY <2>1, <2>2, PromptsStep
  <2>8. LineInStep' BY <2>1, <2>2, WayStep
  <2>9. ExecKept' BY <2>1, <2>2, ExecStep
  <2>10. CodeIsFresh' BY <2>1, <2>2, FreshStep
  <2>11. ReplyIsOwn' BY <2>1, ReplyStep
  <2> QED BY <2>2, <2>3, <2>4, <2>5, <2>6, <2>7, <2>8, <2>9, <2>10, <2>11 DEF LinkInv
<1> QED BY <1>1, <1>2, PTL DEF Spec

\* A reply that _exec_blocking returns without timed_out holds the output of its own code
\* alone: no late prompt, no timed-out exec's sections and no boot chatter gets into it.
THEOREM RepliesAreOwn == Spec => []ReplyIsOwn
<1>1. TypeOK /\ LinkInv => ReplyIsOwn BY DEF LinkInv
<1> QED BY LinkIsKept, <1>1, PTL

\* A connected SerialBoard at rest whose _dirty is FALSE is in step with the board: it is
\* idle at the raw prompt, has read everything, and owes nothing but a trailing prompt.
THEOREM CleanMeansSynced == Spec => []CleanLineIsSynced
<1>1. TypeOK /\ LinkInv => CleanLineIsSynced
  <2> SUFFICES ASSUME TypeOK, LinkInv, AtRest, connected, ~dirty, ~doubted PROVE Synced
    BY DEF CleanLineIsSynced
  <2>1. HostKept /\ PromptsAwaited /\ LineInStep BY DEF LinkInv
  <2>2. call = "none" BY DEF AtRest
  <2>3. port BY <2>1, <2>2 DEF HostKept
  <2> QED BY <2>1, <2>2, <2>3, CleanSynced
<1> QED BY LinkIsKept, <1>1, PTL

\* Code written before _soft_reset_blocking got its raw prompt never starts behind it: an
\* exec that was reported as timed out does not run late.
THEOREM NoStaleCode == Spec => StaleCodeNeverRuns
<1>1. TypeOK /\ LinkInv /\ [Next]_vars =>
        [running' \in Execs /\ running' # running /\ ~doubted => running' > barred]_vars
  <2> SUFFICES ASSUME TypeOK, LinkInv, [Next]_vars,
                      running' \in Execs, running' # running, ~doubted
               PROVE  running' > barred
    OBVIOUS
  <2>1. HostKept /\ CodeIsFresh BY DEF LinkInv
  <2>2. running' # Nothing /\ running' # Boot
    <3>1. MaxExecs \in Nat BY BoundsAssumption
    <3> QED BY <3>1 DEF Execs, Nothing, Boot
  <2>3. Obeys
    <3>1. CASE Dial \/ Host BY <2>1, <3>1, HostSends
    <3>2. CASE Finishes \/ IsInterrupted \/ Chatters BY <2>2, <3>2, RunsStep DEF Runs
    <3>3. CASE Says \/ UNCHANGED vars BY <3>3 DEF Says, vars
    <3> QED BY <3>1, <3>2, <3>3 DEF Next, Board
  <2>4. 1 \in 1 .. Len(tx) /\ Answer(tx[1]) /\ DOMAIN tx = 1 .. Len(tx)
    BY <2>3, ObeysStep, Types
  <2>5. tx[1].kind = "code" /\ running' = tx[1].of BY <2>2, <2>4 DEF Answer
  <2> QED BY <2>1, <2>4, <2>5 DEF CodeIsFresh
<1> QED BY LinkIsKept, <1>1, PTL DEF Spec, StaleCodeNeverRuns
=============================================================================
