------------------------- MODULE DriverVerdictsProofs -------------------------
(***************************************************************************)
(* The verdicts on a driver and its readings, for any programs, specs,     *)
(* samples, windows and thresholds that keep the named assumptions, and    *)
(* for series of any length.                                               *)
(***************************************************************************)
EXTENDS DriverVerdicts, SequenceTheorems, FiniteSetTheorems, WellFoundedInduction, TLAPS

-----------------------------------------------------------------------------
\* Numbers.

\* A set of numbers has a least element: what induction over numbers rests on here.
LEMMA LeastNumber ==
  ASSUME NEW T, T \subseteq Nat, T # {}
  PROVE  \E x \in T : \A y \in T : x <= y
<1> DEFINE R == OpToRel(<, Nat)
<1>1. IsWellFoundedOn(R, Nat) BY NatLessThanWellFounded
<1>2. \A x, y \in Nat : <<y, x>> \in R <=> y < x BY DEF OpToRel
<1> HIDE DEF R
<1>3. PICK x \in T : \A y \in T : ~(<<y, x>> \in R) BY <1>1, WFMin
<1>4. ASSUME NEW y \in T PROVE x <= y
  <2>1. x \in Nat /\ y \in Nat OBVIOUS
  <2>2. ~(y < x) BY <1>2, <1>3, <2>1
  <2> QED BY <2>1, <2>2
<1> QED BY <1>4

\* A positive factor may be cancelled.
LEMMA Cancel ==
  ASSUME NEW c \in Int, c > 0, NEW x \in Int, NEW y \in Int
  PROVE  (c * x < c * y <=> x < y) /\ (c * x <= c * y <=> x <= y)
<1>1. ASSUME NEW u \in Int, NEW v \in Int, u < v PROVE c * u < c * v
  <2>1. v - u \in Nat /\ v - u > 0 BY <1>1
  <2>2. c * (v - u) > 0 BY <2>1
  <2>3. c * (v - u) = c * v - c * u OBVIOUS
  <2>4. c * v \in Int /\ c * u \in Int OBVIOUS
  <2> QED BY <2>2, <2>3, <2>4
<1>2. c * x \in Int /\ c * y \in Int OBVIOUS
<1>3. CASE x < y BY <1>1, <1>2, <1>3
<1>4. CASE x = y BY <1>2, <1>4
<1>5. CASE y < x
  <2>1. c * y < c * x BY <1>1, <1>5
  <2> QED BY <1>2, <1>5, <2>1
<1> QED BY <1>3, <1>4, <1>5

\* A square is positive.
LEMMA SquarePositive ==
  ASSUME NEW a \in Int, a # 0
  PROVE  a * a \in Int /\ a * a > 0
<1>1. CASE a > 0 BY <1>1
<1>2. CASE a < 0
  <2>1. (-a) * (-a) > 0 /\ (-a) * (-a) = a * a BY <1>2
  <2> QED BY <2>1
<1> QED BY <1>1, <1>2

-----------------------------------------------------------------------------
\* Series.

\* A series of one value or more has a tallest one, at some place.
LEMMA TallestExists ==
  ASSUME NEW s \in Seq(Int), s # <<>>
  PROVE  \E m \in 1 .. Len(s) : \A i \in 1 .. Len(s) : s[i] <= s[m]
<1>0. Len(s) \in Nat /\ Len(s) >= 1 /\ \A i \in 1 .. Len(s) : s[i] \in Int OBVIOUS
<1> DEFINE Has(n) == \E m \in 1 .. n : \A i \in 1 .. n : s[i] <= s[m]
           T == {n \in 1 .. Len(s) : ~Has(n)}
<1>1. SUFFICES ASSUME T # {} PROVE FALSE
  <2>1. Len(s) \in 1 .. Len(s) BY <1>0
  <2> QED BY <2>1
<1>2. T \subseteq Nat BY <1>0
<1>3. PICK n \in T : \A y \in T : n <= y BY <1>1, <1>2, LeastNumber
<1>4. n \in 1 .. Len(s) /\ ~Has(n) OBVIOUS
<1>5. n # 1
  <2>1. 1 \in 1 .. 1 /\ \A i \in 1 .. 1 : i = 1 OBVIOUS
  <2>2. s[1] \in Int BY <1>0
  <2>3. \A x \in Int : x <= x OBVIOUS
  <2>4. Has(1) BY <2>1, <2>2, <2>3
  <2> QED BY <1>4, <2>4
<1>6. n - 1 \in 1 .. Len(s) /\ ~(n <= n - 1) BY <1>0, <1>4, <1>5
<1>7. n - 1 \notin T BY <1>3, <1>6
<1>8. PICK m \in 1 .. n - 1 : \A i \in 1 .. n - 1 : s[i] <= s[m] BY <1>6, <1>7
<1> HIDE DEF T
<1>9. \A i \in 1 .. n : i \in 1 .. n - 1 \/ i = n BY <1>0, <1>4
<1>10. m \in 1 .. n /\ n \in 1 .. n /\ s[n] \in Int /\ s[m] \in Int BY <1>0, <1>4, <1>8
<1>11. CASE s[n] <= s[m]
  <2>1. \A i \in 1 .. n : s[i] <= s[m] BY <1>8, <1>9, <1>11
  <2> QED BY <1>4, <1>10, <2>1
<1>12. CASE s[m] < s[n]
  <2>1. \A i \in 1 .. n - 1 : s[i] \in Int BY <1>0, <1>4
  <2>2. \A i \in 1 .. n - 1 : s[i] <= s[n] BY <1>8, <1>10, <1>12, <2>1
  <2>3. \A i \in 1 .. n : s[i] <= s[n] BY <1>9, <1>10, <2>2
  <2> QED BY <1>4, <1>10, <2>3
<1> QED BY <1>10, <1>11, <1>12

\* Tallest and Lowest are the values at such places.
LEMMA TallestIs ==
  ASSUME NEW s \in Seq(Int), NEW m \in 1 .. Len(s), \A i \in 1 .. Len(s) : s[i] <= s[m]
  PROVE  Tallest(s) = s[m]
<1> DEFINE S == {s[i] : i \in DOMAIN s}
<1>1. DOMAIN s = 1 .. Len(s) /\ \A i \in 1 .. Len(s) : s[i] \in Int OBVIOUS
<1>2. s[m] \in S /\ \A b \in S : b <= s[m] BY <1>1
<1>3. ASSUME NEW a \in S, \A b \in S : b <= a PROVE a = s[m]
  <2>1. a \in Int /\ s[m] \in Int BY <1>1
  <2>2. a <= s[m] /\ s[m] <= a BY <1>2, <1>3
  <2> QED BY <2>1, <2>2
<1> HIDE DEF S
<1>4. Largest(S) \in S /\ \A b \in S : b <= Largest(S) BY <1>2 DEF Largest
<1>5. Tallest(s) = Largest(S) BY DEF Tallest, S
<1> QED BY <1>3, <1>4, <1>5

LEMMA LowestIs ==
  ASSUME NEW s \in Seq(Int), NEW m \in 1 .. Len(s), \A i \in 1 .. Len(s) : s[m] <= s[i]
  PROVE  Lowest(s) = s[m]
<1> DEFINE S == {s[i] : i \in DOMAIN s}
<1>1. DOMAIN s = 1 .. Len(s) /\ \A i \in 1 .. Len(s) : s[i] \in Int OBVIOUS
<1>2. s[m] \in S /\ \A i \in DOMAIN s : s[m] <= s[i] BY <1>1
<1>3. ASSUME NEW a \in S, \A i \in DOMAIN s : a <= s[i] PROVE a = s[m]
  <2>1. a \in Int /\ s[m] \in Int BY <1>1
  <2>2. PICK j \in DOMAIN s : a = s[j] OBVIOUS
  <2>3. a <= s[m] /\ s[m] <= a BY <1>1, <1>2, <1>3, <2>2
  <2> QED BY <2>1, <2>3
<1>4. Lowest(s) = CHOOSE v \in S : \A i \in DOMAIN s : v <= s[i] BY DEF Lowest
<1> HIDE DEF S
<1>5. Lowest(s) \in S /\ \A i \in DOMAIN s : Lowest(s) <= s[i] BY <1>2, <1>4
<1> QED BY <1>3, <1>5

\* f lists the sums of the first values of s.
Sums(f, s) == f = [k \in 0 .. Len(s) |-> IF k = 0 THEN 0 ELSE f[k - 1] + s[k]]

LEMMA SumsExist ==
  ASSUME NEW s \in Seq(Int)
  PROVE  \E f : Sums(f, s)
<1> DEFINE Lists(f, n) == f = [k \in 0 .. n |-> IF k = 0 THEN 0 ELSE f[k - 1] + s[k]]
           T == {n \in Nat : ~\E f : Lists(f, n)}
<1>1. SUFFICES ASSUME T # {} PROVE FALSE BY DEF Sums
<1>2. T \subseteq Nat OBVIOUS
<1>3. PICK n \in T : \A y \in T : n <= y BY <1>1, <1>2, LeastNumber
<1>4. n \in Nat /\ ~\E f : Lists(f, n) OBVIOUS
<1>5. n # 0
  <2>1. Lists([k \in 0 .. 0 |-> 0], 0) OBVIOUS
  <2> QED BY <1>4, <2>1
<1>6. n - 1 \in Nat /\ ~(n <= n - 1) BY <1>4, <1>5
<1>7. n - 1 \notin T BY <1>3, <1>6
<1>8. PICK g : Lists(g, n - 1) BY <1>6, <1>7
<1> DEFINE f == [k \in 0 .. n |-> IF k = n THEN g[n - 1] + s[n] ELSE g[k]]
<1>9. ASSUME NEW k \in 0 .. n PROVE f[k] = IF k = 0 THEN 0 ELSE f[k - 1] + s[k]
  <2>1. \A j \in 0 .. n - 1 : g[j] = IF j = 0 THEN 0 ELSE g[j - 1] + s[j] BY <1>8
  <2>2. CASE k = n
    <3>1. n - 1 \in 0 .. n /\ n - 1 # n BY <1>4, <1>5
    <3>2. f[n - 1] = g[n - 1] BY <3>1
    <3> QED BY <1>5, <2>2, <3>2
  <2>3. CASE k # n
    <3>1. k \in 0 .. n - 1 BY <1>4, <2>3
    <3>2. f[k] = g[k] BY <2>3
    <3>3. CASE k = 0 BY <2>1, <3>1, <3>2, <3>3
    <3>4. CASE k # 0
      <4>1. k - 1 \in 0 .. n /\ k - 1 # n BY <1>4, <3>1, <3>4
      <4>2. f[k - 1] = g[k - 1] BY <4>1
      <4> QED BY <2>1, <3>1, <3>2, <3>4, <4>2
    <3> QED BY <3>3, <3>4
  <2> QED BY <2>2, <2>3
<1>10. f = [k \in 0 .. n |-> f[k]] OBVIOUS
<1>11. [k \in 0 .. n |-> f[k]] = [k \in 0 .. n |-> IF k = 0 THEN 0 ELSE f[k - 1] + s[k]]
  BY <1>9
<1> HIDE DEF f
<1>12. Lists(f, n) BY <1>10, <1>11
<1> QED BY <1>4, <1>12

\* Total is the last of them, and whole.
LEMMA TotalIsLast ==
  ASSUME NEW s \in Seq(Int)
  PROVE  \E f : /\ Total(s) = f[Len(s)] /\ f[0] = 0
                /\ \A k \in 0 .. Len(s) : f[k] \in Int
                /\ \A k \in 1 .. Len(s) : f[k] = f[k - 1] + s[k]
<1>0. Len(s) \in Nat /\ \A i \in 1 .. Len(s) : s[i] \in Int OBVIOUS
<1> DEFINE g == CHOOSE f : Sums(f, s)
<1>1. Sums(g, s) BY SumsExist
<1>2. Total(s) = g[Len(s)] BY DEF Total, Sums
<1> HIDE DEF g
<1>3. \A k \in 0 .. Len(s) : g[k] = IF k = 0 THEN 0 ELSE g[k - 1] + s[k]
  BY <1>1 DEF Sums
<1>4. g[0] = 0 BY <1>0, <1>3
<1>5. \A k \in 1 .. Len(s) : g[k] = g[k - 1] + s[k] BY <1>0, <1>3
<1> DEFINE T == {k \in 0 .. Len(s) : g[k] \notin Int}
<1>6. T = {}
  <2> SUFFICES ASSUME T # {} PROVE FALSE OBVIOUS
  <2>1. T \subseteq Nat BY <1>0
  <2>2. PICK n \in T : \A y \in T : n <= y BY <2>1, LeastNumber
  <2>3. n \in 0 .. Len(s) /\ g[n] \notin Int OBVIOUS
  <2>4. n # 0 BY <1>4, <2>3
  <2>5. n - 1 \in 0 .. Len(s) /\ ~(n <= n - 1) /\ n \in 1 .. Len(s) BY <1>0, <2>3, <2>4
  <2>6. n - 1 \notin T BY <2>2, <2>5
  <2>7. g[n - 1] \in Int BY <2>5, <2>6
  <2>8. g[n] = g[n - 1] + s[n] /\ s[n] \in Int BY <1>0, <1>5, <2>5
  <2> HIDE DEF T
  <2> QED BY <2>3, <2>7, <2>8
<1>7. \A k \in 0 .. Len(s) : g[k] \in Int BY <1>6
<1> QED BY <1>2, <1>4, <1>5, <1>7

LEMMA TotalType ==
  ASSUME NEW s \in Seq(Int)
  PROVE  Total(s) \in Int
<1>1. Len(s) \in 0 .. Len(s) OBVIOUS
<1> QED BY <1>1, TotalIsLast

\* The total of a linear combination of two series.
Linear(t, s, q, c, a, d) == \A i \in 1 .. Len(s) : t[i] = c + a * s[i] + d * q[i]

LEMMA TotalLinear ==
  ASSUME NEW s \in Seq(Int), NEW q \in Seq(Int), NEW t \in Seq(Int),
         Len(q) = Len(s), Len(t) = Len(s),
         NEW c \in Int, NEW a \in Int, NEW d \in Int,
         Linear(t, s, q, c, a, d)
  PROVE  Total(t) = c * Len(s) + a * Total(s) + d * Total(q)
<1>0. /\ Len(s) \in Nat
      /\ \A i \in 1 .. Len(s) : s[i] \in Int /\ q[i] \in Int /\ t[i] \in Int
  BY ElementOfSeq
<1>1. PICK f : /\ Total(s) = f[Len(s)] /\ f[0] = 0
               /\ \A k \in 0 .. Len(s) : f[k] \in Int
               /\ \A k \in 1 .. Len(s) : f[k] = f[k - 1] + s[k]
  BY TotalIsLast
<1>2. PICK g : /\ Total(q) = g[Len(q)] /\ g[0] = 0
               /\ \A k \in 0 .. Len(q) : g[k] \in Int
               /\ \A k \in 1 .. Len(q) : g[k] = g[k - 1] + q[k]
  BY TotalIsLast
<1>3. PICK h : /\ Total(t) = h[Len(t)] /\ h[0] = 0
               /\ \A k \in 0 .. Len(t) : h[k] \in Int
               /\ \A k \in 1 .. Len(t) : h[k] = h[k - 1] + t[k]
  BY TotalIsLast
<1> DEFINE T == {k \in 0 .. Len(s) : h[k] # c * k + a * f[k] + d * g[k]}
<1>4. SUFFICES ASSUME T # {} PROVE FALSE
  <2>1. Len(s) \in 0 .. Len(s) BY <1>0
  <2> QED BY <1>1, <1>2, <1>3, <2>1
<1>5. T \subseteq Nat BY <1>0
<1>6. PICK n \in T : \A y \in T : n <= y BY <1>4, <1>5, LeastNumber
<1>7. n \in 0 .. Len(s) /\ h[n] # c * n + a * f[n] + d * g[n] OBVIOUS
<1>8. n # 0
  <2>1. h[0] = c * 0 + a * f[0] + d * g[0] BY <1>1, <1>2, <1>3
  <2> QED BY <1>7, <2>1
<1>9. n - 1 \in 0 .. Len(s) /\ ~(n <= n - 1) /\ n \in 1 .. Len(s) BY <1>0, <1>7, <1>8
<1>10. h[n - 1] = c * (n - 1) + a * f[n - 1] + d * g[n - 1] BY <1>6, <1>9
<1> HIDE DEF T
<1> DEFINE f0 == f[n - 1]  g0 == g[n - 1]  x == s[n]  y == q[n]
<1>11. /\ h[n] = h[n - 1] + (c + a * x + d * y)
       /\ f[n] = f0 + x /\ g[n] = g0 + y
  BY <1>1, <1>2, <1>3, <1>9 DEF Linear
<1>12. f0 \in Int /\ g0 \in Int BY <1>1, <1>2, <1>9
<1>13. x \in Int /\ y \in Int /\ n \in Int BY <1>0, <1>9
<1>14. h[n - 1] = c * (n - 1) + a * f0 + d * g0 BY <1>10
<1> HIDE DEF f0, g0, x, y
<1>15. /\ c * n = c * (n - 1) + c /\ a * (f0 + x) = a * f0 + a * x
       /\ d * (g0 + y) = d * g0 + d * y
  BY <1>12, <1>13
<1>16. /\ c * (n - 1) \in Int /\ a * f0 \in Int /\ a * x \in Int
       /\ d * g0 \in Int /\ d * y \in Int
  BY <1>12, <1>13
<1>17. h[n] = c * n + a * (f0 + x) + d * (g0 + y) BY <1>11, <1>14, <1>15, <1>16
<1> QED BY <1>7, <1>11, <1>17

\* A stretch of a series.
LEMMA StretchPlaces ==
  ASSUME NEW S, NEW s \in Seq(S), NEW m \in Int, NEW n \in Int, 1 <= m, n <= Len(s), m <= n + 1
  PROVE  /\ SubSeq(s, m, n) \in Seq(S) /\ Len(SubSeq(s, m, n)) = n - m + 1
         /\ \A i \in 1 .. n - m + 1 : SubSeq(s, m, n)[i] = s[m + i - 1]
<1>1. \A i \in m .. n : s[i] \in S BY ElementOfSeq
<1> QED BY <1>1, SubSeqProperties

-----------------------------------------------------------------------------
\* A series in another unit, all its values scaled and shifted.

Scaled(s, a, b) == [i \in DOMAIN s |-> a * s[i] + b]

LEMMA ScaledPlaces ==
  ASSUME NEW s \in Seq(Int), NEW a \in Int, NEW b \in Int
  PROVE  /\ Scaled(s, a, b) \in Seq(Int) /\ Len(Scaled(s, a, b)) = Len(s) /\ Len(s) \in Nat
         /\ DOMAIN Scaled(s, a, b) = 1 .. Len(s) /\ DOMAIN s = 1 .. Len(s)
         /\ \A i \in 1 .. Len(s) : s[i] \in Int /\ Scaled(s, a, b)[i] = a * s[i] + b
<1> DEFINE t == [i \in 1 .. Len(s) |-> a * s[i] + b]
<1>1. DOMAIN s = 1 .. Len(s) /\ Len(s) \in Nat /\ \A i \in 1 .. Len(s) : s[i] \in Int
  OBVIOUS
<1>2. \A i \in 1 .. Len(s) : a * s[i] + b \in Int BY <1>1
<1>3. t \in Seq(Int) /\ Len(t) = Len(s) BY <1>1, <1>2
<1>4. Scaled(s, a, b) = t BY <1>1 DEF Scaled
<1> QED BY <1>1, <1>3, <1>4

LEMMA ScaledStretch ==
  ASSUME NEW s \in Seq(Int), NEW a \in Int, NEW b \in Int,
         NEW m \in Int, NEW n \in Int, 1 <= m, n <= Len(s), m <= n + 1
  PROVE  SubSeq(Scaled(s, a, b), m, n) = Scaled(SubSeq(s, m, n), a, b)
<1> DEFINE t == Scaled(s, a, b)  p == SubSeq(s, m, n)  k == n - m + 1
<1>1. /\ t \in Seq(Int) /\ Len(t) = Len(s) /\ Len(s) \in Nat
      /\ \A i \in 1 .. Len(s) : t[i] = a * s[i] + b
  BY ScaledPlaces
<1>2. p \in Seq(Int) /\ Len(p) = k /\ \A i \in 1 .. k : p[i] = s[m + i - 1] BY StretchPlaces
<1>3. /\ SubSeq(t, m, n) \in Seq(Int) /\ Len(SubSeq(t, m, n)) = k
      /\ \A i \in 1 .. k : SubSeq(t, m, n)[i] = t[m + i - 1]
  BY <1>1, StretchPlaces
<1>4. /\ Scaled(p, a, b) \in Seq(Int) /\ Len(Scaled(p, a, b)) = k
      /\ \A i \in 1 .. k : Scaled(p, a, b)[i] = a * p[i] + b
  <2> HIDE DEF p
  <2>0. p \in Seq(Int) BY <1>2
  <2>1. /\ Scaled(p, a, b) \in Seq(Int) /\ Len(Scaled(p, a, b)) = Len(p)
        /\ \A i \in 1 .. Len(p) : Scaled(p, a, b)[i] = a * p[i] + b
    BY <2>0, ScaledPlaces
  <2> QED BY <1>2, <2>1
<1>5. ASSUME NEW i \in 1 .. k PROVE SubSeq(t, m, n)[i] = Scaled(p, a, b)[i]
  <2>1. m + i - 1 \in 1 .. Len(s) BY <1>1
  <2>2. t[m + i - 1] = a * s[m + i - 1] + b BY <1>1, <2>1
  <2> QED BY <1>2, <1>3, <1>4, <2>2
<1> HIDE DEF t, p, k
<1>6. SubSeq(t, m, n) = Scaled(p, a, b) BY <1>3, <1>4, <1>5, SeqEqual
<1> QED BY <1>6 DEF t, p

\* The two windows of a series.
LEMMA Windows ==
  ASSUME NEW s \in Seq(Int), Len(s) >= Recent
  PROVE  /\ Earlier(s) \in Seq(Int) /\ Len(Earlier(s)) = Len(s) - Recent
         /\ Latest(s) \in Seq(Int) /\ Len(Latest(s)) = Recent
         /\ Recent \in Nat \ {0} /\ Len(s) \in Nat
<1>1. Recent \in Nat \ {0} /\ Len(s) \in Nat BY HealthAssumption
<1>2. Earlier(s) \in Seq(Int) /\ Len(Earlier(s)) = Len(s) - Recent
  BY <1>1, StretchPlaces DEF Earlier
<1>3. Latest(s) \in Seq(Int) /\ Len(Latest(s)) = Recent
  BY <1>1, StretchPlaces DEF Latest
<1> QED BY <1>1, <1>2, <1>3

LEMMA ScaledWindows ==
  ASSUME NEW s \in Seq(Int), NEW a \in Int, NEW b \in Int, Len(s) >= Recent
  PROVE  /\ Earlier(Scaled(s, a, b)) = Scaled(Earlier(s), a, b)
         /\ Latest(Scaled(s, a, b)) = Scaled(Latest(s), a, b)
<1>1. Recent \in Nat \ {0} /\ Len(s) \in Nat BY HealthAssumption
<1>2. Len(Scaled(s, a, b)) = Len(s) BY ScaledPlaces
<1>3. SubSeq(Scaled(s, a, b), 1, Len(s) - Recent) = Scaled(SubSeq(s, 1, Len(s) - Recent), a, b)
  BY <1>1, ScaledStretch
<1>4. SubSeq(Scaled(s, a, b), Len(s) - Recent + 1, Len(s))
        = Scaled(SubSeq(s, Len(s) - Recent + 1, Len(s)), a, b)
  <2> DEFINE m == Len(s) - Recent + 1  n == Len(s)
  <2>1. m \in Nat /\ n \in Nat /\ 1 <= m /\ m <= n + 1 /\ n <= Len(s) BY <1>1
  <2> HIDE DEF m, n
  <2>2. SubSeq(Scaled(s, a, b), m, n) = Scaled(SubSeq(s, m, n), a, b) BY <2>1, ScaledStretch
  <2> QED BY <2>2 DEF m, n
<1> QED BY <1>2, <1>3, <1>4 DEF Earlier, Latest

\* Totals follow the values, and a spread the square of the factor.
LEMMA ScaledTotal ==
  ASSUME NEW s \in Seq(Int), NEW a \in Int, NEW b \in Int
  PROVE  Total(Scaled(s, a, b)) = a * Total(s) + b * Len(s)
<1> DEFINE t == Scaled(s, a, b)
<1>1. /\ t \in Seq(Int) /\ Len(t) = Len(s) /\ Len(s) \in Nat
      /\ \A i \in 1 .. Len(s) : s[i] \in Int /\ t[i] = a * s[i] + b
  BY ScaledPlaces
<1> HIDE DEF t
<1>2. Linear(t, s, s, b, a, 0) BY <1>1 DEF Linear
<1>3. Total(t) = b * Len(s) + a * Total(s) + 0 * Total(s)
  BY <1>1, <1>2, TotalLinear
<1>4. Total(s) \in Int BY TotalType
<1> QED BY <1>1, <1>3, <1>4 DEF t

LEMMA SquaresPlaces ==
  ASSUME NEW s \in Seq(Int)
  PROVE  /\ [i \in DOMAIN s |-> s[i] * s[i]] \in Seq(Int)
         /\ Len([i \in DOMAIN s |-> s[i] * s[i]]) = Len(s)
         /\ \A i \in 1 .. Len(s) : [j \in DOMAIN s |-> s[j] * s[j]][i] = s[i] * s[i]
<1> DEFINE q == [i \in DOMAIN s |-> s[i] * s[i]]
<1>1. DOMAIN s = 1 .. Len(s) /\ Len(s) \in Nat /\ \A i \in 1 .. Len(s) : s[i] \in Int
  OBVIOUS
<1>2. \A i \in 1 .. Len(s) : s[i] * s[i] \in Int BY <1>1
<1>3. q \in Seq(Int) /\ Len(q) = Len(s) BY <1>1, <1>2
<1>4. \A i \in 1 .. Len(s) : q[i] = s[i] * s[i] BY <1>1
<1> QED BY <1>3, <1>4

LEMMA SquaredType ==
  ASSUME NEW s \in Seq(Int)
  PROVE  Squared(s) \in Int
<1> DEFINE q == [i \in DOMAIN s |-> s[i] * s[i]]
<1>1. q \in Seq(Int) BY SquaresPlaces
<1>2. Squared(s) = Total(q) BY DEF Squared
<1> HIDE DEF q
<1> QED BY <1>1, <1>2, TotalType

LEMMA ScaledSquared ==
  ASSUME NEW s \in Seq(Int), NEW a \in Int, NEW b \in Int
  PROVE  Squared(Scaled(s, a, b)) = b * b * Len(s) + 2 * a * b * Total(s) + a * a * Squared(s)
<1> DEFINE t == Scaled(s, a, b)
           q == [i \in DOMAIN s |-> s[i] * s[i]]
           r == [i \in DOMAIN t |-> t[i] * t[i]]
<1>1. /\ t \in Seq(Int) /\ Len(t) = Len(s) /\ Len(s) \in Nat
      /\ \A i \in 1 .. Len(s) : s[i] \in Int /\ t[i] = a * s[i] + b
  BY ScaledPlaces
<1> HIDE DEF t
<1>2. q \in Seq(Int) /\ Len(q) = Len(s) /\ \A i \in 1 .. Len(s) : q[i] = s[i] * s[i]
  BY SquaresPlaces
<1>3. r \in Seq(Int) /\ Len(r) = Len(s) /\ \A i \in 1 .. Len(s) : r[i] = t[i] * t[i]
  BY <1>1, SquaresPlaces
<1>4. Squared(t) = Total(r) /\ Squared(s) = Total(q) BY DEF Squared
<1> HIDE DEF q, r
<1>5. ASSUME NEW i \in 1 .. Len(s) PROVE r[i] = b * b + (2 * a * b) * s[i] + (a * a) * q[i]
  <2> DEFINE x == s[i]
  <2>1. x \in Int /\ r[i] = (a * x + b) * (a * x + b) /\ q[i] = x * x BY <1>1, <1>2, <1>3
  <2> HIDE DEF x
  <2>2. (a * x + b) * (a * x + b) = b * b + (2 * a * b) * x + (a * a) * (x * x) BY <2>1
  <2> QED BY <2>1, <2>2 DEF x
<1>6. b * b \in Int /\ 2 * a * b \in Int /\ a * a \in Int OBVIOUS
<1>7. Total(r) = (b * b) * Len(s) + (2 * a * b) * Total(s) + (a * a) * Total(q)
  <2> DEFINE c1 == b * b  c2 == 2 * a * b  c3 == a * a
  <2>1. /\ c1 \in Int /\ c2 \in Int /\ c3 \in Int
        /\ Linear(r, s, q, c1, c2, c3)
    BY <1>5, <1>6 DEF Linear
  <2> HIDE DEF c1, c2, c3
  <2>2. Total(r) = c1 * Len(s) + c2 * Total(s) + c3 * Total(q)
    BY <1>2, <1>3, <2>1, TotalLinear
  <2> QED BY <2>2 DEF c1, c2, c3
<1> QED BY <1>4, <1>7 DEF t

LEMMA SpreadType ==
  ASSUME NEW s \in Seq(Int)
  PROVE  Spread(s) \in Int
<1>0. Len(s) \in Nat OBVIOUS
<1>1. Len(s) \in Int /\ Squared(s) \in Int /\ Total(s) \in Int
  BY <1>0, SquaredType, TotalType
<1> QED BY <1>1 DEF Spread

LEMMA ScaledSpread ==
  ASSUME NEW s \in Seq(Int), NEW a \in Int, NEW b \in Int
  PROVE  Spread(Scaled(s, a, b)) = a * a * Spread(s)
<1> DEFINE t == Scaled(s, a, b)  n == Len(s)  x == Total(s)  y == Squared(s)
<1>0. n \in Nat OBVIOUS
<1>1. n \in Int /\ x \in Int /\ y \in Int BY <1>0, SquaredType, TotalType
<1>2. Len(t) = n BY ScaledPlaces
<1>3. Total(t) = a * x + b * n BY ScaledTotal
<1>4. Squared(t) = b * b * n + 2 * a * b * x + a * a * y BY ScaledSquared
<1>5. Spread(s) = n * y - x * x BY DEF Spread
<1>6. Spread(t) = n * (b * b * n + 2 * a * b * x + a * a * y) - (a * x + b * n) * (a * x + b * n)
  BY <1>2, <1>3, <1>4 DEF Spread
<1> HIDE DEF t, n, x, y
<1>7. n * (b * b * n + 2 * a * b * x + a * a * y) - (a * x + b * n) * (a * x + b * n)
        = a * a * (n * y - x * x)
  BY <1>1
<1> QED BY <1>5, <1>6, <1>7 DEF t

-----------------------------------------------------------------------------
\* The signals of a series in another unit are those of the series.

\* What the drift is measured by, besides the shift of the mean: the absolute floor and
\* the squared deviation of the baseline in the same terms, and whether the shift holds.
Floor(s) == DriftFloor * Len(Earlier(s)) * Len(Latest(s))
Unit(s) == Len(Latest(s)) * Len(Latest(s)) * Spread(Earlier(s))
Held(s) == 4 * Spread(Latest(s)) * Len(Earlier(s)) * Len(Earlier(s)) <= Shift(s) * Shift(s)

\* The score of a shift x where the squared deviation is u.
Score(x, u) ==
  IF u = 0 THEN 100
  ELSE IF x * x < 9 * u THEN 0
  ELSE IF x * x >= 36 * u THEN 100
  ELSE Degrading + ((Sigmas(x, u) - 300) * 66) \div 300

LEMMA DriftTypes ==
  ASSUME NEW s \in Seq(Int), Len(s) >= MinVariance
  PROVE  /\ Shift(s) \in Int /\ Unit(s) \in Int
         /\ Shift(s) = Total(Latest(s)) * Len(Earlier(s)) - Total(Earlier(s)) * Len(Latest(s))
         /\ Floor(s) \in Int /\ Negligible(s) = (Shift(s) <= Floor(s) /\ -Shift(s) <= Floor(s))
         /\ Len(s) >= Recent /\ MinVariance \in Nat /\ Recent \in Nat
<1>1. Recent \in Nat /\ MinVariance \in Nat /\ MinVariance > Recent /\ Len(s) \in Nat
  BY HealthAssumption
<1>2. /\ Earlier(s) \in Seq(Int) /\ Len(Earlier(s)) \in Int
      /\ Latest(s) \in Seq(Int) /\ Len(Latest(s)) \in Int
  BY <1>1, Windows
<1>3. /\ Total(Earlier(s)) \in Int /\ Total(Latest(s)) \in Int
      /\ Spread(Earlier(s)) \in Int
  BY <1>2, TotalType, SpreadType
<1>4. Shift(s) = Total(Latest(s)) * Len(Earlier(s)) - Total(Earlier(s)) * Len(Latest(s))
  BY DEF Shift
<1>5. Negligible(s) = (Shift(s) <= Floor(s) /\ -Shift(s) <= Floor(s))
  BY DEF Negligible, Floor
<1>6. DriftFloor \in Int BY HealthAssumption
<1>7. Shift(s) \in Int BY <1>2, <1>3, <1>4
<1>8. Floor(s) \in Int BY <1>2, <1>6 DEF Floor
<1>9. Unit(s) \in Int BY <1>2, <1>3 DEF Unit
<1> QED BY <1>1, <1>4, <1>5, <1>7, <1>8, <1>9

LEMMA DriftIs ==
  ASSUME NEW s \in Seq(Int)
  PROVE  Drift(s) = IF Len(s) < MinVariance \/ Negligible(s) \/ ~Held(s) THEN 0
                    ELSE Score(Shift(s), Unit(s))
<1> DEFINE x == Shift(s)  u == Unit(s)  held == Held(s)  none == Negligible(s)
<1>0. MinVariance \in Nat /\ Len(s) \in Nat BY HealthAssumption
<1>1. Drift(s) = CASE Len(s) < MinVariance \/ none \/ ~held -> 0
                   [] Len(s) >= MinVariance /\ ~none /\ held /\ u = 0 -> 100
                   [] OTHER -> CASE x * x < 9 * u -> 0
                                 [] x * x >= 36 * u -> 100
                                 [] OTHER -> Degrading + ((Sigmas(x, u) - 300) * 66) \div 300
  BY DEF Drift, Unit, Held
<1>2. CASE Len(s) < MinVariance \/ none \/ ~held
  BY <1>0, <1>1, <1>2
<1>3. CASE ~(Len(s) < MinVariance \/ none \/ ~held)
  <2>1. Len(s) >= MinVariance BY <1>0, <1>3
  <2>2. x \in Int /\ u \in Int BY <2>1, DriftTypes
  <2> DEFINE k == Degrading + ((Sigmas(x, u) - 300) * 66) \div 300  X == x * x
  <2>3. X \in Int BY <2>2
  <2>4. Drift(s) = CASE u = 0 -> 100
                     [] OTHER -> CASE X < 9 * u -> 0 [] X >= 36 * u -> 100 [] OTHER -> k
    BY <1>1, <1>3, <2>1
  <2>5. u = 0 => Drift(s) = 100 BY <2>4
  <2>6. u # 0 => Drift(s) = CASE X < 9 * u -> 0 [] X >= 36 * u -> 100 [] OTHER -> k
    BY <2>4
  <2>7. u # 0 /\ X < 9 * u => ~(X >= 36 * u)
    <3>1. X >= 0 BY <2>2
    <3> QED BY <2>2, <2>3, <3>1
  <2>8. Score(x, u) = IF u = 0 THEN 100 ELSE IF X < 9 * u THEN 0
                      ELSE IF X >= 36 * u THEN 100 ELSE k
    BY DEF Score
  <2> HIDE DEF k, X
  <2>9. Drift(s) = Score(x, u) BY <2>5, <2>6, <2>7, <2>8
  <2> QED BY <1>3, <2>9
<1> QED BY <1>2, <1>3

\* In another unit both sides of each comparison grow by the square of the factor.
LEMMA ScaledSigmas ==
  ASSUME NEW a \in Int, a # 0, NEW x \in Int, NEW u \in Int
  PROVE  Sigmas(a * x, a * a * u) = Sigmas(x, u)
<1> DEFINE c == a * a
           P(k) == k * k * u <= 10000 * x * x /\ 10000 * x * x < (k + 1) * (k + 1) * u
           Q(k) == /\ k * k * (a * a * u) <= 10000 * (a * x) * (a * x)
                   /\ 10000 * (a * x) * (a * x) < (k + 1) * (k + 1) * (a * a * u)
<1>1. c \in Int /\ c > 0 BY SquarePositive
<1>2. ASSUME NEW k \in 300 .. 600 PROVE Q(k) <=> P(k)
  <2> DEFINE y == 10000 * x * x  l == k * k * u  h == (k + 1) * (k + 1) * u
  <2>1. k \in Int /\ y \in Int /\ l \in Int /\ h \in Int OBVIOUS
  <2>2. 10000 * (a * x) * (a * x) = c * y OBVIOUS
  <2>3. k * k * (a * a * u) = c * l BY <2>1
  <2>4. (k + 1) * (k + 1) * (a * a * u) = c * h BY <2>1
  <2>5. P(k) <=> l <= y /\ y < h OBVIOUS
  <2>6. Q(k) <=> c * l <= c * y /\ c * y < c * h BY <2>2, <2>3, <2>4
  <2> HIDE DEF P, Q, c, y, l, h
  <2> QED BY <1>1, <2>1, <2>5, <2>6, Cancel
<1>3. Sigmas(x, u) = CHOOSE k \in 300 .. 600 : P(k) BY DEF Sigmas
<1>4. Sigmas(a * x, a * a * u) = CHOOSE k \in 300 .. 600 : Q(k) BY DEF Sigmas
<1> HIDE DEF P, Q
<1>5. (CHOOSE k \in 300 .. 600 : Q(k)) = (CHOOSE k \in 300 .. 600 : P(k)) BY <1>2, ZenonT(60)
<1> QED BY <1>3, <1>4, <1>5

LEMMA ScaledScore ==
  ASSUME NEW a \in Int, a # 0, NEW x \in Int, NEW u \in Int
  PROVE  Score(a * x, a * a * u) = Score(x, u)
<1> DEFINE c == a * a  X == x * x
<1>1. c \in Int /\ c > 0 /\ X \in Int BY SquarePositive
<1>2. (a * x) * (a * x) = c * X OBVIOUS
<1>3. 9 * (c * u) = c * (9 * u) /\ 36 * (c * u) = c * (36 * u) BY <1>1
<1>4. Sigmas(a * x, c * u) = Sigmas(x, u) BY ScaledSigmas
<1> HIDE DEF c, X
<1>5. c * u = 0 <=> u = 0
  <2>1. c * 0 = 0 BY <1>1
  <2>2. (c * u < c * 0 <=> u < 0) /\ (c * u <= c * 0 <=> u <= 0) BY <1>1, Cancel
  <2>3. c * u \in Int BY <1>1
  <2> QED BY <2>1, <2>2, <2>3
<1>6. c * X < c * (9 * u) <=> X < 9 * u BY <1>1, Cancel
<1>7. c * (36 * u) <= c * X <=> 36 * u <= X BY <1>1, Cancel
<1>8. Score(a * x, c * u) =
        IF c * u = 0 THEN 100
        ELSE IF c * X < 9 * (c * u) THEN 0
        ELSE IF c * X >= 36 * (c * u) THEN 100
        ELSE Degrading + ((Sigmas(x, u) - 300) * 66) \div 300
  BY <1>2, <1>4 DEF Score
<1>9. Score(x, u) =
        IF u = 0 THEN 100
        ELSE IF X < 9 * u THEN 0
        ELSE IF X >= 36 * u THEN 100
        ELSE Degrading + ((Sigmas(x, u) - 300) * 66) \div 300
  BY DEF Score, X
<1>10. c * X \in Int /\ c * u \in Int /\ X \in Int /\ c * (9 * u) \in Int /\ c * (36 * u) \in Int BY <1>1
<1>11. Score(a * x, c * u) = Score(x, u)
  BY <1>3, <1>5, <1>6, <1>7, <1>8, <1>9, <1>10
<1> QED BY <1>11 DEF c

\* Multiplied by a whole number, an integer is no nearer to zero.
LEMMA NoNearer ==
  ASSUME NEW a \in Int, a # 0, NEW d \in Int, NEW f \in Int, a * d <= f, -(a * d) <= f
  PROVE  d <= f /\ -d <= f
<1> DEFINE x == IF d < 0 THEN -d ELSE d  c == IF a < 0 THEN -a ELSE a
<1>1. x \in Int /\ 0 <= x /\ c \in Int /\ 1 <= c OBVIOUS
<1>2. c * x <= f
  <2>1. CASE a < 0 /\ d < 0
    <3>1. (-a) * (-d) = a * d OBVIOUS
    <3> QED BY <2>1, <3>1
  <2>2. CASE a < 0 /\ ~(d < 0)
    <3>1. (-a) * d = -(a * d) OBVIOUS
    <3> QED BY <2>2, <3>1
  <2>3. CASE ~(a < 0) /\ d < 0
    <3>1. a * (-d) = -(a * d) OBVIOUS
    <3> QED BY <2>3, <3>1
  <2>4. CASE ~(a < 0) /\ ~(d < 0) BY <2>4
  <2> QED BY <2>1, <2>2, <2>3, <2>4
<1>3. d <= x /\ -d <= x OBVIOUS
<1> HIDE DEF x, c
<1>4. x <= c * x
  <2>1. CASE x = 0 BY <1>1, <2>1
  <2>2. CASE x > 0
    <3>1. x * 1 <= x * c BY <1>1, <2>2, Cancel
    <3>2. x * 1 = x /\ x * c = c * x BY <1>1
    <3> QED BY <3>1, <3>2
  <2> QED BY <1>1, <2>1, <2>2
<1>5. c * x \in Int BY <1>1
<1> QED BY <1>1, <1>2, <1>3, <1>4, <1>5

\* A factor of a whole number takes no drift below the absolute floor of the code, and
\* lifts over it only what was below: everything else about the drift has no unit.
LEMMA ScaledDrift ==
  ASSUME NEW s \in Seq(Int), NEW a \in Int, a # 0, NEW b \in Int
  PROVE  \/ Drift(Scaled(s, a, b)) = Drift(s)
         \/ Len(s) >= MinVariance /\ Negligible(s)
<1> DEFINE t == Scaled(s, a, b)
<1>1. t \in Seq(Int) /\ Len(t) = Len(s) BY ScaledPlaces
<1>2. CASE Len(s) < MinVariance BY <1>1, <1>2, DriftIs
<1>3. CASE ~(Len(s) < MinVariance)
  <2>0. MinVariance \in Nat /\ Len(s) \in Nat BY HealthAssumption
  <2>1. Len(s) >= MinVariance BY <1>3, <2>0
  <2>2. /\ Shift(s) \in Int /\ Unit(s) \in Int /\ Len(s) >= Recent
        /\ Floor(s) \in Int /\ Negligible(s) = (Shift(s) <= Floor(s) /\ -Shift(s) <= Floor(s))
    BY <2>1, DriftTypes
  <2> DEFINE p == Earlier(s)  r == Latest(s)
             m == Len(p)  n == Len(r)  x == Total(p)  y == Total(r)
             v == Spread(p)  w == Spread(r)  c == a * a
  <2>3. p \in Seq(Int) /\ r \in Seq(Int) /\ m \in Int /\ n \in Int BY <2>2, Windows, HealthAssumption
  <2>4. x \in Int /\ y \in Int /\ v \in Int /\ w \in Int BY <2>3, TotalType, SpreadType
  <2>5. Earlier(t) = Scaled(p, a, b) /\ Latest(t) = Scaled(r, a, b) BY <2>2, ScaledWindows
  <2>6. Len(Earlier(t)) = m /\ Len(Latest(t)) = n BY <2>3, <2>5, ScaledPlaces
  <2>7. Total(Earlier(t)) = a * x + b * m /\ Total(Latest(t)) = a * y + b * n
    BY <2>3, <2>5, ScaledTotal
  <2>8. Spread(Earlier(t)) = a * a * v /\ Spread(Latest(t)) = a * a * w
    BY <2>3, <2>5, ScaledSpread
  <2>9. /\ Shift(s) = y * m - x * n /\ Unit(s) = n * n * v
        /\ Held(s) <=> 4 * w * m * m <= Shift(s) * Shift(s)
    BY <2>1, DriftTypes DEF Unit, Held
  <2>10. /\ Shift(t) = (a * y + b * n) * m - (a * x + b * m) * n
         /\ Unit(t) = n * n * (a * a * v)
         /\ Held(t) <=> 4 * (a * a * w) * m * m <= Shift(t) * Shift(t)
    BY <1>1, <2>1, <2>6, <2>7, <2>8, DriftTypes DEF Unit, Held
  <2> HIDE DEF t, p, r, m, n, x, y, v, w
  <2>11. Shift(t) = a * Shift(s)
    <3>1. (a * y + b * n) * m - (a * x + b * m) * n = a * (y * m - x * n) BY <2>3, <2>4
    <3> QED BY <2>9, <2>10, <3>1
  <2>12. Unit(t) = a * a * Unit(s)
    <3>1. n * n * (a * a * v) = a * a * (n * n * v) BY <2>3, <2>4
    <3> QED BY <2>9, <2>10, <3>1
  <2>13. Held(t) <=> Held(s)
    <3> DEFINE d == Shift(s)  X == d * d  W == 4 * w * m * m
    <3>1. d \in Int /\ X \in Int /\ W \in Int /\ c \in Int /\ c > 0
      BY <2>2, <2>3, <2>4, SquarePositive
    <3>2. 4 * (a * a * w) * m * m = c * W BY <2>3, <2>4
    <3>3. (a * d) * (a * d) = c * X BY <3>1
    <3>4. Shift(t) * Shift(t) = c * X BY <2>11, <3>3
    <3>5. Held(s) <=> W <= X BY <2>9
    <3>6. Held(t) <=> c * W <= c * X BY <2>10, <3>2, <3>4
    <3> HIDE DEF d, X, W, c
    <3> QED BY <3>1, <3>5, <3>6, Cancel
  <2>14. Negligible(t) => Negligible(s)
    <3>1. /\ Floor(t) \in Int
          /\ Negligible(t) = (Shift(t) <= Floor(t) /\ -Shift(t) <= Floor(t))
      BY <1>1, <2>1, DriftTypes
    <3>2. Floor(t) = Floor(s) BY <2>6 DEF Floor, m, n, p, r
    <3> DEFINE d == Shift(s)  f == Floor(s)
    <3>3. d \in Int /\ f \in Int BY <2>2
    <3> HIDE DEF d, f
    <3>4. a * d <= f /\ -(a * d) <= f => d <= f /\ -d <= f BY <3>3, NoNearer
    <3> QED BY <2>2, <2>11, <3>1, <3>2, <3>4 DEF d, f
  <2>15. Score(Shift(t), Unit(t)) = Score(Shift(s), Unit(s))
    <3>1. Score(a * Shift(s), a * a * Unit(s)) = Score(Shift(s), Unit(s))
      BY <2>2, ScaledScore
    <3> QED BY <2>11, <2>12, <3>1
  <2>16. CASE Negligible(s) BY <2>1, <2>16
  <2>17. CASE ~Negligible(s)
    <3>1. Drift(t) = IF ~Held(t) THEN 0 ELSE Score(Shift(t), Unit(t))
      BY <1>1, <1>3, <2>14, <2>17, DriftIs
    <3>2. Drift(s) = IF ~Held(s) THEN 0 ELSE Score(Shift(s), Unit(s))
      BY <1>3, <2>17, DriftIs
    <3> QED BY <2>13, <2>15, <3>1, <3>2 DEF t
  <2> QED BY <2>16, <2>17
<1> QED BY <1>2, <1>3

LEMMA ScaledVariance ==
  ASSUME NEW s \in Seq(Int), NEW a \in Int, a # 0, NEW b \in Int
  PROVE  Variance(Scaled(s, a, b)) = Variance(s)
<1> DEFINE t == Scaled(s, a, b)
<1>1. t \in Seq(Int) /\ Len(t) = Len(s) BY ScaledPlaces
<1>2. CASE ~(Len(s) >= MinVariance) BY <1>1, <1>2 DEF Variance
<1>3. CASE Len(s) >= MinVariance
  <2>2. Len(s) >= Recent BY <1>3, DriftTypes
  <2> DEFINE p == Earlier(s)  r == Latest(s)
             m == Len(p)  n == Len(r)  v == Spread(p)  w == Spread(r)  c == a * a
  <2>3. p \in Seq(Int) /\ r \in Seq(Int) /\ m \in Int /\ n \in Int BY <2>2, Windows, HealthAssumption
  <2>4. v \in Int /\ w \in Int BY <2>3, SpreadType
  <2>5. Earlier(t) = Scaled(p, a, b) /\ Latest(t) = Scaled(r, a, b) BY <2>2, ScaledWindows
  <2>6. Len(Earlier(t)) = m /\ Len(Latest(t)) = n BY <2>3, <2>5, ScaledPlaces
  <2>7. Spread(Earlier(t)) = a * a * v /\ Spread(Latest(t)) = a * a * w
    BY <2>3, <2>5, ScaledSpread
  <2>8. Variance(s) = IF 4 * w * m * m > 25 * v * n * n THEN 100 ELSE 0
    BY <1>3 DEF Variance
  <2>9. Variance(t) = IF 4 * (a * a * w) * m * m > 25 * (a * a * v) * n * n THEN 100 ELSE 0
    BY <1>1, <1>3, <2>6, <2>7 DEF Variance
  <2> HIDE DEF t, p, r, m, n, v, w
  <2> DEFINE W == 4 * w * m * m  V == 25 * v * n * n
  <2>10. W \in Int /\ V \in Int /\ c \in Int /\ c > 0 BY <2>3, <2>4, SquarePositive
  <2>11. 4 * (a * a * w) * m * m = c * W /\ 25 * (a * a * v) * n * n = c * V
    BY <2>3, <2>4
  <2>12. Variance(s) = IF V < W THEN 100 ELSE 0 BY <2>8, <2>10
  <2>13. Variance(t) = IF c * V < c * W THEN 100 ELSE 0 BY <2>9, <2>10, <2>11
  <2> HIDE DEF W, V, c
  <2> QED BY <2>10, <2>12, <2>13, Cancel DEF t
<1> QED BY <1>2, <1>3

LEMMA LowestExists ==
  ASSUME NEW s \in Seq(Int), s # <<>>
  PROVE  \E m \in 1 .. Len(s) : \A i \in 1 .. Len(s) : s[m] <= s[i]
<1> DEFINE t == Scaled(s, -1, 0)
<1>1. /\ t \in Seq(Int) /\ Len(t) = Len(s) /\ Len(s) \in Nat
      /\ \A i \in 1 .. Len(s) : s[i] \in Int /\ t[i] = (-1) * s[i] + 0
  <2>1. -1 \in Int /\ 0 \in Int OBVIOUS
  <2> QED BY <2>1, ScaledPlaces
<1> HIDE DEF t
<1>2. t # <<>> BY <1>1
<1>3. PICK m \in 1 .. Len(t) : \A i \in 1 .. Len(t) : t[i] <= t[m] BY <1>1, <1>2, TallestExists
<1>4. \A i \in 1 .. Len(s) : s[m] <= s[i] BY <1>1, <1>3
<1> QED BY <1>1, <1>3, <1>4

\* The tallest and the lowest value, and where they are in another unit: a negative
\* factor exchanges them.
LEMMA Extremes ==
  ASSUME NEW s \in Seq(Int), s # <<>>
  PROVE  /\ Tallest(s) \in Int /\ Lowest(s) \in Int /\ Lowest(s) <= Tallest(s)
         /\ \A i \in 1 .. Len(s) : Lowest(s) <= s[i] /\ s[i] <= Tallest(s)
<1>1. PICK m \in 1 .. Len(s) : \A i \in 1 .. Len(s) : s[i] <= s[m] BY TallestExists
<1>2. PICK n \in 1 .. Len(s) : \A i \in 1 .. Len(s) : s[n] <= s[i] BY LowestExists
<1>3. Tallest(s) = s[m] /\ Lowest(s) = s[n] BY <1>1, <1>2, TallestIs, LowestIs
<1>4. s[m] \in Int /\ s[n] \in Int BY ElementOfSeq
<1> QED BY <1>1, <1>2, <1>3, <1>4

LEMMA ScaledExtremes ==
  ASSUME NEW s \in Seq(Int), s # <<>>, NEW a \in Int, NEW b \in Int
  PROVE  /\ a > 0 => /\ Tallest(Scaled(s, a, b)) = a * Tallest(s) + b
                     /\ Lowest(Scaled(s, a, b)) = a * Lowest(s) + b
         /\ a < 0 => /\ Tallest(Scaled(s, a, b)) = a * Lowest(s) + b
                     /\ Lowest(Scaled(s, a, b)) = a * Tallest(s) + b
<1> DEFINE t == Scaled(s, a, b)
<1>1. PICK m \in 1 .. Len(s) : \A i \in 1 .. Len(s) : s[i] <= s[m] BY TallestExists
<1>2. PICK n \in 1 .. Len(s) : \A i \in 1 .. Len(s) : s[n] <= s[i] BY LowestExists
<1>3. Tallest(s) = s[m] /\ Lowest(s) = s[n] BY <1>1, <1>2, TallestIs, LowestIs
<1>4. /\ t \in Seq(Int) /\ Len(t) = Len(s)
      /\ \A i \in 1 .. Len(s) : s[i] \in Int /\ t[i] = a * s[i] + b
  BY ScaledPlaces
<1> HIDE DEF t
<1>5. ASSUME NEW x \in Int, NEW y \in Int, x <= y
      PROVE  (a > 0 => a * x + b <= a * y + b) /\ (a < 0 => a * y + b <= a * x + b)
  <2>1. CASE a > 0
    <3>1. a * x <= a * y BY <1>5, <2>1, Cancel
    <3>2. a * x \in Int /\ a * y \in Int OBVIOUS
    <3> QED BY <2>1, <3>1, <3>2
  <2>2. CASE a < 0
    <3> DEFINE e == -a
    <3>1. e \in Int /\ e > 0 BY <2>2
    <3>2. a * x = -(e * x) /\ a * y = -(e * y) OBVIOUS
    <3>3. e * x \in Int /\ e * y \in Int OBVIOUS
    <3> HIDE DEF e
    <3>4. e * x <= e * y BY <1>5, <3>1, Cancel
    <3> QED BY <2>2, <3>2, <3>3, <3>4
  <2> QED BY <2>1, <2>2
<1>6. a > 0 => /\ \A i \in 1 .. Len(s) : t[i] <= t[m]
               /\ \A i \in 1 .. Len(s) : t[n] <= t[i]
  BY <1>1, <1>2, <1>4, <1>5
<1>7. a < 0 => /\ \A i \in 1 .. Len(s) : t[i] <= t[n]
               /\ \A i \in 1 .. Len(s) : t[m] <= t[i]
  BY <1>1, <1>2, <1>4, <1>5
<1>8. a > 0 => Tallest(t) = t[m] /\ Lowest(t) = t[n] BY <1>4, <1>6, TallestIs, LowestIs
<1>9. a < 0 => Tallest(t) = t[n] /\ Lowest(t) = t[m] BY <1>4, <1>7, TallestIs, LowestIs
<1> QED BY <1>3, <1>4, <1>8, <1>9 DEF t

\* The recent values that railing looks at, and the places of those near an edge.
Tailing(s) == SubSeq(s, Len(s) - AtMost(Recent, Len(s)) + 1, Len(s))
NearEdge(s, r) ==
  {i \in DOMAIN r : \/ 100 * (r[i] - Lowest(s)) < 3 * (Tallest(s) - Lowest(s))
                    \/ 100 * (Tallest(s) - r[i]) < 3 * (Tallest(s) - Lowest(s))}

LEMMA RailingIs ==
  ASSUME NEW s
  PROVE  Railing(s) =
           IF /\ Len(s) >= MinStatus /\ Tallest(s) - Lowest(s) > 0
              /\ Cardinality(NearEdge(s, Tailing(s))) >= RailCount
           THEN (100 * Cardinality(NearEdge(s, Tailing(s)))) \div Len(Tailing(s)) ELSE 0
BY DEF Railing, Tailing, NearEdge

LEMMA TailingPlaces ==
  ASSUME NEW s \in Seq(Int), s # <<>>
  PROVE  /\ Tailing(s) \in Seq(Int) /\ Len(Tailing(s)) \in Nat
         /\ Len(Tailing(s)) >= 1 /\ Len(Tailing(s)) <= Recent
<1>1. Recent \in Nat \ {0} /\ Len(s) \in Nat /\ Len(s) >= 1 BY HealthAssumption
<1> DEFINE k == AtMost(Recent, Len(s))
<1>2. k \in Nat /\ 1 <= k /\ k <= Len(s) /\ k <= Recent BY <1>1 DEF AtMost
<1>3. Tailing(s) = SubSeq(s, Len(s) - k + 1, Len(s)) BY DEF Tailing
<1> HIDE DEF k
<1>4. Tailing(s) \in Seq(Int) /\ Len(Tailing(s)) = k BY <1>1, <1>2, <1>3, StretchPlaces
<1> QED BY <1>2, <1>4

LEMMA ScaledTailing ==
  ASSUME NEW s \in Seq(Int), s # <<>>, NEW a \in Int, NEW b \in Int
  PROVE  Tailing(Scaled(s, a, b)) = Scaled(Tailing(s), a, b)
<1>1. Recent \in Nat \ {0} /\ Len(s) \in Nat /\ Len(s) >= 1 BY HealthAssumption
<1> DEFINE k == AtMost(Recent, Len(s))
<1>2. k \in Nat /\ 1 <= k /\ k <= Len(s) BY <1>1 DEF AtMost
<1>3. Len(Scaled(s, a, b)) = Len(s) BY ScaledPlaces
<1>4. /\ Tailing(s) = SubSeq(s, Len(s) - k + 1, Len(s))
      /\ Tailing(Scaled(s, a, b)) = SubSeq(Scaled(s, a, b), Len(s) - k + 1, Len(s))
  BY <1>3 DEF Tailing
<1> HIDE DEF k
<1>5. SubSeq(Scaled(s, a, b), Len(s) - k + 1, Len(s))
        = Scaled(SubSeq(s, Len(s) - k + 1, Len(s)), a, b)
  <2> DEFINE m == Len(s) - k + 1  n == Len(s)
  <2>1. m \in Nat /\ n \in Nat /\ 1 <= m /\ m <= n + 1 /\ n <= Len(s) BY <1>1, <1>2
  <2> HIDE DEF m, n
  <2>2. SubSeq(Scaled(s, a, b), m, n) = Scaled(SubSeq(s, m, n), a, b) BY <2>1, ScaledStretch
  <2> QED BY <2>2 DEF m, n
<1> QED BY <1>4, <1>5

LEMMA ScaledNearEdge ==
  ASSUME NEW s \in Seq(Int), s # <<>>, NEW a \in Int, a # 0, NEW b \in Int,
         NEW r \in Seq(Int)
  PROVE  /\ NearEdge(Scaled(s, a, b), Scaled(r, a, b)) = NearEdge(s, r)
         /\ Tallest(Scaled(s, a, b)) - Lowest(Scaled(s, a, b)) > 0
              <=> Tallest(s) - Lowest(s) > 0
<1> DEFINE t == Scaled(s, a, b)  q == Scaled(r, a, b)
           low == Lowest(s)  high == Tallest(s)  lo == Lowest(t)  hi == Tallest(t)
           e == IF a > 0 THEN a ELSE -a
<1>1. low \in Int /\ high \in Int BY Extremes
<1>2. e \in Int /\ e > 0 OBVIOUS
<1>3. DOMAIN q = 1 .. Len(r) /\ DOMAIN r = 1 .. Len(r)
      /\ \A i \in 1 .. Len(r) : r[i] \in Int /\ q[i] = a * r[i] + b
  BY ScaledPlaces
<1>4. /\ a > 0 => hi = a * high + b /\ lo = a * low + b
      /\ a < 0 => hi = a * low + b /\ lo = a * high + b
  BY ScaledExtremes
<1>5. NearEdge(s, r) =
        {i \in 1 .. Len(r) : \/ 100 * (r[i] - low) < 3 * (high - low)
                             \/ 100 * (high - r[i]) < 3 * (high - low)}
  BY <1>3 DEF NearEdge
<1>6. NearEdge(t, q) =
        {i \in 1 .. Len(r) : \/ 100 * (q[i] - lo) < 3 * (hi - lo)
                             \/ 100 * (hi - q[i]) < 3 * (hi - lo)}
  BY <1>3 DEF NearEdge
<1> HIDE DEF t, q, low, high, lo, hi
<1>7. hi - lo = e * (high - low)
  <2>0. low \in Int /\ high \in Int BY <1>1
  <2>1. CASE a > 0
    <3>1. hi = a * high + b /\ lo = a * low + b /\ e = a BY <1>4, <2>1
    <3>2. (a * high + b) - (a * low + b) = a * (high - low) BY <2>0
    <3> QED BY <3>1, <3>2
  <2>2. CASE a < 0
    <3>1. hi = a * low + b /\ lo = a * high + b /\ e = -a BY <1>4, <2>2
    <3>2. (a * low + b) - (a * high + b) = (-a) * (high - low) BY <2>0
    <3> QED BY <3>1, <3>2
  <2> QED BY <1>1, <2>1, <2>2
<1>8. ASSUME NEW i \in 1 .. Len(r)
      PROVE  (\/ 100 * (q[i] - lo) < 3 * (hi - lo) \/ 100 * (hi - q[i]) < 3 * (hi - lo))
               <=> (\/ 100 * (r[i] - low) < 3 * (high - low)
                    \/ 100 * (high - r[i]) < 3 * (high - low))
  <2> DEFINE v == r[i]  below == 100 * (v - low)  above == 100 * (high - v)
             width == 3 * (high - low)
  <2>1. v \in Int /\ q[i] = a * v + b BY <1>3
  <2>2. below \in Int /\ above \in Int /\ width \in Int
    <3>1. v \in Int /\ low \in Int /\ high \in Int BY <1>1, <2>1
    <3> HIDE DEF v
    <3> QED BY <3>1
  <2>3. 3 * (hi - lo) = e * width BY <1>1, <1>2, <1>7
  <2>4. CASE a > 0
    <3>1. 100 * (q[i] - lo) = e * below /\ 100 * (hi - q[i]) = e * above
      <4>1. q[i] = a * v + b /\ lo = a * low + b /\ hi = a * high + b /\ e = a
        BY <1>4, <2>1, <2>4
      <4> HIDE DEF v, e
      <4>2. 100 * ((a * v + b) - (a * low + b)) = a * (100 * (v - low))
        BY <1>1, <2>1
      <4>3. 100 * ((a * high + b) - (a * v + b)) = a * (100 * (high - v))
        BY <1>1, <2>1
      <4>4. a * (100 * (v - low)) = e * below /\ a * (100 * (high - v)) = e * above
        BY <4>1
      <4> QED BY <4>1, <4>2, <4>3, <4>4
    <3> HIDE DEF v, below, above, width, e
    <3>2. (e * below < e * width <=> below < width) /\ (e * above < e * width <=> above < width)
      BY <1>2, <2>2, Cancel
    <3> QED BY <2>3, <3>1, <3>2 DEF v, below, above, width
  <2>5. CASE a < 0
    <3>1. 100 * (q[i] - lo) = e * above /\ 100 * (hi - q[i]) = e * below
      <4>1. q[i] = a * v + b /\ lo = a * high + b /\ hi = a * low + b /\ e = -a
        BY <1>4, <2>1, <2>5
      <4> HIDE DEF v, e
      <4>2. 100 * ((a * v + b) - (a * high + b)) = a * (100 * (v - high))
        BY <1>1, <2>1
      <4>3. 100 * ((a * low + b) - (a * v + b)) = a * (100 * (low - v))
        BY <1>1, <2>1
      <4>4. a * (100 * (v - high)) = e * above /\ a * (100 * (low - v)) = e * below
        BY <1>1, <2>1, <4>1
      <4> QED BY <4>1, <4>2, <4>3, <4>4
    <3> HIDE DEF v, below, above, width, e
    <3>2. (e * below < e * width <=> below < width) /\ (e * above < e * width <=> above < width)
      BY <1>2, <2>2, Cancel
    <3> QED BY <2>3, <3>1, <3>2 DEF v, below, above, width
  <2> QED BY <2>4, <2>5
<1>9. NearEdge(t, q) = NearEdge(s, r) BY <1>5, <1>6, <1>8
<1>10. hi - lo > 0 <=> high - low > 0
  <2> DEFINE w == high - low
  <2>1. w \in Int BY <1>1
  <2> HIDE DEF w, e
  <2>2. e * 0 < e * w <=> 0 < w BY <1>2, <2>1, Cancel
  <2>3. e * 0 = 0 /\ e * w \in Int BY <1>2, <2>1
  <2> QED BY <1>7, <2>1, <2>2, <2>3 DEF w
<1> QED BY <1>9, <1>10 DEF t, q, low, high, lo, hi

LEMMA ScaledRailing ==
  ASSUME NEW s \in Seq(Int), s # <<>>, NEW a \in Int, a # 0, NEW b \in Int
  PROVE  Railing(Scaled(s, a, b)) = Railing(s)
<1> DEFINE t == Scaled(s, a, b)  r == Tailing(s)
<1>1. Len(t) = Len(s) BY ScaledPlaces
<1>2. r \in Seq(Int) BY TailingPlaces
<1>3. Tailing(t) = Scaled(r, a, b) BY ScaledTailing
<1>4. Len(Tailing(t)) = Len(r) BY <1>2, <1>3, ScaledPlaces
<1>5. /\ NearEdge(t, Tailing(t)) = NearEdge(s, r)
      /\ Tallest(t) - Lowest(t) > 0 <=> Tallest(s) - Lowest(s) > 0
  BY <1>2, <1>3, ScaledNearEdge
<1> HIDE DEF t, r
<1>6. Railing(s) =
        IF /\ Len(s) >= MinStatus /\ Tallest(s) - Lowest(s) > 0
           /\ Cardinality(NearEdge(s, r)) >= RailCount
        THEN (100 * Cardinality(NearEdge(s, r))) \div Len(r) ELSE 0
  BY RailingIs DEF r
<1>7. Railing(t) =
        IF /\ Len(s) >= MinStatus /\ Tallest(s) - Lowest(s) > 0
           /\ Cardinality(NearEdge(s, r)) >= RailCount
        THEN (100 * Cardinality(NearEdge(s, r))) \div Len(r) ELSE 0
  <2>1. Railing(t) =
          IF /\ Len(t) >= MinStatus /\ Tallest(t) - Lowest(t) > 0
             /\ Cardinality(NearEdge(t, Tailing(t))) >= RailCount
          THEN (100 * Cardinality(NearEdge(t, Tailing(t)))) \div Len(Tailing(t)) ELSE 0
    BY RailingIs
  <2> QED BY <1>1, <1>4, <1>5, <2>1
<1> QED BY <1>6, <1>7 DEF t

\* No signal depends on the unit a driver reports in, but the drift by its floor.
LEMMA ScaledSignals ==
  ASSUME NEW s \in Seq(Int), s # <<>>, NEW a \in Int, a # 0, NEW b \in Int
  PROVE  SameInUnit(s, Scaled(s, a, b))
BY ScaledDrift, ScaledVariance, ScaledRailing DEF SameInUnit

-----------------------------------------------------------------------------
\* What a signal is worth: nothing, or enough for a status other than healthy.

LEMMA Quotient ==
  ASSUME NEW x \in Nat, NEW n \in Nat, n > 0, NEW k \in Nat
  PROVE  /\ x \div n \in Nat
         /\ k * n <= x <=> k <= x \div n
<1> DEFINE d == x \div n  m == x % n
<1>1. d \in Nat /\ m \in Nat /\ m < n /\ x = d * n + m OBVIOUS
<1> HIDE DEF d, m
<1>2. CASE k <= d
  <2>1. n * k <= n * d BY <1>1, <1>2, Cancel
  <2>2. n * k = k * n /\ n * d = d * n /\ k * n \in Int /\ d * n \in Int BY <1>1
  <2> QED BY <1>1, <1>2, <2>1, <2>2 DEF d
<1>3. CASE d < k
  <2>1. d + 1 <= k BY <1>1, <1>3
  <2>2. n * (d + 1) <= n * k BY <1>1, <2>1, Cancel
  <2>3. n * (d + 1) = d * n + n /\ n * k = k * n /\ k * n \in Int /\ d * n \in Int BY <1>1
  <2> QED BY <1>1, <1>3, <2>2, <2>3 DEF d
<1> QED BY <1>1, <1>2, <1>3

Risk(v) == v \in Nat /\ (v = 0 \/ v >= Degrading)

\* A deviation between three and six has its hundredths.
LEMMA SigmasRange ==
  ASSUME NEW x \in Int, NEW u \in Int, 9 * u <= x * x, x * x < 36 * u
  PROVE  Sigmas(x, u) \in 300 .. 600
<1> DEFINE y == 10000 * x * x
           P(k) == k * k * u <= y /\ y < (k + 1) * (k + 1) * u
           T == {k \in 300 .. 600 : y < (k + 1) * (k + 1) * u}
<1>1. x * x \in Int /\ y \in Int /\ y = 10000 * (x * x) /\ u > 0
  <2>1. x * x >= 0 /\ x * x \in Int OBVIOUS
  <2> QED BY <2>1
<1> HIDE DEF y
<1>2. 600 \in T
  <2>1. y < (600 + 1) * (600 + 1) * u BY <1>1
  <2> QED BY <2>1
<1>3. PICK n \in T : \A k \in T : n <= k
  <2>1. \A k \in T : k \in 300 .. 600 OBVIOUS
  <2>2. \A k \in 300 .. 600 : k \in Nat OBVIOUS
  <2> HIDE DEF T
  <2>3. T \subseteq Nat /\ T # {} BY <1>2, <2>1, <2>2
  <2> QED BY <2>3, LeastNumber
<1>4. n \in 300 .. 600 /\ y < (n + 1) * (n + 1) * u OBVIOUS
<1>5. n * n * u <= y
  <2>1. CASE n = 300
    <3>1. 300 * 300 * u <= y BY <1>1
    <3> QED BY <2>1, <3>1
  <2>2. CASE n # 300
    <3> DEFINE m == n - 1
    <3>1. m \in 300 .. 600 /\ ~(n <= m) /\ m + 1 = n BY <1>4, <2>2
    <3> HIDE DEF m
    <3>2. m \notin T
      <4> HIDE DEF T
      <4> QED BY <1>3, <3>1
    <3>3. ~(y < (m + 1) * (m + 1) * u) BY <3>1, <3>2
    <3>4. ~(y < n * n * u) BY <3>1, <3>3
    <3>5. n * n * u \in Int BY <1>4
    <3> QED BY <1>1, <3>4, <3>5
  <2> QED BY <2>1, <2>2
<1>6. P(n) BY <1>4, <1>5
<1>7. Sigmas(x, u) = CHOOSE k \in 300 .. 600 : P(k) BY DEF Sigmas, y
<1> HIDE DEF P, T
<1> QED BY <1>4, <1>6, <1>7

LEMMA ScoreRisk ==
  ASSUME NEW x \in Int, NEW u \in Int
  PROVE  Risk(Score(x, u))
<1> DEFINE X == x * x  k == Sigmas(x, u)
<1>0. X \in Int OBVIOUS
<1>1. Score(x, u) = IF u = 0 THEN 100 ELSE IF X < 9 * u THEN 0
                    ELSE IF X >= 36 * u THEN 100
                    ELSE Degrading + ((k - 300) * 66) \div 300
  BY DEF Score
<1>2. ASSUME 9 * u <= X, X < 36 * u PROVE k \in 300 .. 600
  <2>1. 9 * u <= x * x /\ x * x < 36 * u BY <1>2
  <2> QED BY <2>1, SigmasRange, ZenonT(40)
<1> HIDE DEF X, k
<1>3. ASSUME k \in 300 .. 600 PROVE Risk(Degrading + ((k - 300) * 66) \div 300)
  <2>1. (k - 300) * 66 \in Nat BY <1>3
  <2>2. ((k - 300) * 66) \div 300 \in Nat BY <2>1
  <2> QED BY <2>2 DEF Risk, Degrading
<1>4. Risk(0) /\ Risk(100) BY DEF Risk, Degrading
<1> QED BY <1>0, <1>1, <1>2, <1>3, <1>4

LEMMA SignalsRisk ==
  ASSUME NEW s \in Seq(Int), s # <<>>
  PROVE  Risk(Drift(s)) /\ Risk(Variance(s)) /\ Risk(Railing(s))
<1>0. Risk(0) /\ Risk(100) BY DEF Risk, Degrading
<1>1. Risk(Drift(s))
  <2>1. CASE Len(s) < MinVariance BY <1>0, <2>1, DriftIs
  <2>2. CASE ~(Len(s) < MinVariance)
    <3>1. MinVariance \in Nat /\ Len(s) \in Nat BY HealthAssumption
    <3>2. Shift(s) \in Int /\ Unit(s) \in Int BY <2>2, <3>1, DriftTypes
    <3>3. Risk(Score(Shift(s), Unit(s))) BY <3>2, ScoreRisk
    <3> QED BY <1>0, <3>3, DriftIs
  <2> QED BY <2>1, <2>2
<1>2. Risk(Variance(s))
  <2>1. Variance(s) \in {0, 100} BY DEF Variance
  <2> QED BY <1>0, <2>1
<1>3. Risk(Railing(s))
  <2> DEFINE r == Tailing(s)  near == Cardinality(NearEdge(s, r))
  <2>1. Railing(s) = 0 \/ (near >= RailCount /\ Railing(s) = (100 * near) \div Len(r))
    BY RailingIs
  <2>2. r \in Seq(Int) /\ Len(r) \in Nat /\ Len(r) >= 1 /\ Len(r) <= Recent BY TailingPlaces
  <2>3. near \in Nat
    <3>1. NearEdge(s, r) \subseteq 1 .. Len(r) BY <2>2 DEF NearEdge
    <3>2. IsFiniteSet(1 .. Len(r)) BY <2>2, FS_Interval
    <3>3. IsFiniteSet(NearEdge(s, r)) BY <3>1, <3>2, FS_Subset
    <3> QED BY <3>3, FS_CardinalityType
  <2> HIDE DEF r, near
  <2>4. CASE near >= RailCount
    <3>1. RailCount \in Nat /\ Recent \in Nat BY HealthAssumption
    <3>2. 100 * RailCount >= 34 * Recent BY RailAssumption DEF Degrading
    <3>3. 34 * Len(r) <= 100 * near BY <2>2, <2>3, <2>4, <3>1, <3>2
    <3>4. (100 * near) \div Len(r) \in Nat /\ 34 <= (100 * near) \div Len(r)
      <4> DEFINE x == 100 * near  n == Len(r)
      <4>1. x \in Nat /\ n \in Nat /\ n > 0 /\ 34 \in Nat /\ 34 * n <= x
        BY <2>2, <2>3, <3>3
      <4> HIDE DEF x, n
      <4>2. x \div n \in Nat /\ 34 <= x \div n BY <4>1, Quotient
      <4> QED BY <4>2 DEF x, n
    <3> QED BY <1>0, <2>1, <3>4 DEF Risk, Degrading
  <2> QED BY <1>0, <2>1, <2>4
<1> QED BY <1>1, <1>2, <1>3

\* The worst of the signals is one of them, and none is worse.
LEMMA WorstRisk ==
  ASSUME NEW s \in Seq(Int), s # <<>>
  PROVE  /\ Risk(Worst(Signals(s)))
         /\ Worst(Signals(s)) = 0 <=> Named(Signals(s)) = {}
<1> DEFINE d == Drift(s)  v == Variance(s)  r == Railing(s)
           S == {d, v, r}  g == Signals(s)
<1>1. Risk(d) /\ Risk(v) /\ Risk(r) BY SignalsRisk
<1>2. /\ g.drift = d /\ g.variance = v /\ g.railing = r
      /\ DOMAIN g = {"drift", "variance", "railing"}
      /\ g["drift"] = d /\ g["variance"] = v /\ g["railing"] = r
  BY DEF Signals
<1>3. Worst(g) = Largest(S) BY <1>2 DEF Worst
<1>4. Named(g) = {n \in {"drift", "variance", "railing"} : g[n] > 0} BY <1>2 DEF Named
<1> HIDE DEF d, v, r, g
<1>5. d \in Nat /\ v \in Nat /\ r \in Nat BY <1>1 DEF Risk
<1>6. \E m \in S : \A x \in S : x <= m
  <2>1. CASE v <= d /\ r <= d BY <1>5, <2>1
  <2>2. CASE d <= v /\ r <= v BY <1>5, <2>2
  <2>3. CASE d <= r /\ v <= r BY <1>5, <2>3
  <2> QED BY <1>5, <2>1, <2>2, <2>3
<1>7. Largest(S) \in S /\ \A x \in S : x <= Largest(S) BY <1>6 DEF Largest
<1>8. Risk(Worst(g)) BY <1>1, <1>3, <1>7
<1>9. Worst(g) = 0 <=> d = 0 /\ v = 0 /\ r = 0
  BY <1>3, <1>5, <1>7
<1>10. Named(g) = {} <=> d = 0 /\ v = 0 /\ r = 0
  BY <1>2, <1>4, <1>5
<1> QED BY <1>8, <1>9, <1>10 DEF g

-----------------------------------------------------------------------------
\* The gate and the judge.

\* What the gate computes from the arguments of range is what the loop does.
LEMMA IterationsCounted ==
  ASSUME NEW args \in Seq(Nat), args # <<>>, Constructible(args)
  PROVE  Iterations(args) = LenOfRange(args)
<1> DEFINE start == IF Len(args) = 1 THEN 0 ELSE args[1]
           stop == IF Len(args) = 1 THEN args[1] ELSE args[2]
           step == IF Len(args) = 3 THEN args[3] ELSE 1
           K == {k \in 0 .. stop : start + k * step < stop}
           x == stop - start - 1
           d == x \div step
<1>1. Len(args) \in 1 .. 3 /\ \A i \in 1 .. Len(args) : args[i] \in Nat
  <2> DEFINE n == Len(args)
  <2>1. n <= 3 BY DEF Constructible
  <2>2. n \in Nat /\ n # 0 OBVIOUS
  <2>3. \A i \in 1 .. n : args[i] \in Nat OBVIOUS
  <2> HIDE DEF n
  <2>4. n \in 1 .. 3 BY <2>1, <2>2
  <2> QED BY <2>3, <2>4 DEF n
<1>2. start \in Nat /\ stop \in Nat /\ step \in Nat /\ step > 0
  <2>1. CASE Len(args) = 1 BY <1>1, <2>1
  <2>2. CASE Len(args) = 2 BY <1>1, <2>2
  <2>3. CASE Len(args) = 3
    <3>1. args[3] # 0 BY <2>3 DEF Constructible
    <3> QED BY <1>1, <2>3, <3>1
  <2> QED BY <1>1, <2>1, <2>2, <2>3
<1>3. Iterations(args) = Cardinality(K) BY DEF Iterations
<1>4. LenOfRange(args) = IF stop <= start THEN 0 ELSE d + 1 BY DEF LenOfRange
<1> HIDE DEF start, stop, step, K, x, d
<1>5. \A k \in Nat : k * step \in Nat BY <1>2
<1>6. CASE stop <= start
  <2>1. \A k \in 0 .. stop : ~(start + k * step < stop) BY <1>2, <1>5, <1>6
  <2>2. K = {} BY <2>1 DEF K
  <2> QED BY <1>3, <1>4, <1>6, <2>2, FS_EmptySet
<1>7. CASE start < stop
  <2>1. x \in Nat /\ x < stop BY <1>2, <1>7 DEF x
  <2>2. d \in Nat /\ \A k \in Nat : k * step <= x <=> k <= d BY <1>2, <2>1, Quotient DEF d
  <2>3. d <= x
    <3>1. d * step <= x BY <2>2
    <3>2. step * 1 <= step * (d + 1) /\ step * d = d * step BY <1>2, <2>2
    <3>3. d <= d * step
      <4>1. d * 1 <= d * step
        <5>1. CASE d = 0 BY <1>2, <5>1
        <5>2. CASE d > 0 BY <1>2, <2>2, <5>2, Cancel
        <5> QED BY <2>2, <5>1, <5>2
      <4> QED BY <2>2, <4>1
    <3> DEFINE m == d * step
    <3>4. m \in Nat BY <1>5, <2>2
    <3>5. m <= x BY <3>1
    <3>6. d <= m BY <3>3
    <3> HIDE DEF m
    <3> QED BY <2>1, <2>2, <3>4, <3>5, <3>6
  <2>4. ASSUME NEW k \in Nat PROVE k \in K <=> k <= d
    <3>1. start + k * step < stop <=> k * step <= x
      <4> DEFINE m == k * step
      <4>1. m \in Nat BY <1>5
      <4> HIDE DEF m
      <4>2. start + m < stop <=> m <= x BY <1>2, <4>1 DEF x
      <4> QED BY <4>2 DEF m
    <3>2. k \in K <=> k <= stop /\ start + k * step < stop BY <1>2 DEF K
    <3> QED BY <1>2, <2>1, <2>2, <2>3, <3>1, <3>2
  <2>5. K = 0 .. d
    <3>1. K \subseteq Nat BY <1>2 DEF K
    <3>2. d \in Nat BY <2>2
    <3>3. \A k : k \in 0 .. d <=> k \in Nat /\ k <= d BY <3>2
    <3> HIDE DEF K, d
    <3>4. \A k \in K : k \in 0 .. d BY <2>4, <3>1, <3>3
    <3>5. \A k \in 0 .. d : k \in K BY <2>4, <3>3
    <3> QED BY <3>4, <3>5
  <2>6. Cardinality(K) = d + 1 BY <2>2, <2>5, FS_Interval
  <2> QED BY <1>2, <1>3, <1>4, <1>7, <2>6
<1> QED BY <1>2, <1>6, <1>7

\* A program that passes fails no check.
LEMMA GateKnows ==
  ASSUME NEW p, NEW class, GatePasses(p, class)
  PROVE  /\ \A loop \in p.loops : Bounded(loop)
         /\ class = "analog" => AdcOK(p)
         /\ p.imports \subseteq p.declared
<1>1. p.parses /\ Failed(p, class) = {}
  BY DEF GatePasses, Violations
<1>2. "bounded_for" \notin Failed(p, class) BY <1>1
<1>3. "adc_pins" \notin Failed(p, class) BY <1>1
<1>4. "imports_match" \notin Failed(p, class) BY <1>1
<1>5. \A loop \in p.loops : Bounded(loop) BY <1>2 DEF Failed
<1>6. class = "analog" => AdcOK(p) BY <1>3 DEF Failed
<1>7. p.imports \subseteq p.declared BY <1>4 DEF Failed
<1> QED BY <1>5, <1>6, <1>7

LEMMA LoopsBounded ==
  ASSUME NEW class \in Classes, NEW p \in Programs[class], GatePasses(p, class),
         NEW loop \in p.loops
  PROVE  Iterations(loop.args) <= MaxForRange
<1>1. Bounded(loop) BY GateKnows
<1>2. /\ loop.literal /\ loop.args # <<>> /\ Constructible(loop.args)
      /\ LenOfRange(loop.args) <= MaxForRange
  BY <1>1 DEF Bounded, Literal
<1>3. loop.args \in Seq(Nat) BY <1>2, ProgramAssumption
<1> QED BY <1>2, <1>3, IterationsCounted

\* A plausible number lies in its window.
LEMMA PlausibleKnows ==
  ASSUME NEW s \in Specs, NEW r \in Readings, Plausible(r, s)
  PROVE  /\ r.kind # "text"
         /\ (s.class # "output" /\ r.kind = "number") =>
              /\ s.hasMin => s.min <= r.value
              /\ s.hasMax => r.value <= s.max
              /\ (s.class = "analog" /\ s.hasMin /\ s.hasMax) =>
                   s.min < r.value /\ r.value < s.max
              /\ s.class = "pulse_timing" => r.value > 0
<1>1. r.kind # "text" BY DEF Plausible
<1> SUFFICES ASSUME s.class # "output", r.kind = "number"
             PROVE  /\ s.hasMin => s.min <= r.value
                    /\ s.hasMax => r.value <= s.max
                    /\ (s.class = "analog" /\ s.hasMin /\ s.hasMax) =>
                         s.min < r.value /\ r.value < s.max
                    /\ s.class = "pulse_timing" => r.value > 0
  BY <1>1
<1>2. /\ s.class \in Classes /\ s.min \in Int /\ s.max \in Int /\ r.value \in Int
  BY VerdictAssumption
<1>3. /\ InRange(r, s)
      /\ s.class = "analog" => ~Railed(r, s)
      /\ s.class = "pulse_timing" => ~NoEcho(r)
  <2>1. s.class \in {"analog", "digital_bus", "pulse_timing"} BY <1>2 DEF Classes
  <2>2. CASE s.class = "analog" BY <2>2 DEF Plausible
  <2>3. CASE s.class = "digital_bus" BY <2>3 DEF Plausible
  <2>4. CASE s.class = "pulse_timing" BY <2>4 DEF Plausible
  <2> QED BY <2>1, <2>2, <2>3, <2>4
<1>4. s.hasMin => s.min <= r.value BY <1>2, <1>3 DEF InRange, Below
<1>5. s.hasMax => r.value <= s.max BY <1>2, <1>3 DEF InRange, Above
<1>6. (s.class = "analog" /\ s.hasMin /\ s.hasMax) => s.min < r.value /\ r.value < s.max
  BY <1>2, <1>3, <1>4, <1>5 DEF Railed
<1>7. s.class = "pulse_timing" => r.value > 0 BY <1>2, <1>3 DEF NoEcho
<1> QED BY <1>4, <1>5, <1>6, <1>7

-----------------------------------------------------------------------------
\* The median of the gaps.

\* A series of naturals has a value at each place of its order.
LEMMA RankedIsThere ==
  ASSUME NEW s \in Seq(Nat), NEW k \in 1 .. Len(s)
  PROVE  \E i \in 1 .. Len(s) : Ranked(s, k) = s[i]
<1> DEFINE Under(v) == {i \in DOMAIN s : s[i] < v}
           UpTo(v) == {i \in DOMAIN s : s[i] <= v}
           T == {v \in Nat : k <= Cardinality(UpTo(v))}
<1>0. /\ Len(s) \in Nat /\ DOMAIN s = 1 .. Len(s) /\ k \in Nat /\ k >= 1 /\ k <= Len(s)
      /\ \A i \in 1 .. Len(s) : s[i] \in Nat
  OBVIOUS
<1>1. T # {}
  <2>1. s \in Seq(Int) /\ s # <<>> BY <1>0
  <2>2. PICK m \in 1 .. Len(s) : \A i \in 1 .. Len(s) : s[i] <= s[m] BY <2>1, TallestExists
  <2>3. UpTo(s[m]) = 1 .. Len(s) BY <1>0, <2>2
  <2>4. Cardinality(1 .. Len(s)) = Len(s)
    <3> DEFINE n == Len(s)
    <3>1. 1 \in Int /\ n \in Int /\ n >= 1 BY <1>0
    <3> HIDE DEF n
    <3>2. Cardinality(1 .. n) = IF 1 > n THEN 0 ELSE n - 1 + 1 BY <3>1, FS_Interval
    <3>3. Cardinality(1 .. n) = n BY <3>1, <3>2
    <3> QED BY <3>3 DEF n
  <2>5. s[m] \in T BY <1>0, <2>3, <2>4
  <2> QED BY <2>5
<1>2. PICK v \in T : \A w \in T : v <= w
  <2>1. T \subseteq Nat OBVIOUS
  <2> HIDE DEF T
  <2> QED BY <1>1, <2>1, LeastNumber
<1>3. v \in Nat /\ k <= Cardinality(UpTo(v)) OBVIOUS
<1>4. Cardinality(Under(v)) < k
  <2>1. CASE v = 0
    <3>1. Under(v) = {} BY <1>0, <2>1
    <3>2. Cardinality({}) = 0 BY FS_EmptySet
    <3>3. Cardinality(Under(v)) = 0 BY <3>1, <3>2
    <3> HIDE DEF Under
    <3> QED BY <1>0, <3>3
  <2>2. CASE v # 0
    <3>1. v - 1 \in Nat /\ ~(v <= v - 1) BY <1>3, <2>2
    <3>2. v - 1 \notin T BY <1>2, <3>1
    <3>3. Under(v) = UpTo(v - 1) BY <1>0, <1>3
    <3>4. ~(k <= Cardinality(UpTo(v - 1))) BY <3>1, <3>2
    <3>5. Cardinality(UpTo(v - 1)) \in Nat
      <4>1. UpTo(v - 1) \subseteq 1 .. Len(s) /\ IsFiniteSet(1 .. Len(s)) BY <1>0, FS_Interval
      <4>2. IsFiniteSet(UpTo(v - 1)) BY <4>1, FS_Subset
      <4> QED BY <4>2, FS_CardinalityType
    <3> HIDE DEF Under, UpTo, T
    <3> QED BY <1>0, <3>3, <3>4, <3>5
  <2> QED BY <2>1, <2>2
<1>5. \E i \in DOMAIN s : s[i] = v
  <2> SUFFICES ASSUME \A i \in DOMAIN s : s[i] # v PROVE FALSE OBVIOUS
  <2>1. Under(v) = UpTo(v) BY <1>0, <1>3
  <2>2. Cardinality(UpTo(v)) \in Nat
    <3>1. UpTo(v) \subseteq 1 .. Len(s) /\ IsFiniteSet(1 .. Len(s)) BY <1>0, FS_Interval
    <3>2. IsFiniteSet(UpTo(v)) BY <3>1, FS_Subset
    <3> QED BY <3>2, FS_CardinalityType
  <2> HIDE DEF Under, UpTo, T
  <2> QED BY <1>0, <1>3, <1>4, <2>1, <2>2
<1> DEFINE S == {s[i] : i \in DOMAIN s}
           P(w) == Cardinality(Under(w)) < k /\ k <= Cardinality(UpTo(w))
<1>6. v \in S /\ P(v) BY <1>3, <1>4, <1>5
<1>7. Ranked(s, k) = CHOOSE w \in S : P(w) BY DEF Ranked
<1>8. \A w \in S : \E i \in 1 .. Len(s) : w = s[i] BY <1>0
<1> HIDE DEF S, P, T
<1>9. Ranked(s, k) \in S BY <1>6, <1>7
<1> QED BY <1>8, <1>9

\* The series of a slug.
Series == Seq([gap : Nat \ {0}, value : Samples])

LEMMA SeriesPlaces ==
  ASSUME NEW p \in Series
  PROVE  /\ Len(p) \in Nat /\ DOMAIN p = 1 .. Len(p)
         /\ \A i \in 1 .. Len(p) : p[i].gap \in Nat \ {0} /\ p[i].value \in Int
         /\ Values(p) \in Seq(Int) /\ Len(Values(p)) = Len(p)
<1>1. Len(p) \in Nat /\ DOMAIN p = 1 .. Len(p) BY DEF Series
<1>2. \A i \in 1 .. Len(p) : p[i].gap \in Nat \ {0} /\ p[i].value \in Int
  <2>1. \A i \in 1 .. Len(p) : p[i] \in [gap : Nat \ {0}, value : Samples]
    BY ElementOfSeq DEF Series
  <2> QED BY <2>1, VerdictAssumption
<1> DEFINE v == [i \in 1 .. Len(p) |-> p[i].value]
<1>3. v \in Seq(Int) /\ Len(v) = Len(p) BY <1>1, <1>2
<1>4. Values(p) = v BY <1>1 DEF Values
<1> QED BY <1>1, <1>2, <1>3, <1>4

\* Twice the median is the sum of two of the gaps.
LEMMA MedianOfGaps ==
  ASSUME NEW p \in Series, Len(p) >= 3
  PROVE  \E g, h \in Gaps(p) : TwiceInterval(p) = g + h
<1>1. /\ Len(p) \in Nat /\ DOMAIN p = 1 .. Len(p)
      /\ \A i \in 1 .. Len(p) : p[i].gap \in Nat \ {0}
  BY SeriesPlaces
<1> DEFINE all == [i \in DOMAIN p |-> p[i].gap]
           gaps == Tail(all)
           half == Len(gaps) \div 2
<1>2. all \in Seq(Nat) /\ Len(all) = Len(p) /\ \A i \in 1 .. Len(p) : all[i] = p[i].gap
  <2> DEFINE a == [i \in 1 .. Len(p) |-> p[i].gap]
  <2>1. a \in Seq(Nat) /\ Len(a) = Len(p) BY <1>1
  <2>2. all = a BY <1>1
  <2> QED BY <1>1, <2>1, <2>2
<1>3. TwiceInterval(p) = CASE Len(p) < 3 -> 2 * Interval
                           [] Len(p) >= 3 /\ Len(gaps) % 2 = 1 -> 2 * Ranked(gaps, half + 1)
                           [] OTHER -> Ranked(gaps, half) + Ranked(gaps, half + 1)
  BY DEF TwiceInterval
<1> HIDE DEF all
<1>4. /\ gaps \in Seq(Nat) /\ Len(gaps) = Len(p) - 1
      /\ \A i \in 1 .. Len(gaps) : gaps[i] = p[i + 1].gap
  <2>1. all # <<>> BY <1>1, <1>2
  <2>2. gaps \in Seq(Nat) /\ Len(gaps) = Len(all) - 1
        /\ \A i \in 1 .. Len(all) - 1 : gaps[i] = all[i + 1]
    BY <1>2, <2>1
  <2> HIDE DEF gaps
  <2> QED BY <1>1, <1>2, <2>2
<1> HIDE DEF gaps
<1>5. \A i \in 1 .. Len(gaps) : gaps[i] \in Gaps(p)
  <2> TAKE i \in 1 .. Len(gaps)
  <2>1. i + 1 \in DOMAIN p \ {1} BY <1>1, <1>4
  <2>2. gaps[i] = p[i + 1].gap BY <1>4
  <2> QED BY <2>1, <2>2 DEF Gaps
<1>6. \A k \in 1 .. Len(gaps) : Ranked(gaps, k) \in Gaps(p) BY <1>4, <1>5, RankedIsThere
<1>7. Len(gaps) \in Nat /\ Len(gaps) >= 2 BY <1>1, <1>4
<1>8. half \in 1 .. Len(gaps) /\ half + 1 \in 1 .. Len(gaps) BY <1>7
<1>9. Ranked(gaps, half) \in Gaps(p) /\ Ranked(gaps, half + 1) \in Gaps(p) BY <1>6, <1>8
<1>10. \A g \in Gaps(p) : g \in Nat BY <1>1 DEF Gaps
<1> HIDE DEF half
<1>11. CASE Len(gaps) % 2 = 1
  <2>1. TwiceInterval(p) = 2 * Ranked(gaps, half + 1) BY <1>1, <1>3, <1>11
  <2>2. TwiceInterval(p) = Ranked(gaps, half + 1) + Ranked(gaps, half + 1)
    BY <1>9, <1>10, <2>1
  <2> QED BY <1>9, <2>2
<1>12. CASE Len(gaps) % 2 # 1
  <2>1. TwiceInterval(p) = Ranked(gaps, half) + Ranked(gaps, half + 1) BY <1>1, <1>3, <1>12
  <2> QED BY <1>9, <2>1
<1> QED BY <1>11, <1>12

-----------------------------------------------------------------------------
\* The status and the trend.

LEMMA StatusIs ==
  /\ StatusOf(100) = "critical"
  /\ \A w : Risk(w) =>
       /\ StatusOf(w) \in {"healthy", "degrading", "critical"}
       /\ StatusOf(w) = "healthy" <=> w = 0
       /\ w >= Critical => StatusOf(w) = "critical"
BY DEF StatusOf, Risk, Critical, Degrading

LEMMA HealthTypes ==
  ASSUME NEW p \in Series, NEW q
  PROVE  Health(p, q).status \in Statuses /\ Trend(p) \in Trends
<1>1. Health(p, q).status \in {"unknown", "healthy", "degrading", "critical"}
  <2>1. \A w : StatusOf(w) \in {"healthy", "degrading", "critical"} BY DEF StatusOf
  <2> QED BY <2>1 DEF Health
<1>2. Trend(p) \in Trends
  <2>1. \A n, b, d : Projected(n, b, d) \in {"degrading", "stable"} BY DEF Projected
  <2> QED BY <2>1 DEF Trend, Trends
<1> QED BY <1>1, <1>2 DEF Statuses

\* What VerdictsAgree says of one series and one silence.
Agree(p, q) ==
  LET h == Health(p, q)
      t == Trend(p)
  IN /\ h.status = "healthy" <=> h.reasons = {"within range"}
     /\ t \in {"degrading", "critical"} => h.status # "healthy"
     /\ t = "critical" => h.status = "critical"

\* The status is read off the worst risk, the reasons off the risks that are positive;
\* `fine` is the reason given when there is none.
Judged(status, reasons, w, n, late, fine) ==
  /\ Risk(w) /\ n \subseteq {"drift", "variance", "railing"} /\ (w = 0 <=> n = {})
  /\ late \in {{}, {"stale"}} /\ fine \notin {"drift", "variance", "railing", "stale"}
  /\ status = StatusOf(IF late # {} THEN 100 ELSE w)
  /\ reasons = IF n \cup late = {} THEN {fine} ELSE n \cup late

LEMMA StatusNamed ==
  ASSUME NEW status, NEW reasons, NEW w, NEW n, NEW late, NEW fine,
         Judged(status, reasons, w, n, late, fine)
  PROVE  /\ status = "healthy" <=> reasons = {fine}
         /\ w # 0 => status # "healthy"
         /\ w >= Critical => status = "critical"
<1>0. /\ Risk(w) /\ n \subseteq {"drift", "variance", "railing"} /\ (w = 0 <=> n = {})
      /\ late \in {{}, {"stale"}} /\ fine \notin {"drift", "variance", "railing", "stale"}
      /\ status = StatusOf(IF late # {} THEN 100 ELSE w)
      /\ reasons = IF n \cup late = {} THEN {fine} ELSE n \cup late
  BY DEF Judged
<1>1. CASE late = {"stale"}
  <2>1. status = "critical" BY <1>0, <1>1, StatusIs
  <2>2. reasons = n \cup {"stale"} BY <1>0, <1>1
  <2>3. "stale" \in reasons /\ "stale" \notin {fine} BY <1>0, <2>2
  <2> QED BY <2>1, <2>3
<1>2. CASE late = {}
  <2>1. status = StatusOf(w) BY <1>0, <1>2
  <2>2. reasons = IF n = {} THEN {fine} ELSE n BY <1>0, <1>2
  <2>3. fine \notin n BY <1>0
  <2>4. status = "healthy" <=> w = 0 BY <1>0, <2>1, StatusIs
  <2>5. w >= Critical => status = "critical" BY <1>0, <2>1, StatusIs
  <2>6. reasons = {fine} <=> n = {} BY <2>2, <2>3
  <2> QED BY <1>0, <2>4, <2>5, <2>6
<1> QED BY <1>0, <1>1, <1>2

\* Both trends that are bad need a worst risk that is.
LEMMA TrendNeeds ==
  ASSUME NEW p \in Series
  PROVE  LET w == Worst(Signals(Values(p)))
         IN /\ Trend(p) = "critical" => w >= Critical
            /\ Trend(p) = "degrading" => w # 0
<1> DEFINE s == Values(p)  w == Worst(Signals(s))
           x == Projected(w, Worst(Signals(Earlier(s))),
                          Total(Latest([i \in DOMAIN p |-> p[i].gap])))
<1>1. Trend(p) = CASE Len(p) < MinTrend -> "insufficient_data"
                   [] Len(p) >= MinTrend /\ w >= Critical -> "critical"
                   [] Len(p) >= MinTrend /\ w = 0 -> "stable"
                   [] OTHER -> x
  BY DEF Trend
<1>2. x \in {"degrading", "stable"} BY DEF Projected
<1>3. MinTrend \in Nat /\ Len(p) \in Nat BY HealthAssumption, SeriesPlaces DEF MinTrend
<1> HIDE DEF w, x
<1>4. CASE Len(p) < MinTrend
  <2>1. ~(Len(p) >= MinTrend) BY <1>3, <1>4
  <2>2. Trend(p) = "insufficient_data" BY <1>1, <1>4, <2>1
  <2> QED BY <2>2 DEF w, s
<1>5. CASE ~(Len(p) < MinTrend)
  <2>1. Len(p) >= MinTrend BY <1>3, <1>5
  <2>2. CASE w >= Critical
    <3>1. w # 0 BY <2>2 DEF Critical
    <3> QED BY <2>2, <3>1 DEF w, s
  <2>3. CASE ~(w >= Critical) /\ w = 0
    <3>1. Trend(p) = "stable" BY <1>1, <1>5, <2>1, <2>3
    <3> QED BY <3>1
  <2>4. CASE ~(w >= Critical) /\ w # 0
    <3>1. Trend(p) = x BY <1>1, <1>5, <2>1, <2>4
    <3>2. Trend(p) # "critical" BY <1>2, <3>1
    <3> QED BY <2>4, <3>2 DEF w, s
  <2> QED BY <2>2, <2>3, <2>4
<1> QED BY <1>4, <1>5

LEMMA Agreement ==
  ASSUME NEW p \in Series, Len(p) >= MinStatus, NEW q
  PROVE  Agree(p, q)
<1> DEFINE s == Values(p)  w == Worst(Signals(s))  n == Named(Signals(s))
           late == IF Stale(p, q) THEN {"stale"} ELSE {}
           status == Health(p, q).status  reasons == Health(p, q).reasons
           fine == "within range"
<1>1. s \in Seq(Int) /\ s # <<>> /\ ~(Len(p) < MinStatus)
  <2>1. MinStatus \in Nat /\ MinStatus > 0 BY HealthAssumption
  <2>2. s \in Seq(Int) /\ Len(s) = Len(p) /\ Len(p) \in Nat BY SeriesPlaces
  <2>3. s # <<>> BY <2>1, <2>2
  <2> QED BY <2>1, <2>2, <2>3
<1>2. Risk(w) /\ (w = 0 <=> n = {}) BY <1>1, WorstRisk
<1>3. n \subseteq {"drift", "variance", "railing"} BY DEF Named, Signals
<1>4. /\ status = StatusOf(IF late # {} THEN 100 ELSE w)
      /\ reasons = IF n \cup late = {} THEN {fine} ELSE n \cup late
  <2> DEFINE h == [status |-> StatusOf(IF Stale(p, q) THEN 100 ELSE w),
                   reasons |-> IF n \cup late = {} THEN {fine} ELSE n \cup late]
  <2>1. Health(p, q) = h BY <1>1, Zenon DEF Health
  <2>2. late # {} <=> Stale(p, q) BY Zenon
  <2> HIDE DEF s, w, n, late, fine
  <2>3. status = StatusOf(IF Stale(p, q) THEN 100 ELSE w)
        /\ reasons = IF n \cup late = {} THEN {fine} ELSE n \cup late
    BY <2>1
  <2>4. CASE Stale(p, q) BY <2>2, <2>3, <2>4, Zenon
  <2>5. CASE ~Stale(p, q) BY <2>2, <2>3, <2>5, Zenon
  <2> QED BY <2>4, <2>5
<1>5. /\ Trend(p) = "critical" => w >= Critical
      /\ Trend(p) = "degrading" => w # 0
  BY TrendNeeds
<1>6. late \in {{}, {"stale"}} BY Zenon
<1>7. fine \notin {"drift", "variance", "railing", "stale"} BY Zenon
<1> HIDE DEF w, n, late, status, reasons, fine
<1>8. /\ status = "healthy" <=> reasons = {fine}
      /\ w # 0 => status # "healthy"
      /\ w >= Critical => status = "critical"
  <2>1. Judged(status, reasons, w, n, late, fine)
    BY <1>2, <1>3, <1>4, <1>6, <1>7, Zenon DEF Judged
  <2> QED BY <2>1, StatusNamed
<1>9. Trend(p) \in {"degrading", "critical"} => status # "healthy"
  <2>1. w >= Critical => w # 0 BY DEF Critical
  <2> QED BY <1>5, <1>8, <2>1
<1>10. Trend(p) = "critical" => status = "critical" BY <1>5, <1>8
<1> QED BY <1>8, <1>9, <1>10, Zenon DEF Agree, status, reasons, fine

-----------------------------------------------------------------------------
\* A silence longer than StaleFactor times every gap is stale, one that is no longer
\* than StaleFactor times any gap is not.
LEMMA StaleByCadence ==
  ASSUME NEW p \in Series, Len(p) >= 3, NEW q \in Nat
  PROVE  /\ (\A g \in Gaps(p) : q > StaleFactor * g) => Stale(p, q)
         /\ (\A g \in Gaps(p) : q <= StaleFactor * g) => ~Stale(p, q)
<1>1. PICK g \in Gaps(p), h \in Gaps(p) : TwiceInterval(p) = g + h BY MedianOfGaps
<1>2. g \in Nat /\ h \in Nat /\ StaleFactor \in Nat
  BY SeriesPlaces, HealthAssumption DEF Gaps
<1> DEFINE x == StaleFactor * g  y == StaleFactor * h
<1>3. x \in Nat /\ y \in Nat /\ StaleFactor * (g + h) = x + y BY <1>2
<1>4. Stale(p, q) <=> 2 * q > x + y BY <1>1, <1>3 DEF Stale
<1>5. ASSUME \A f \in Gaps(p) : q > StaleFactor * f PROVE Stale(p, q)
  <2>1. q > x /\ q > y BY <1>5
  <2> HIDE DEF x, y
  <2> QED BY <1>3, <1>4, <2>1
<1>6. ASSUME \A f \in Gaps(p) : q <= StaleFactor * f PROVE ~Stale(p, q)
  <2>1. q <= x /\ q <= y BY <1>6
  <2> HIDE DEF x, y
  <2> QED BY <1>3, <1>4, <2>1
<1> QED BY <1>5, <1>6

-----------------------------------------------------------------------------
\* The invariant.

LEMMA InitType == Init => TypeOK
<1> SUFFICES ASSUME Init PROVE TypeOK OBVIOUS
<1>1. MaxPoints \in Nat BY VerdictAssumption
<1>2. points = <<>> /\ silent = 1 BY DEF Init
<1>3. points \in Seq([gap : Nat \ {0}, value : Samples]) /\ Len(points) <= MaxPoints
  BY <1>1, <1>2
<1>4. silent \in Nat \ {0} BY <1>2
<1>5. scored \in BOOLEAN BY Zenon DEF Init
<1> QED BY <1>3, <1>4, <1>5, Zenon DEF Init, TypeOK

\* What the watcher remembers is a verdict that payloads.py knows.
LEMMA SignatureTypes ==
  ASSUME TypeOK
  PROVE  Signature(Fresh).status \in Statuses /\ Signature(Fresh).trend \in Trends
<1>1. Health(points, silent).status \in Statuses /\ Trend(points) \in Trends
  BY HealthTypes DEF TypeOK, Series
<1>2. Fresh.status \in Statuses /\ Fresh.trend \in Trends
  BY <1>1 DEF Fresh, Payload, Statuses, Trends
<1> QED BY <1>2 DEF Signature

LEMMA TypeStep == TypeOK /\ [Next]_vars => TypeOK'
<1> SUFFICES ASSUME TypeOK, [Next]_vars PROVE TypeOK' OBVIOUS
<1> USE DEF trial, series
<1>1. CASE Draft BY <1>1 DEF TypeOK, Draft
<1>2. CASE Gate BY <1>2 DEF TypeOK, Gate
<1>3. CASE Judge BY <1>3 DEF TypeOK, Judge
<1>4. CASE Admit
  <2>1. points' = <<>> /\ silent' = 1 /\ scored' = FALSE /\ stage' = "idle"
        /\ record' \in {"output", "sensor"} /\ UNCHANGED <<last, console>>
    BY <1>4 DEF Admit
  <2>2. points' \in Seq([gap : Nat \ {0}, value : Samples]) /\ Len(points') <= MaxPoints
    BY <2>1, VerdictAssumption
  <2>3. silent' = 1 BY <2>1
  <2>4. silent' \in Nat \ {0} BY <2>3
  <2>5. scored' \in BOOLEAN BY <2>1, Zenon
  <2>6. record' \in {"none", "sensor", "output"} BY <2>1
  <2> QED BY <2>1, <2>2, <2>4, <2>5, <2>6, Zenon DEF TypeOK
<1>5. CASE Recover BY <1>5 DEF TypeOK, Recover
<1>6. CASE Passes
  <2>1. silent' \in Nat \ {0} BY <1>6 DEF TypeOK, Passes
  <2>2. scored' \in BOOLEAN /\ UNCHANGED <<trial, points, last, console>> BY <1>6 DEF Passes
  <2> QED BY <2>1, <2>2 DEF TypeOK
<1>7. CASE Reads
  <2>1. PICK v \in Samples : points' = Append(points, [gap |-> silent, value |-> v])
    BY <1>7 DEF Reads
  <2>2. [gap |-> silent, value |-> v] \in [gap : Nat \ {0}, value : Samples] BY DEF TypeOK
  <2>3. /\ points' \in Seq([gap : Nat \ {0}, value : Samples])
        /\ Len(points') = Len(points) + 1 /\ Len(points) \in Nat
    BY <2>1, <2>2 DEF TypeOK
  <2>4. Len(points') <= MaxPoints BY <1>7, <2>3, VerdictAssumption DEF Reads
  <2>5. silent' = 1 /\ UNCHANGED <<trial, last, console>> BY <1>7 DEF Reads
  <2>6. silent' \in Nat \ {0} BY <2>5
  <2>7. scored' \in BOOLEAN BY <1>7, Zenon DEF Reads
  <2> QED BY <2>3, <2>4, <2>5, <2>6, <2>7 DEF TypeOK
<1>8. CASE Assess
  <2>1. /\ last' = Signature(Fresh) /\ scored' = TRUE /\ UNCHANGED <<trial, series>>
        /\ console' = console \/ console'.from = "push"
    BY <1>8 DEF Assess
  <2>2. last'.status \in Statuses /\ last'.trend \in Trends BY <2>1, SignatureTypes
  <2> QED BY <2>1, <2>2 DEF TypeOK
<1>9. CASE Connect
  <2>1. console'.from = "snapshot" BY <1>9 DEF Connect
  <2> QED BY <1>9, <2>1 DEF TypeOK, Connect
<1>10. CASE UNCHANGED vars BY <1>10 DEF TypeOK, vars
<1> QED BY <1>1, <1>2, <1>3, <1>4, <1>5, <1>6, <1>7, <1>8, <1>9, <1>10 DEF Next

\* Series of samples at whole distances, verdicts of the kinds that payloads.py names.
THEOREM TypeCorrect == Spec => []TypeOK
BY InitType, TypeStep, PTL DEF Spec

LEMMA VerdictInit == Init => VerdictInv
BY DEF Init, VerdictInv, None

\* A second verdict of the same signature says the same to a console.
LEMMA CoarseOfSignature ==
  ASSUME NEW payload
  PROVE  Coarse(Signature(payload)) = Coarse(payload)
BY DEF Coarse, Signature

LEMMA VerdictStep == VerdictInv /\ [Next]_vars => VerdictInv'
<1> SUFFICES ASSUME VerdictInv, [Next]_vars PROVE VerdictInv' OBVIOUS
<1> USE DEF trial, series
<1>1. ASSUME UNCHANGED <<record, series>> PROVE Fresh' = Fresh BY <1>1 DEF Fresh
<1>2. CASE Draft
  <2>1. PICK s \in Specs : spec' = s /\ program' \in Programs[s.class] BY <1>2 DEF Draft
  <2>2. stage' = "drafted" /\ UNCHANGED <<record, series, scored, last, console>>
    BY <1>2 DEF Draft
  <2>3. Fresh' = Fresh BY <1>1, <2>2
  <2> QED BY <2>1, <2>2, <2>3 DEF VerdictInv, Signature, Coarse
<1>3. CASE Gate
  <2>1. UNCHANGED <<record, series, scored, last, console>> BY <1>3 DEF Gate
  <2>2. Fresh' = Fresh BY <1>1, <2>1
  <2>3. /\ stage' \in {"crashed", "deployed", "idle"}
        /\ stage' = "deployed" => GatePasses(program, spec.class) /\ UNCHANGED <<spec, program>>
    BY <1>3 DEF Gate
  <2>4. spec \in Specs /\ program \in Programs[spec.class] BY <1>3 DEF Gate, VerdictInv
  <2> QED BY <2>1, <2>2, <2>3, <2>4 DEF VerdictInv, Signature, Coarse
<1>4. CASE Judge
  <2>1. UNCHANGED <<record, series, scored, last, console>> BY <1>4 DEF Judge
  <2>2. Fresh' = Fresh BY <1>1, <2>1
  <2>3. /\ stage' \in {"blessed", "idle"}
        /\ stage' = "blessed" => /\ UNCHANGED <<spec, program>>
                                 /\ reading' \in Readings /\ Plausible(reading', spec)
    BY <1>4 DEF Judge
  <2>4. spec \in Specs /\ program \in Programs[spec.class] /\ GatePasses(program, spec.class)
    BY <1>4 DEF Judge, VerdictInv
  <2> QED BY <2>1, <2>2, <2>3, <2>4 DEF VerdictInv, Signature, Coarse
<1>5. CASE Admit BY <1>5 DEF Admit, VerdictInv, Coarse
<1>6. CASE Recover
  <2>1. stage' = "idle" /\ UNCHANGED <<reading, record, series, scored, last, console>>
    BY <1>6 DEF Recover
  <2>2. Fresh' = Fresh BY <1>1, <2>1
  <2> QED BY <2>1, <2>2 DEF VerdictInv, Signature, Coarse
<1>7. CASE Passes BY <1>7 DEF Passes, VerdictInv, Coarse
<1>8. CASE Reads BY <1>8 DEF Reads, VerdictInv, Coarse
<1>9. CASE Assess
  <2>1. /\ last' = Signature(Fresh) /\ UNCHANGED <<trial, series>>
        /\ console' = IF console = None \/ last = Signature(Fresh) THEN console
                      ELSE [from |-> "push", verdict |-> Coarse(Signature(Fresh))]
    BY <1>9 DEF Assess
  <2>2. Fresh' = Fresh BY <1>1, <2>1
  <2>3. scored' => last' = Signature(Fresh)' BY <2>1, <2>2 DEF Signature
  <2>4. (console' # None /\ console'.from = "push") => console'.verdict = Coarse(last')
    <3>1. CASE console = None \/ last = Signature(Fresh)
      BY <2>1, <3>1 DEF VerdictInv
    <3>2. CASE ~(console = None \/ last = Signature(Fresh))
      <4>1. console' = [from |-> "push", verdict |-> Coarse(last')] BY <2>1, <3>2
      <4> QED BY <4>1
    <3> QED BY <3>1, <3>2
  <2> QED BY <2>1, <2>3, <2>4 DEF VerdictInv, Coarse
<1>10. CASE Connect
  <2>1. /\ console' = [from |-> "snapshot", verdict |-> None]
        /\ UNCHANGED <<trial, series, scored, last>>
    BY <1>10 DEF Connect
  <2>2. Fresh' = Fresh BY <1>1, <2>1
  <2>3. console'.from # "push" BY <2>1
  <2> QED BY <2>1, <2>2, <2>3 DEF VerdictInv, Signature
<1>11. CASE UNCHANGED vars
  <2>1. Fresh' = Fresh BY <1>1, <1>11 DEF vars
  <2> QED BY <1>11, <2>1 DEF vars, VerdictInv, Signature, Coarse
<1> QED BY <1>2, <1>3, <1>4, <1>5, <1>6, <1>7, <1>8, <1>9, <1>10, <1>11 DEF Next

\* What a judge said holds of the draft for as long as it is under trial, and the
\* watcher's memory and a console's agree.
THEOREM VerdictsKept == Spec => []VerdictInv
BY VerdictInit, VerdictStep, PTL DEF Spec

-----------------------------------------------------------------------------
\* The properties.

LEMMA Blessed == VerdictInv => BlessedIsSound
<1> SUFFICES ASSUME VerdictInv, stage = "blessed"
             PROVE  /\ \A loop \in program.loops : Iterations(loop.args) <= MaxForRange
                    /\ spec.class = "analog" => {adc.pin : adc \in program.adcs} \subseteq AdcPins
                    /\ program.imports \subseteq program.declared
                    /\ reading.kind # "text"
                    /\ (spec.class # "output" /\ reading.kind = "number") =>
                         /\ spec.hasMin => spec.min <= reading.value
                         /\ spec.hasMax => reading.value <= spec.max
                         /\ (spec.class = "analog" /\ spec.hasMin /\ spec.hasMax) =>
                              spec.min < reading.value /\ reading.value < spec.max
                         /\ spec.class = "pulse_timing" => reading.value > 0
  BY DEF BlessedIsSound
<1>1. /\ spec \in Specs /\ program \in Programs[spec.class]
      /\ GatePasses(program, spec.class)
      /\ reading \in Readings /\ Plausible(reading, spec)
  BY DEF VerdictInv
<1>2. spec.class \in Classes BY <1>1, VerdictAssumption
<1>3. \A loop \in program.loops : Iterations(loop.args) <= MaxForRange
  BY <1>1, <1>2, LoopsBounded
<1>4. spec.class = "analog" => {adc.pin : adc \in program.adcs} \subseteq AdcPins
  BY <1>1, GateKnows DEF AdcOK
<1>5. program.imports \subseteq program.declared BY <1>1, GateKnows
<1> QED BY <1>1, <1>3, <1>4, <1>5, PlausibleKnows

\* No program reaches the registry whose loops outrun the cap or whose test reading
\* lies outside the window (bringup/gate.py:145-242, plausibility.py:65-117).
THEOREM BlessedSound == Spec => []BlessedIsSound
BY VerdictsKept, Blessed, PTL

LEMMA Agrees == VerdictInv => ConsoleAgrees
<1> SUFFICES ASSUME VerdictInv, scored, console # None, console.from = "push"
             PROVE  console.verdict = Coarse(Fresh)
  BY DEF ConsoleAgrees
<1>1. console.verdict = Coarse(last) /\ last = Signature(Fresh) BY DEF VerdictInv
<1> QED BY <1>1, CoarseOfSignature

\* A console that was pushed a verdict shows the verdict of the series as it is, once
\* the watcher has looked (analytics/watcher.py:83-97).
THEOREM ConsolesAgree == Spec => []ConsoleAgrees
BY VerdictsKept, Agrees, PTL

LEMMA Caught == TypeOK /\ VerdictInv => SilenceIsCaught
<1> SUFFICES ASSUME TypeOK, VerdictInv, scored, Len(points) >= 3, Len(points) >= MinStatus
             PROVE  /\ (\A g \in Gaps(points) : silent > StaleFactor * g) =>
                         (last.status = "critical")
                    /\ (\A g \in Gaps(points) : silent <= StaleFactor * g) =>
                         ~Stale(points, silent)
  BY DEF SilenceIsCaught
<1>1. points \in Series /\ silent \in Nat BY DEF TypeOK, Series
<1>2. record = "sensor"
  <2>1. points # <<>> BY <1>1 DEF Series
  <2> QED BY <2>1 DEF VerdictInv
<1>3. last.status = Health(points, silent).status
  <2>1. last.status = Fresh.status BY DEF VerdictInv, Signature
  <2>2. Fresh.status = Health(points, silent).status BY <1>2 DEF Fresh, Payload
  <2> QED BY <2>1, <2>2
<1>4. Stale(points, silent) => last.status = "critical"
  <2> SUFFICES ASSUME Stale(points, silent) PROVE last.status = "critical" OBVIOUS
  <2>1. MinStatus \in Nat /\ Len(points) \in Nat BY <1>1, SeriesPlaces, HealthAssumption
  <2>2. ~(Len(points) < MinStatus) BY <2>1
  <2>3. Health(points, silent).status = StatusOf(100) BY <2>2, Zenon DEF Health
  <2> QED BY <1>3, <2>3, StatusIs
<1> QED BY <1>1, <1>4, StaleByCadence

\* A silence far beyond the cadence that the readings have shown is published as
\* critical, one within it never (analytics/health.py:90-113, 240-249).
THEOREM SilenceCaught == Spec => []SilenceIsCaught
BY TypeCorrect, VerdictsKept, Caught, PTL

\* Every reading leaves reasons, status and trend in agreement
\* (analytics/health.py:195-315).
THEOREM VerdictsInAgreement == Spec => VerdictsAgree
<1>1. TypeOK' => [Len(points') >= MinStatus =>
                    LET h == Health(points', silent')
                        t == Trend(points')
                    IN /\ h.status = "healthy" <=> h.reasons = {"within range"}
                       /\ t \in {"degrading", "critical"} => h.status # "healthy"
                       /\ t = "critical" => h.status = "critical"]_points
  <2> SUFFICES ASSUME TypeOK', Len(points') >= MinStatus PROVE Agree(points', silent')
    BY Zenon DEF Agree
  <2>1. points' \in Series BY DEF TypeOK, Series
  <2> QED BY <2>1, Agreement
<1> QED BY <1>1, TypeCorrect, PTL DEF VerdictsAgree

\* Scaling up by any whole number, inverting and shifting the values of a series leave
\* the variance and the railing as they are, and the drift unless the absolute 1e-9 of
\* _drift_component hid it before (analytics/health.py:13-22, 170).
UnitsNeverMatter ==
  [][\A a \in Int \ {0}, b \in Int :
       LET s == Values(points')
       IN s # <<>> => SameInUnit(s, [i \in DOMAIN s |-> a * s[i] + b])]_points

LEMMA SignalsOfPoints ==
  ASSUME TypeOK', Values(points') # <<>>, NEW a \in Int \ {0}, NEW b \in Int
  PROVE  SameInUnit(Values(points'), Scaled(Values(points'), a, b))
<1>1. points' \in Series BY DEF TypeOK, Series
<1>2. Values(points') \in Seq(Int) BY <1>1, SeriesPlaces
<1> QED BY <1>2, ScaledSignals

THEOREM AnyUnit == Spec => UnitsNeverMatter
<1>1. TypeOK' => [\A a \in Int \ {0}, b \in Int :
                    LET s == Values(points')
                    IN s # <<>> => SameInUnit(s, [i \in DOMAIN s |-> a * s[i] + b])]_points
  BY SignalsOfPoints, Zenon DEF Scaled
<1> QED BY <1>1, TypeCorrect, PTL DEF UnitsNeverMatter

\* The same for the unit that the run tries.
THEOREM UnitsIndifferent == Spec => UnitsDoNotMatter
<1>1. TypeOK' => [LET s == Values(points')
                  IN s # <<>> => SameInUnit(s, [i \in DOMAIN s |-> 1 - 3 * s[i]])]_points
  <2> SUFFICES ASSUME TypeOK', Values(points') # <<>>
               PROVE  SameInUnit(Values(points'),
                        [i \in DOMAIN Values(points') |-> 1 - 3 * Values(points')[i]])
    BY Zenon
  <2> DEFINE s == Values(points')  t == [i \in DOMAIN s |-> 1 - 3 * s[i]]
  <2>1. points' \in Series BY DEF TypeOK, Series
  <2>2. s \in Seq(Int) BY <2>1, SeriesPlaces
  <2>3. SameInUnit(s, Scaled(s, -3, 1))
    <3>1. -3 \in Int \ {0} /\ 1 \in Int OBVIOUS
    <3> QED BY <3>1, SignalsOfPoints
  <2>4. t = Scaled(s, -3, 1)
    <3> HIDE DEF s
    <3> DEFINE m == -3
    <3>1. \A i \in DOMAIN s : 1 - 3 * s[i] = m * s[i] + 1 BY <2>2
    <3> HIDE DEF m
    <3>2. t = [i \in DOMAIN s |-> m * s[i] + 1] BY <3>1
    <3>3. t = Scaled(s, m, 1) BY <3>2, Zenon DEF Scaled
    <3> QED BY <3>3 DEF m
  <2> QED BY <2>3, <2>4
<1> QED BY <1>1, TypeCorrect, PTL DEF UnitsDoNotMatter
=============================================================================
