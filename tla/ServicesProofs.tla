---------------------------- MODULE ServicesProofs ----------------------------
(***************************************************************************)
(* What the services' stages report is so, and what they do not report     *)
(* they own up to, for every project, set of options and number of replies *)
(* that fail.                                                              *)
(***************************************************************************)
EXTENDS Services, FiniteSetTheorems, SequenceTheorems, WellFoundedInduction, TLAPS

-----------------------------------------------------------------------------
(***************************************************************************)
(* Sample.  A strided list is the list in another order.                   *)
(***************************************************************************)

\* There is no infinite descent among the naturals.
LEMMA SmallestExists ==
  ASSUME NEW S \in SUBSET Nat, S # {}
  PROVE  \E x \in S : \A y \in S : x <= y
<1> DEFINE T == {1..x : x \in S}
<1>1. T \subseteq FiniteSubsetsOf(Nat) /\ T # {}
  <2>1. \A x \in S : IsFiniteSet(1..x) /\ 1..x \in SUBSET Nat
    BY FS_Interval
  <2> QED
    BY <2>1 DEF FiniteSubsetsOf
<1>2. PICK t \in T : \A u \in T : ~(<<u, t>> \in StrictSubsetOrdering(Nat))
  <2> HIDE DEF T
  <2> QED
    BY <1>1, FS_StrictSubsetOrderingWellFounded, WFMin, Zenon
<1>3. PICK x \in S : t = 1..x
  OBVIOUS
<1>4. ASSUME NEW y \in S, y < x PROVE FALSE
  <2>1. 1..y \subseteq 1..x /\ x \in 1..x /\ x \notin 1..y
    BY <1>4
  <2>2. 1..y # 1..x
    BY <2>1, Zenon
  <2>3. 1..y \in SUBSET Nat /\ 1..x \in SUBSET Nat /\ 1..y \in T
    OBVIOUS
  <2>4. <<1..y, t>> \in StrictSubsetOrdering(Nat)
    <3> HIDE DEF T
    <3> QED
      BY <1>3, <2>1, <2>2, <2>3 DEF StrictSubsetOrdering
  <2> QED
    BY <1>2, <2>3, <2>4, Zenon
<1> QED
  BY <1>4

\* What is divided: the quotient is the largest number that fits.
LEMMA Division ==
  ASSUME NEW a \in Nat, NEW d \in Nat, d > 0
  PROVE  /\ a \div d \in Nat
         /\ d * (a \div d) <= a
         /\ a < d * (a \div d) + d
OBVIOUS

LEMMA QuotientIsLargest ==
  ASSUME NEW a \in Nat, NEW d \in Nat, d > 0, NEW k \in Nat
  PROVE  d * k <= a <=> k <= a \div d
<1> DEFINE q == a \div d
<1>1. q \in Nat /\ d * q <= a /\ a < d * q + d
  BY Division
<1> HIDE DEF q
<1>2. ASSUME k <= q PROVE d * k <= a
  <2>1. d * k <= d * q
    BY <1>1, <1>2
  <2>2. d * k \in Nat /\ d * q \in Nat
    BY <1>1
  <2> QED
    BY <1>1, <2>1, <2>2
<1>3. ASSUME k > q PROVE a < d * k
  <2>1. d * (q + 1) <= d * k
    BY <1>1, <1>3
  <2>2. d * (q + 1) = d * q + d
    BY <1>1
  <2>3. d * k \in Nat /\ d * q \in Nat
    BY <1>1
  <2> QED
    BY <1>1, <2>1, <2>2, <2>3
<1> QED
  BY <1>1, <1>2, <1>3 DEF q

\* The stride is at least one, and its first pass is within the budget.
LEMMA StrideFits ==
  ASSUME NEW n \in Nat, NEW b \in Nat, b > 0, n > b
  PROVE  LET d == (n + b - 1) \div b IN
         d \in Nat /\ d > 0 /\ n <= d * b /\ (n + d - 1) \div d <= b
<1> DEFINE d == (n + b - 1) \div b
<1>1. n + b - 1 \in Nat
  OBVIOUS
<1>2. d \in Nat /\ b * d <= n + b - 1 /\ n + b - 1 < b * d + b
  BY <1>1, Division
<1>3. 1 <= d
  <2>1. b * 1 <= n + b - 1
    OBVIOUS
  <2> QED
    BY <1>1, <2>1, QuotientIsLargest
<1> HIDE DEF d
<1>4. n <= b * d /\ b * d = d * b /\ b * d \in Nat
  BY <1>2
<1>5. n + d - 1 \in Nat /\ d * (b + 1) = d * b + d
  BY <1>2, <1>3
<1>6. ~(d * (b + 1) <= n + d - 1)
  BY <1>2, <1>4, <1>5
<1>7. ~(b + 1 <= (n + d - 1) \div d)
  BY <1>2, <1>3, <1>5, <1>6, QuotientIsLargest
<1>8. (n + d - 1) \div d \in Nat
  BY <1>2, <1>3, <1>5, Division
<1> QED
  BY <1>2, <1>3, <1>4, <1>7, <1>8 DEF d

\* Every item keeps its place or takes another's: nothing is dropped or repeated.
Rearranges(p, n) ==
  /\ p \in [1..n -> 1..n]
  /\ \A i, j \in 1..n : p[i] = p[j] => i = j
  /\ \A j \in 1..n : \E i \in 1..n : p[i] = j

\* No item is a whole stride away from those that a budget of b reaches first.
Spans(p, n, b) ==
  \A j \in 1..n : \E i \in 1..n :
    i <= b /\ p[i] <= j /\ j - p[i] < (n + b - 1) \div b

\* The pass of a stride that begins behind off items.
Pass(n, d, off) == [i \in 1..((n - off + d - 1) \div d) |-> off + 1 + (i - 1) * d]

Class(j, d) == (j - 1) % d
Takes(p, j) == \E i \in 1..Len(p) : p[i] = j

LEMMA ClassIsBelowStride ==
  ASSUME NEW n \in Nat, NEW d \in Nat, d > 0
  PROVE  \A j \in 1..n : Class(j, d) \in Nat /\ Class(j, d) < d
BY DEF Class

\* Of the items in a class a pass takes each once.
LEMMA PassTakesAClass ==
  ASSUME NEW n \in Nat, NEW d \in Nat, d > 0, NEW off \in Nat, off < d
  PROVE  /\ Pass(n, d, off) \in Seq(1..n)
         /\ Len(Pass(n, d, off)) = (n - off + d - 1) \div d
         /\ \A i \in 1..Len(Pass(n, d, off)) :
              Pass(n, d, off)[i] = off + 1 + (i - 1) * d
         /\ \A i, j \in 1..Len(Pass(n, d, off)) :
              Pass(n, d, off)[i] = Pass(n, d, off)[j] => i = j
         /\ \A i \in 1..Len(Pass(n, d, off)) :
              Class(Pass(n, d, off)[i], d) = off
         /\ \A j \in 1..n : Class(j, d) = off => Takes(Pass(n, d, off), j)
<1> USE DEF Class
<1> DEFINE a == n - off + d - 1
           m == a \div d
<1>1. a \in Nat /\ m \in Nat
  <2>1. a \in Nat
    OBVIOUS
  <2> HIDE DEF a
  <2> QED
    BY <2>1, Division
<1>2. \A k \in Nat : d * k <= a <=> k <= m
  <2> HIDE DEF a
  <2> QED
    BY <1>1, QuotientIsLargest
<1> HIDE DEF m
<1>3. ASSUME NEW i \in 1..m
      PROVE  /\ (i - 1) * d \in Nat
             /\ off + 1 + (i - 1) * d \in 1..n
             /\ (off + 1 + (i - 1) * d - 1) % d = off
  <2>1. d * i <= a
    BY <1>1, <1>2
  <2>2. (i - 1) * d = d * i - d /\ (i - 1) * d \in Nat
    BY <1>1
  <2>3. d * i \in Int
    BY <1>1
  <2>4. off + 1 + (i - 1) * d \in 1..n
    BY <2>1, <2>2, <2>3
  <2>5. ASSUME NEW k \in Nat PROVE (off + k * d) % d = off
    OBVIOUS
  <2>6. off + 1 + (i - 1) * d - 1 = off + (i - 1) * d
    BY <2>2
  <2> QED
    BY <1>1, <2>2, <2>4, <2>5, <2>6
<1>4. ASSUME NEW j \in 1..n, (j - 1) % d = off
      PROVE  \E i \in 1..m : off + 1 + (i - 1) * d = j
  <2> DEFINE q == (j - 1) \div d
  <2>1. q \in Nat /\ j - 1 = d * q + off
    BY <1>4
  <2> HIDE DEF q
  <2>2. d * (q + 1) = d * q + d /\ d * q \in Nat
    BY <2>1
  <2>3. d * (q + 1) <= a
    BY <2>1, <2>2
  <2> DEFINE e == q + 1
  <2>4. e \in 1..m
    BY <1>1, <1>2, <2>1, <2>3
  <2>5. off + 1 + (e - 1) * d = j
    BY <2>1, <2>2
  <2> HIDE DEF e, m
  <2> QED
    BY <2>4, <2>5
<1>5. ASSUME NEW i \in 1..m, NEW j \in 1..m, (i - 1) * d = (j - 1) * d
      PROVE  i = j
  <2>1. CASE i < j
    <3>1. (i - 1) * d < (j - 1) * d
      BY <2>1, <1>1
    <3> QED
      BY <3>1, <1>5
  <2>2. CASE j < i
    <3>1. (j - 1) * d < (i - 1) * d
      BY <2>2, <1>1
    <3> QED
      BY <3>1, <1>5
  <2> QED
    BY <2>1, <2>2, <1>1
<1> DEFINE s == [i \in 1..m |-> off + 1 + (i - 1) * d]
<1>6. Pass(n, d, off) = s
  BY DEF Pass, m
<1>7. s \in Seq(1..n) /\ Len(s) = m
  <2>1. s \in [1..m -> 1..n]
    BY <1>3
  <2> HIDE DEF s
  <2> QED
    BY <1>1, <2>1
<1>8. \A i \in 1..m : s[i] = off + 1 + (i - 1) * d
  OBVIOUS
<1> HIDE DEF s
<1>9. \A i, j \in 1..m : s[i] = s[j] => i = j
  BY <1>3, <1>5, <1>8
<1>10. /\ \A i \in 1..m : Class(s[i], d) = off
       /\ \A j \in 1..n : Class(j, d) = off => \E i \in 1..m : s[i] = j
  BY <1>3, <1>4, <1>8
<1> QED
  BY <1>6, <1>7, <1>8, <1>9, <1>10 DEF m, Takes

\* The strided order of a list of n items, for a budget that does not pay for
\* all of them.
LEMMA StridedOrder ==
  ASSUME NEW T, NEW xs \in Seq(T), NEW b \in Nat, b > 0, Len(xs) > b
  PROVE  \E p : /\ Rearranges(p, Len(xs)) /\ Spans(p, Len(xs), b)
                /\ Strided(xs, b) = [i \in 1..Len(xs) |-> xs[p[i]]]
<1> DEFINE n == Len(xs)
           d == (n + b - 1) \div b
           Strip(off) == [i \in 1..((n - off + d - 1) \div d)
                          |-> xs[off + 1 + (i - 1) * d]]
<1>1. n \in Nat /\ \A i \in 1..n : xs[i] \in T
  OBVIOUS
<1>2. d \in Nat /\ d > 0 /\ n <= d * b /\ (n + d - 1) \div d <= b
  BY <1>1, StrideFits
<1> HIDE DEF d
<1>0. \A j \in 1..n : Class(j, d) \in Nat /\ Class(j, d) < d
  BY <1>1, <1>2, ClassIsBelowStride
<1> DEFINE Lists(p) == [i \in 1..Len(p) |-> xs[p[i]]]
<1>3. ASSUME NEW off \in Nat, off < d
      PROVE  Strip(off) = Lists(Pass(n, d, off))
  <2> DEFINE m == (n - off + d - 1) \div d
  <2>1. Len(Pass(n, d, off)) = m
    BY <1>1, <1>2, <1>3, PassTakesAClass
  <2>2. \A i \in 1..m : Pass(n, d, off)[i] = off + 1 + (i - 1) * d
    BY DEF Pass
  <2>3. Strip(off) = [i \in 1..m |-> xs[off + 1 + (i - 1) * d]]
    OBVIOUS
  <2> HIDE DEF m, n, Strip
  <2> QED
    BY <2>1, <2>2, <2>3
<1> HIDE DEF Strip
<1>30. ASSUME NEW off \in Nat, off < d
       PROVE  LET r == Pass(n, d, off) IN
              /\ r \in Seq(1..n)
              /\ \A i \in 1..Len(r) : r[i] = off + 1 + (i - 1) * d
              /\ \A i, j \in 1..Len(r) : r[i] = r[j] => i = j
              /\ \A j \in 1..n : Class(j, d) = off <=> \E i \in 1..Len(r) : r[i] = j
  <2>1. n \in Nat /\ d \in Nat /\ d > 0
    BY <1>1, <1>2
  <2> HIDE DEF n, Lists
  <2>2. Pass(n, d, off) \in Seq(1..n)
    BY <1>30, <2>1, PassTakesAClass
  <2>3. \A i \in 1..Len(Pass(n, d, off)) : Pass(n, d, off)[i] = off + 1 + (i - 1) * d
    BY <1>30, <2>1, PassTakesAClass
  <2>4. \A i, j \in 1..Len(Pass(n, d, off)) :
          Pass(n, d, off)[i] = Pass(n, d, off)[j] => i = j
    BY <1>30, <2>1, PassTakesAClass
  <2>5. \A j \in 1..n : Class(j, d) = off
          <=> \E i \in 1..Len(Pass(n, d, off)) : Pass(n, d, off)[i] = j
    <3> HIDE DEF n
    <3>1. \A j \in 1..n : Class(j, d) = off => Takes(Pass(n, d, off), j)
      BY <1>30, <2>1, PassTakesAClass
    <3>2. \A i \in 1..Len(Pass(n, d, off)) : Class(Pass(n, d, off)[i], d) = off
      BY <1>30, <2>1, PassTakesAClass
    <3> QED
      BY <3>1, <3>2, Zenon DEF Takes
  <2> QED
    BY <2>2, <2>3, <2>4, <2>5, Zenon
<1> DEFINE Solves(f, k) == f = [i \in 0..k |-> IF i = 0 THEN <<>> ELSE f[i - 1] \o Strip(i - 1)]
           Bad == {k \in Nat : ~\E f : Solves(f, k)}
<1>4. Bad = {}
  <2> SUFFICES ASSUME Bad # {} PROVE FALSE
    OBVIOUS
  <2>1. PICK k \in Bad : \A m \in Bad : k <= m
    <3>1. Bad \in SUBSET Nat
      OBVIOUS
    <3> HIDE DEF Bad
    <3> QED
      BY <3>1, SmallestExists
  <2>2. k \in Nat /\ k # 0
    <3>1. Solves([i \in 0..0 |-> <<>>], 0)
      OBVIOUS
    <3> QED
      BY <3>1
  <2>3. PICK f : Solves(f, k - 1)
    <3>1. k - 1 \in Nat /\ ~(k <= k - 1)
      BY <2>2
    <3>2. k - 1 \notin Bad
      <4> HIDE DEF Bad
      <4> QED
        BY <2>1, <3>1
    <3> QED
      BY <3>1, <3>2
  <2> DEFINE g == [i \in 0..k |-> IF i < k THEN f[i] ELSE f[k - 1] \o Strip(k - 1)]
  <2>4. Solves(g, k)
    <3>1. \A i \in 0..k : g[i] = IF i = 0 THEN <<>> ELSE g[i - 1] \o Strip(i - 1)
      <4> TAKE i \in 0..k
      <4>1. CASE i = k
        BY <4>1, <2>2
      <4>2. CASE i < k
        <5>1. i \in 0..(k - 1)
          BY <4>2, <2>2
        <5>2. f[i] = IF i = 0 THEN <<>> ELSE f[i - 1] \o Strip(i - 1)
          BY <2>3, <5>1
        <5>3. i # 0 => g[i - 1] = f[i - 1]
          BY <4>2, <2>2
        <5> QED
          BY <4>2, <5>2, <5>3
      <4> QED
        BY <4>1, <4>2, <2>2
    <3> QED
      BY <3>1
  <2> HIDE DEF g
  <2> QED
    BY <2>1, <2>4
<1> DEFINE up == CHOOSE f : Solves(f, d)
<1>5. Solves(up, d)
  <2>1. \E f : Solves(f, d)
    <3> HIDE DEF Solves
    <3> QED
      BY <1>2, <1>4
  <2> HIDE DEF Solves
  <2> QED
    BY <2>1
<1>6. Strided(xs, b) = up[d]
  <2>1. ~(b <= 0 \/ n <= b)
    BY <1>1
  <2> QED
    BY <2>1 DEF Strided, d, Strip
<1> HIDE DEF up, n
\* After k passes the items of the first k classes have been taken, once each.
<1> DEFINE Taken(p, k) ==
             /\ p \in Seq(1..n)
             /\ \A i, j \in 1..Len(p) : p[i] = p[j] => i = j
             /\ \A j \in 1..n : Class(j, d) < k <=> \E i \in 1..Len(p) : p[i] = j
             /\ k > 0 => /\ Len(Pass(n, d, 0)) <= Len(p)
                         /\ \A i \in 1..Len(Pass(n, d, 0)) : p[i] = Pass(n, d, 0)[i]
             /\ up[k] = Lists(p)
<1>7. \E p : Taken(p, 0)
  <2> DEFINE p == <<>>
  <2>1. up[0] = <<>> /\ Lists(<<>>) = <<>>
    BY <1>2, <1>5
  <2>2. p \in Seq(1..n) /\ Len(p) = 0
    OBVIOUS
  <2>3. \A j \in 1..n : Class(j, d) >= 0
    BY <1>0
  <2>4. Taken(p, 0)
    <3>1. \A j \in 1..n : ~(Class(j, d) < 0)
      BY <1>0
    <3>2. 1..Len(p) = {} /\ ~(0 > 0)
      BY <2>2
    <3> QED
      BY <2>1, <2>2, <3>1, <3>2, Zenon
  <2> QED
    BY <2>4
<1>8. ASSUME NEW k \in 1..d, NEW p, Taken(p, k - 1)
      PROVE  \E q : Taken(q, k)
  <2> DEFINE r == Pass(n, d, k - 1)
             q == p \o r
  <2>1. k - 1 \in Nat /\ k - 1 < d /\ k \in 0..d /\ k # 0
    BY <1>2
  <2>2. /\ r \in Seq(1..n)
        /\ \A i, j \in 1..Len(r) : r[i] = r[j] => i = j
        /\ \A j \in 1..n : Class(j, d) = k - 1 <=> \E i \in 1..Len(r) : r[i] = j
    <3>1. n \in Nat
      BY <1>1
    <3>2. /\ Pass(n, d, k - 1) \in Seq(1..n)
          /\ \A i, j \in 1..Len(Pass(n, d, k - 1)) :
               Pass(n, d, k - 1)[i] = Pass(n, d, k - 1)[j] => i = j
          /\ \A j \in 1..n : Class(j, d) = k - 1 <=>
               \E i \in 1..Len(Pass(n, d, k - 1)) : Pass(n, d, k - 1)[i] = j
      BY <2>1, <1>30, Zenon
    <3> QED
      BY <3>2
  <2>20. /\ p \in Seq(1..n)
         /\ \A i, j \in 1..Len(p) : p[i] = p[j] => i = j
         /\ \A j \in 1..n : Class(j, d) < k - 1 <=> \E i \in 1..Len(p) : p[i] = j
         /\ up[k - 1] = Lists(p)
    <3> HIDE DEF Lists, Class
    <3> QED
      BY <1>8, Zenon
  <2>21. Len(p) \in Nat /\ \A i \in 1..Len(p) : p[i] \in 1..n
    <3>1. p \in Seq(1..n)
      BY <2>20
    <3> QED
      BY <3>1, LenProperties, Zenon
  <2>22. Len(r) \in Nat /\ \A i \in 1..Len(r) : r[i] \in 1..n
    <3>1. r \in Seq(1..n)
      BY <2>2
    <3> HIDE DEF r
    <3> QED
      BY <3>1, LenProperties, Zenon
  <2>3. up[k] = up[k - 1] \o Strip(k - 1)
    BY <1>5, <2>1
  <2>4. Strip(k - 1) = Lists(r)
    BY <1>3, <2>1
  <2>5. k = 1 => Len(p) = 0
    <3> SUFFICES ASSUME k = 1, Len(p) # 0 PROVE FALSE
      OBVIOUS
    <3>1. 1 \in 1..Len(p) /\ p[1] \in 1..n
      BY <2>21
    <3>2. Class(p[1], d) < 0
      <4>1. Class(p[1], d) < k - 1
        BY <2>20, <3>1, Zenon
      <4> QED
        BY <4>1
    <3>3. Class(p[1], d) >= 0
      BY <1>0, <3>1
    <3>4. Class(p[1], d) \in Int
      BY <1>0, <3>1
    <3> QED
      BY <3>2, <3>3, <3>4
  <2>6. k = 1 => r = Pass(n, d, 0)
    OBVIOUS
  <2> HIDE DEF r
  <2>7. Len(p) \in Nat /\ Len(r) \in Nat
    BY <2>21, <2>22
  <2>8. /\ q \in Seq(1..n) /\ Len(q) = Len(p) + Len(r)
        /\ \A i \in 1..Len(p) : q[i] = p[i]
        /\ \A i \in 1..Len(r) : q[Len(p) + i] = r[i]
    BY <1>8, <2>2
  <2> HIDE DEF q
  <2>9. \A i \in 1..Len(q) : i \in 1..Len(p) \/ \E e \in 1..Len(r) : i = Len(p) + e
    <3> TAKE i \in 1..Len(q)
    <3>1. CASE i > Len(p)
      <4>1. i - Len(p) \in 1..Len(r) /\ i = Len(p) + (i - Len(p))
        BY <2>7, <2>8, <3>1
      <4> QED
        BY <4>1
    <3> QED
      BY <3>1, <2>7
  <2>10. /\ \A i \in 1..Len(p) : p[i] \in 1..n /\ Class(p[i], d) < k - 1
         /\ \A i \in 1..Len(r) : r[i] \in 1..n /\ Class(r[i], d) = k - 1
    BY <2>2, <2>20, <2>21, <2>22, Zenon
  <2>11. \A i, j \in 1..Len(q) : q[i] = q[j] => i = j
    <3> SUFFICES ASSUME NEW i \in 1..Len(q), NEW j \in 1..Len(q), q[i] = q[j]
                 PROVE  i = j
      OBVIOUS
    <3>1. CASE i \in 1..Len(p) /\ j \in 1..Len(p)
      BY <1>8, <2>8, <3>1
    <3>2. CASE i \in 1..Len(p) /\ j \notin 1..Len(p)
      BY <2>1, <2>8, <2>9, <2>10, <3>2
    <3>3. CASE i \notin 1..Len(p) /\ j \in 1..Len(p)
      BY <2>1, <2>8, <2>9, <2>10, <3>3
    <3>4. CASE i \notin 1..Len(p) /\ j \notin 1..Len(p)
      BY <2>2, <2>8, <2>9, <3>4
    <3> QED
      BY <3>1, <3>2, <3>3, <3>4
  <2>12. ASSUME NEW j \in 1..n
         PROVE  Class(j, d) < k <=> \E i \in 1..Len(q) : q[i] = j
    <3>1. Class(j, d) \in Int
      BY <1>0
    <3>2. Class(j, d) < k <=> Class(j, d) < k - 1 \/ Class(j, d) = k - 1
      BY <2>1, <3>1
    <3>3. Class(j, d) < k - 1 <=> \E i \in 1..Len(p) : p[i] = j
      BY <1>8
    <3>4. Class(j, d) = k - 1 <=> \E i \in 1..Len(r) : r[i] = j
      BY <2>2
    <3>5. \A i \in 1..Len(p) : i \in 1..Len(q)
      BY <2>7, <2>8
    <3>6. \A i \in 1..Len(r) : Len(p) + i \in 1..Len(q)
      BY <2>7, <2>8
    <3> QED
      <4>1. ASSUME NEW i \in 1..Len(p), p[i] = j PROVE \E e \in 1..Len(q) : q[e] = j
        BY <2>8, <3>5, <4>1
      <4>2. ASSUME NEW i \in 1..Len(r), r[i] = j PROVE \E e \in 1..Len(q) : q[e] = j
        BY <2>8, <3>6, <4>2
      <4>3. ASSUME NEW e \in 1..Len(q), q[e] = j
            PROVE  (\E i \in 1..Len(p) : p[i] = j) \/ (\E i \in 1..Len(r) : r[i] = j)
        BY <2>8, <2>9, <4>3, Zenon
      <4> QED
        BY <3>2, <3>3, <3>4, <4>1, <4>2, <4>3, Zenon
  <2>13. /\ Len(Pass(n, d, 0)) <= Len(q)
         /\ \A i \in 1..Len(Pass(n, d, 0)) : q[i] = Pass(n, d, 0)[i]
    <3>1. CASE k = 1
      BY <2>5, <2>6, <2>7, <2>8, <3>1
    <3>2. CASE k # 1
      <4>1. /\ Len(Pass(n, d, 0)) <= Len(p)
            /\ \A i \in 1..Len(Pass(n, d, 0)) : p[i] = Pass(n, d, 0)[i]
        BY <1>8, <2>1, <3>2
      <4>2. Len(Pass(n, d, 0)) \in Nat
        BY <1>1, <1>2, PassTakesAClass, LenProperties
      <4> QED
        BY <4>1, <4>2, <2>7, <2>8
    <3> QED
      BY <3>1, <3>2
  <2>14. up[k] = Lists(q)
    <3>1. Lists(p) \in Seq(T) /\ Lists(r) \in Seq(T) /\ Lists(q) \in Seq(T)
      <4>1. ASSUME NEW s \in Seq(1..n) PROVE Lists(s) \in Seq(T)
        <5>1. Len(s) \in Nat /\ \A i \in 1..Len(s) : xs[s[i]] \in T
          BY <1>1
        <5> QED
          BY <5>1
      <4> QED
        BY <2>2, <2>8, <2>20, <4>1, Zenon
    <3>2. /\ Len(Lists(p)) = Len(p) /\ Len(Lists(r)) = Len(r)
          /\ Len(Lists(q)) = Len(p) + Len(r)
      BY <2>7, <2>8
    <3>3. Lists(p) \o Lists(r) \in Seq(T)
          /\ Len(Lists(p) \o Lists(r)) = Len(p) + Len(r)
          /\ \A i \in 1..Len(p) + Len(r) : (Lists(p) \o Lists(r))[i] =
               IF i <= Len(p) THEN Lists(p)[i] ELSE Lists(r)[i - Len(p)]
      <4> DEFINE u == Lists(p)
                 v == Lists(r)
      <4>1. u \in Seq(T) /\ v \in Seq(T) /\ Len(u) = Len(p) /\ Len(v) = Len(r)
        BY <3>1, <3>2, Zenon
      <4> HIDE DEF u, v
      <4>2. /\ u \o v \in Seq(T) /\ Len(u \o v) = Len(u) + Len(v)
            /\ \A i \in 1..Len(u) + Len(v) :
                 (u \o v)[i] = IF i <= Len(u) THEN u[i] ELSE v[i - Len(u)]
        BY <4>1, ConcatProperties, Zenon
      <4>3. /\ u \o v \in Seq(T) /\ Len(u \o v) = Len(p) + Len(r)
            /\ \A i \in 1..Len(p) + Len(r) :
                 (u \o v)[i] = IF i <= Len(p) THEN u[i] ELSE v[i - Len(p)]
        BY <4>1, <4>2
      <4> QED
        BY <4>3, Zenon DEF u, v
    <3>4. \A i \in 1..Len(p) + Len(r) : (Lists(p) \o Lists(r))[i] = Lists(q)[i]
      <4> TAKE i \in 1..Len(p) + Len(r)
      <4>1. Lists(q)[i] = xs[q[i]]
        BY <2>8
      <4>2. CASE i <= Len(p)
        <5>1. i \in 1..Len(p)
          BY <2>7, <4>2
        <5>2. Lists(p)[i] = xs[p[i]]
          BY <5>1
        <5> QED
          BY <2>8, <3>3, <4>1, <4>2, <5>1, <5>2
      <4>3. CASE ~(i <= Len(p))
        <5>1. i - Len(p) \in 1..Len(r) /\ Len(p) + (i - Len(p)) = i
          BY <2>7, <4>3
        <5>2. Lists(r)[i - Len(p)] = xs[r[i - Len(p)]]
          BY <5>1
        <5>3. q[i] = r[i - Len(p)]
          BY <2>8, <5>1
        <5> QED
          BY <3>3, <4>1, <4>3, <5>2, <5>3
      <4> QED
        BY <4>2, <4>3
    <3>5. Lists(p) \o Lists(r) = Lists(q)
      <4> HIDE DEF Lists
      <4> QED
        BY <3>1, <3>2, <3>3, <3>4, <2>7, SeqEqual
    <3>6. up[k - 1] = Lists(p)
      BY <2>20, Zenon
    <3> HIDE DEF Lists
    <3> QED
      BY <2>3, <2>4, <3>5, <3>6
  <2>15. Taken(q, k)
    <3> HIDE DEF Lists
    <3> QED
      BY <2>8, <2>11, <2>12, <2>13, <2>14
  <2> HIDE DEF Taken
  <2> QED
    BY <2>15
<1> HIDE DEF Taken, Lists
<1>9. \E p : Taken(p, d)
  <2> DEFINE Worse == {k \in 0..d : ~\E p : Taken(p, k)}
  <2>1. Worse = {}
    <3> SUFFICES ASSUME Worse # {} PROVE FALSE
      OBVIOUS
    <3>1. PICK k \in Worse : \A m \in Worse : k <= m
      <4>1. Worse \in SUBSET Nat
        BY <1>2
      <4> HIDE DEF Worse
      <4> QED
        BY <4>1, SmallestExists
    <3>2. k \in 1..d
      BY <1>2, <1>7, <3>1
    <3>3. k - 1 \in 0..d /\ ~(k <= k - 1)
      BY <1>2, <3>2
    <3>4. k - 1 \notin Worse
      <4> HIDE DEF Worse
      <4> QED
        BY <3>1, <3>3, Zenon
    <3>5. PICK p : Taken(p, k - 1)
      BY <3>3, <3>4
    <3> QED
      BY <1>8, <3>1, <3>2, <3>5
  <2>2. d \in 0..d
    BY <1>2
  <2> QED
    BY <2>1, <2>2
<1>10. PICK p : Taken(p, d)
  BY <1>9
<1>11. /\ p \in Seq(1..n)
       /\ \A i, j \in 1..Len(p) : p[i] = p[j] => i = j
       /\ \A j \in 1..n : \E i \in 1..Len(p) : p[i] = j
       /\ Len(Pass(n, d, 0)) <= Len(p)
       /\ \A i \in 1..Len(Pass(n, d, 0)) : p[i] = Pass(n, d, 0)[i]
       /\ up[d] = Lists(p)
  <2> QED
    BY <1>0, <1>2, <1>10 DEF Taken
<1>12. Len(p) = n
  <2>1. p \in [1..Len(p) -> 1..n] /\ Len(p) \in Nat
    BY <1>11, LenProperties, Zenon
  <2>2. p \in Bijection(1..Len(p), 1..n)
    BY <1>11, <2>1 DEF Bijection, Injection, Surjection, IsInjective
  <2>3. ExistsBijection(1..Len(p), 1..n)
    BY <2>2 DEF ExistsBijection
  <2>4. Cardinality(1..n) = Len(p)
    BY <2>1, <2>3, FS_CountingElements
  <2>5. Cardinality(1..n) = n
    BY <1>1, FS_Interval
  <2> QED
    BY <2>4, <2>5
<1>13. Rearranges(p, n)
  <2>1. p \in [1..n -> 1..n]
    BY <1>11, <1>12
  <2> QED
    BY <1>11, <1>12, <2>1 DEF Rearranges
<1>14. Spans(p, n, b)
  <2> SUFFICES ASSUME NEW j \in 1..n
               PROVE  \E i \in 1..n : i <= b /\ p[i] <= j /\ j - p[i] < d
    BY DEF Spans, d
  <2> DEFINE q == (j - 1) \div d
  <2>1. q \in Nat /\ d * q <= j - 1 /\ j - 1 < d * q + d
    <3>1. j - 1 \in Nat
      OBVIOUS
    <3> QED
      BY <1>2, <3>1, Division
  <2> HIDE DEF q
  <2>2. q + 1 \in 1..Len(Pass(n, d, 0))
    <3>1. Len(Pass(n, d, 0)) = (n - 0 + d - 1) \div d
      BY <1>1, <1>2, PassTakesAClass
    <3>2. n - 0 + d - 1 = n + d - 1 /\ n + d - 1 \in Nat
      BY <1>1, <1>2
    <3>3. d * (q + 1) = d * q + d /\ d * q \in Nat
      BY <1>2, <2>1
    <3>4. d * (q + 1) <= n + d - 1
      BY <1>1, <1>2, <2>1, <3>3
    <3>5. q + 1 <= (n + d - 1) \div d
      BY <1>2, <2>1, <3>2, <3>4, QuotientIsLargest
    <3>6. (n + d - 1) \div d \in Nat
      BY <1>2, <3>2, Division
    <3> QED
      BY <2>1, <3>1, <3>2, <3>5, <3>6
  <2>3. Len(Pass(n, d, 0)) <= b /\ Len(Pass(n, d, 0)) <= n
        /\ Len(Pass(n, d, 0)) \in Nat
    <3>1. Len(Pass(n, d, 0)) = (n - 0 + d - 1) \div d /\ n - 0 + d - 1 = n + d - 1
      <4>1. n \in Nat /\ d \in Nat /\ 0 \in Nat /\ 0 < d /\ d > 0
        BY <1>1, <1>2
      <4>2. Len(Pass(n, d, 0)) = (n - 0 + d - 1) \div d
        BY <4>1, PassTakesAClass, Zenon
      <4> QED
        BY <4>1, <4>2
    <3>2. Len(Pass(n, d, 0)) \in Nat
      BY <1>1, <1>2, PassTakesAClass, LenProperties
    <3> QED
      BY <1>2, <1>11, <1>12, <3>1, <3>2
  <2>4. p[q + 1] = d * q + 1
    <3>1. n \in Nat /\ d \in Nat /\ 0 \in Nat /\ 0 < d /\ d > 0
      BY <1>1, <1>2
    <3>2. \A i \in 1..Len(Pass(n, d, 0)) : Pass(n, d, 0)[i] = 0 + 1 + (i - 1) * d
      BY <3>1, <1>30, Zenon
    <3> DEFINE e == q + 1
    <3>3. e \in 1..Len(Pass(n, d, 0)) /\ e - 1 = q
      BY <2>1, <2>2
    <3> HIDE DEF e
    <3>4. Pass(n, d, 0)[e] = 0 + 1 + (e - 1) * d
      BY <3>2, <3>3, Zenon
    <3>5. q * d = d * q /\ d * q \in Nat
      BY <1>2, <2>1
    <3>6. p[e] = Pass(n, d, 0)[e]
      BY <1>11, <3>3, Zenon
    <3>7. p[e] = 0 + 1 + q * d
      BY <3>3, <3>4, <3>6, Zenon
    <3>8. p[e] = d * q + 1
      BY <3>5, <3>7
    <3> QED
      BY <3>8 DEF e
  <2>5. d * q \in Nat
    BY <1>2, <2>1
  <2>6. q + 1 \in 1..n /\ q + 1 <= b /\ p[q + 1] <= j /\ j - p[q + 1] < d
    BY <1>1, <1>2, <2>1, <2>2, <2>3, <2>4, <2>5
  <2> QED
    BY <2>6
<1>15. Strided(xs, b) = [i \in 1..n |-> xs[p[i]]]
  BY <1>6, <1>11, <1>12 DEF Lists
<1> QED
  BY <1>13, <1>14, <1>15 DEF n

\* sample.go: every element appears exactly once, nothing is dropped.  Whatever
\* the budget, the sample that is taken from is the list in another order.
THEOREM StridedIsAPermutation ==
  ASSUME NEW T, NEW xs \in Seq(T), NEW b \in Int
  PROVE  \E p : /\ Rearranges(p, Len(xs))
                /\ Strided(xs, b) = [i \in 1..Len(xs) |-> xs[p[i]]]
<1>1. CASE b <= 0 \/ Len(xs) <= b
  <2> DEFINE p == [i \in 1..Len(xs) |-> i]
  <2>1. Rearranges(p, Len(xs))
    BY DEF Rearranges
  <2>2. Strided(xs, b) = xs /\ xs = [i \in 1..Len(xs) |-> xs[p[i]]]
    BY <1>1 DEF Strided
  <2> HIDE DEF p
  <2> QED
    BY <2>1, <2>2
<1>2. CASE ~(b <= 0 \/ Len(xs) <= b)
  <2>1. b \in Nat /\ b > 0 /\ Len(xs) > b
    BY <1>2
  <2>2. \E p : /\ Rearranges(p, Len(xs)) /\ Spans(p, Len(xs), b)
               /\ Strided(xs, b) = [i \in 1..Len(xs) |-> xs[p[i]]]
    BY <2>1, StridedOrder
  <2> QED
    BY <2>2, Zenon
<1> QED
  BY <1>1, <1>2

\* sample.go: any prefix is a spread.  Where the budget does not pay for the
\* whole list, what it pays for reaches within one stride of every item, so the
\* items left out are not those at the end of the alphabet.
THEOREM SampleSpansTheList ==
  ASSUME NEW T, NEW xs \in Seq(T), NEW b \in Nat, b > 0, Len(xs) > b
  PROVE  \E p : /\ Rearranges(p, Len(xs)) /\ Spans(p, Len(xs), b)
                /\ Len(Sampled(xs, b)) = b
                /\ \A i \in 1..b : Sampled(xs, b)[i] = xs[p[i]]
<1>1. PICK p : /\ Rearranges(p, Len(xs)) /\ Spans(p, Len(xs), b)
               /\ Strided(xs, b) = [i \in 1..Len(xs) |-> xs[p[i]]]
  BY StridedOrder, Zenon
<1> DEFINE s == [i \in 1..Len(xs) |-> xs[p[i]]]
<1>2. s \in Seq(T) /\ Len(s) = Len(xs)
  <2>1. \A i \in 1..Len(xs) : p[i] \in 1..Len(xs)
    BY <1>1 DEF Rearranges
  <2>2. \A i \in 1..Len(xs) : xs[p[i]] \in T
    BY <2>1
  <2>3. s \in [1..Len(xs) -> T]
    BY <2>2
  <2> HIDE DEF s
  <2> QED
    BY <2>3
<1>3. Sampled(xs, b) = SubSeq(s, 1, b)
  BY <1>1, <1>2 DEF Sampled, First, Lesser
<1>4. \A i \in 1..b : s[i] = xs[p[i]]
  OBVIOUS
<1> HIDE DEF s
<1>5. Len(SubSeq(s, 1, b)) = b /\ \A i \in 1..b : SubSeq(s, 1, b)[i] = s[i]
  BY <1>2
<1> QED
  BY <1>1, <1>3, <1>4, <1>5

-----------------------------------------------------------------------------
(***************************************************************************)
(* Routines.  What a budget that is not bound asks for is everything.      *)
(***************************************************************************)

LEMMA StridedIsAList ==
  ASSUME NEW T, NEW xs \in Seq(T), NEW b \in Int
  PROVE  Strided(xs, b) \in Seq(T) /\ Len(Strided(xs, b)) = Len(xs)
<1>1. PICK p : /\ Rearranges(p, Len(xs))
               /\ Strided(xs, b) = [i \in 1..Len(xs) |-> xs[p[i]]]
  BY StridedIsAPermutation, Zenon
<1>2. \A i \in 1..Len(xs) : p[i] \in 1..Len(xs)
  BY <1>1 DEF Rearranges
<1>3. \A i \in 1..Len(xs) : xs[p[i]] \in T
  BY <1>2
<1>4. Strided(xs, b) \in [1..Len(xs) -> T]
  BY <1>1, <1>3
<1> QED
  BY <1>4

LEMMA PrefixesAreAList ==
  ASSUME NEW T, NEW xs \in Seq(T)
  PROVE  Prefixes(xs) \in Seq(T \X Nat) /\ Len(Prefixes(xs)) = Cuts * Len(xs)
<1> DEFINE n == Cuts * Len(xs)
<1>1. n \in Nat /\ Len(xs) \in Nat
  BY DEF Cuts
<1>2. ASSUME NEW i \in 1..n
      PROVE  <<xs[((i - 1) \div Cuts) + 1], i % Cuts>> \in T \X Nat
  <2>1. ((i - 1) \div Cuts) + 1 \in 1..Len(xs) /\ i % Cuts \in Nat
    BY <1>1 DEF Cuts
  <2> QED
    BY <2>1
<1>3. Prefixes(xs) \in [1..n -> T \X Nat]
  BY <1>2 DEF Prefixes
<1> HIDE DEF n
<1>4. Prefixes(xs) \in Seq(T \X Nat) /\ Len(Prefixes(xs)) = n
  BY <1>1, <1>3
<1> QED
  BY <1>4 DEF n

Maximum(m) == IF m <= 0 THEN DefaultCandidates ELSE m
AllCandidates == Prefixes(Snake) \o Prefixes(Plain)
Seeds == Range(Snake) \cup Range(Plain)

LEMMA Candidates ==
  ASSUME NEW m \in Int
  PROVE  /\ RoutineCandidates(m) \in Seq(Seeds \X Nat)
         /\ Len(RoutineCandidates(m)) =
              Lesser(Maximum(m), Cuts * (Len(Snake) + Len(Plain)))
         /\ Maximum(m) >= Cuts * (Len(Snake) + Len(Plain)) =>
              RoutineCandidates(m) = AllCandidates
<1> DEFINE T == Seeds
           max == Maximum(m)
           per == max \div Cuts
           P == Prefixes(Strided(Snake, per))
           Q == Prefixes(Strided(Plain, per))
<1>1. max \in Nat /\ per \in Nat /\ max > 0
  BY DEF Maximum, Cuts, DefaultCandidates
<1>2. Snake \in Seq(T) /\ Plain \in Seq(T)
  <2>1. Range(Snake) \subseteq T /\ Range(Plain) \subseteq T
    BY DEF Seeds
  <2>2. Snake \in Seq(Range(Snake)) /\ Plain \in Seq(Range(Plain))
    BY RoutinesAssumption
  <2> HIDE DEF T
  <2> QED
    BY <2>1, <2>2
<1>3. Len(Snake) \in Nat /\ Len(Plain) \in Nat
  BY <1>2
<1> HIDE DEF T
<1>4. RoutineCandidates(m) = First(P \o Q, max)
  BY DEF RoutineCandidates, Maximum
<1>5. /\ P \in Seq(T \X Nat) /\ Len(P) = Cuts * Len(Snake)
      /\ Q \in Seq(T \X Nat) /\ Len(Q) = Cuts * Len(Plain)
  <2>1. /\ Strided(Snake, per) \in Seq(T) /\ Len(Strided(Snake, per)) = Len(Snake)
        /\ Strided(Plain, per) \in Seq(T) /\ Len(Strided(Plain, per)) = Len(Plain)
    BY <1>1, <1>2, StridedIsAList
  <2> HIDE DEF per
  <2> QED
    BY <2>1, PrefixesAreAList
<1>6. max >= Cuts * (Len(Snake) + Len(Plain)) =>
        P = Prefixes(Snake) /\ Q = Prefixes(Plain)
  <2> SUFFICES ASSUME max >= Cuts * (Len(Snake) + Len(Plain))
               PROVE  P = Prefixes(Snake) /\ Q = Prefixes(Plain)
    OBVIOUS
  <2>1. Len(Snake) <= per /\ Len(Plain) <= per
    BY <1>1, <1>3 DEF Cuts
  <2>2. Strided(Snake, per) = Snake /\ Strided(Plain, per) = Plain
    BY <2>1 DEF Strided
  <2> QED
    BY <2>2
<1> HIDE DEF P, Q, max, per
<1>7. P \o Q \in Seq(T \X Nat) /\ Len(P \o Q) = Cuts * (Len(Snake) + Len(Plain))
  <2> DEFINE U == T \X Nat
  <2>0. P \in Seq(U) /\ Q \in Seq(U)
    BY <1>5
  <2> HIDE DEF U
  <2>2. P \o Q \in Seq(U) /\ Len(P \o Q) = Len(P) + Len(Q)
    BY <2>0, ConcatProperties
  <2>1. P \o Q \in Seq(T \X Nat) /\ Len(P \o Q) = Len(P) + Len(Q)
    BY <2>2 DEF U
  <2> QED
    BY <1>3, <1>5, <2>1 DEF Cuts
<1> DEFINE all == P \o Q
<1>8. First(all, max) \in Seq(T \X Nat)
      /\ Len(First(all, max)) = Lesser(max, Len(all))
      /\ (max >= Len(all) => First(all, max) = all)
  <2>1. all \in Seq(T \X Nat)
    BY <1>7
  <2> HIDE DEF all
  <2>2. Lesser(max, Len(all)) \in 0..Len(all)
        /\ (max >= Len(all) => Lesser(max, Len(all)) = Len(all))
    BY <1>1, <2>1 DEF Lesser
  <2>3. SubSeq(all, 1, Len(all)) = all
    BY <2>1
  <2> DEFINE k == Lesser(max, Len(all))
  <2>4. k \in 0..Len(all) /\ (max >= Len(all) => k = Len(all))
    BY <2>2
  <2> HIDE DEF k
  <2>5. SubSeq(all, 1, k) \in Seq(T \X Nat) /\ Len(SubSeq(all, 1, k)) = k
    BY <2>1, <2>4
  <2> QED
    BY <2>3, <2>4, <2>5 DEF First, k
<1> QED
  BY <1>4, <1>6, <1>7, <1>8 DEF T, max, AllCandidates

\* BudgetFinding is the whole truth: a sweep it says nothing of has asked for
\* every candidate.
LEMMA UncutAsksForEverything ==
  ASSUME NEW m \in Int,
         ~(Len(RoutineCandidates(m)) < Wanted)
  PROVE  RoutineCandidates(m)
           = RoutineCandidates(Cuts * (Len(Snake) + Len(Plain)) + 1)
<1> DEFINE n == Cuts * (Len(Snake) + Len(Plain))
<1>1. n \in Nat
  BY RoutinesAssumption DEF Cuts
<1>2. /\ Len(RoutineCandidates(m)) = Lesser(Maximum(m), n)
      /\ Maximum(m) >= n => RoutineCandidates(m) = AllCandidates
  BY Candidates
<1>3. n + 1 \in Int /\ Maximum(n + 1) = n + 1
  BY <1>1 DEF Maximum
<1>4. /\ Wanted = Lesser(Maximum(n + 1), n)
      /\ Maximum(n + 1) >= n => RoutineCandidates(n + 1) = AllCandidates
  BY <1>3, Candidates DEF Wanted
<1>5. Maximum(m) \in Nat
  BY DEF Maximum, DefaultCandidates
<1> HIDE DEF n
<1>6. Wanted = n /\ RoutineCandidates(n + 1) = AllCandidates
  BY <1>1, <1>3, <1>4 DEF Lesser
<1>7. Maximum(m) >= n
  BY <1>1, <1>2, <1>5, <1>6 DEF Lesser
<1> QED
  BY <1>2, <1>6, <1>7 DEF n

-----------------------------------------------------------------------------
(***************************************************************************)
(* The inductive invariant.  A scan is in one stage at a time, so what an  *)
(* earlier stage owed the report is stated from the stage that follows it. *)
(***************************************************************************)

Sweeping == pc \in {"sweep", "call", "sql"}
Writing == pc \in {"upload", "readBack", "remove"}
Asking == pc \in {"auth", "list", "claim", "names", "buckets", "functions"}
Listening == pc \in {"dial", "control", "join", "listen", "trigger", "conclude"}

Ranged ==
  /\ target \in Targets /\ opts \in Options
  /\ Sweeping \/ Writing \/ Asking \/ Listening \/ Done
  /\ schema \in Schemas /\ todo \subseteq Schemas \ {Default, schema}
  /\ ~(Sweeping /\ schema # Default) => todo = {}
  /\ Writing \/ Asking => schema = Default
  /\ socket \in {"closed", "open", "expired"}

\* No routine is disclosed that does not exist.
Disclosing ==
  /\ DOMAIN known = Schemas /\ DOMAIN verdict = Schemas
  /\ \A s \in Schemas : known[s] \subseteq DOMAIN target.routines[s]

Counted == IsFiniteSet(faults) /\ Cardinality(faults) <= MaxFaults

\* What is spent on another schema is spent of both budgets.
Charged ==
  /\ extra \in Nat /\ rpc \in Nat /\ extra <= rpc
  /\ rpc - extra = NewBudget(opts.maxRPC) - HalfForExtra(opts.maxRPC)

\* A bucket in the result was listed or is public, unless the control failed.
Heard ==
  \A b \in buckets : b \in Listed \/ Exposed(b) \/ Failed(Control)

Writable(b) ==
  Storage.host = "storage" /\ Exposed(b) /\ Storage.buckets[b].insert

\* An object is only where an object can be.
Landed ==
  /\ objects \subseteq uploads
  /\ \A b \in objects : Writable(b)
  /\ stored => pc = "remove" /\ Writable(writing)

Garbled == \E x \in faults : x[3] = Control /\ x[4] = "garbled"

\* While relations are subscribed to, acknowledgements discriminate.
Informative ==
  /\ pc = "control" => socket = "open"
  /\ pc = "join" /\ socket = "open" /\ ahead # {} => ~Realtime.acksAll \/ Garbled

Streaming ==
  Listening /\ pc # "dial" =>
    /\ accepted \subseteq Realtime.streams \/ Garbled
    /\ underway \subseteq Realtime.streams

\* What a finding says is so.
Honest(f) ==
  /\ CASE f.id = "public-bucket" -> Exposed(f.of) \/ Failed(Control)
       [] f.id = "function-no-jwt" ->
            \/ ~target.catchAll /\ f.of \in DOMAIN target.functions
                                /\ target.functions[f.of] = "open"
            \/ \E x \in faults : x[4] = "down"
       [] f.id \in {"unknown", "denied", "callable", "returns-data"} ->
            f.of \in DOMAIN target.routines[f.schema]
       [] f.id = "arbitrary-sql" ->
            target.routines[f.schema][f.of].sql \notin {"none", "echoed"}
       [] f.id \in {"open-signup", "anonymous-signin"} -> target.auth.up
       [] OTHER -> TRUE
  /\ f.id = "anon-write" => Writable(f.of)
  /\ f.id \in {"streams", "streams-hidden", "delivers"} =>
       f.of \in target.realtime[f.schema].streams \/ Garbled

HonestReport == \A f \in report : Honest(f)

\* The stages whose findings are due.
AuthIsOver == pc # "auth" /\ ~(Sweeping /\ schema # Default)
BucketsAreOver == AuthIsOver /\ pc \notin {"list", "claim", "names", "buckets"}
FunctionsAreOver == BucketsAreOver /\ ~Writing /\ pc # "functions"
Swept(s) ==
  IF s = Default THEN FunctionsAreOver /\ pc # "sweep"
  ELSE s \notin todo /\ ~(pc = "sweep" /\ s = schema)

AuthTold ==
  \/ Declared("auth")
  \/ /\ target.auth.open => Reported("open-signup", "auth")
     /\ target.auth.anonymous => Reported("anonymous-signin", "auth")

BucketTold(b) ==
  \/ Reported("public-bucket", b)
  \/ Declared("storage") \/ Declared("storage-buckets")

FunctionTold(n) ==
  Reported("function-no-jwt", n) \/ Declared("edge-functions")

\* Before the buckets are gone through, every seed that is a public one is
\* among them, or is declared.
BucketsDue ==
  /\ pc = "claim" => ~storageOK
  /\ pc = "buckets" =>
       \/ ~storageOK \/ Declared("storage-buckets")
       \/ \A b \in BucketSeeds : Exposed(b) => b \in buckets

AllCandidatesAsked == Range(RoutineCandidates(Cuts * (Len(Snake) + Len(Plain)) + 1))

RoutinesTold(s) ==
  NothingFailed =>
    \A r \in DOMAIN target.routines[s] :
      target.routines[s][r].near \cap AllCandidatesAsked # {} =>
        r \in known[s] \/ Reported("budget", "routine-discovery")

SurfaceTold ==
  /\ AuthIsOver => AuthTold
  /\ BucketsDue
  /\ BucketsAreOver => \A b \in BucketSeeds : Exposed(b) => BucketTold(b)
  /\ FunctionsAreOver => \A n \in FunctionSeeds :
       opts.invoke /\ Deployed(n) = "open" => FunctionTold(n)

SweepsTold == \A s \in Schemas : Swept(s) => RoutinesTold(s)

ObjectsTold ==
  /\ Writing \/ uploads # {} => Writes
  /\ \A b \in objects :
       \/ Reported("object-left", b) \/ Failed("upload")
       \/ pc \in {"readBack", "remove"} /\ b = writing

SessionsTold ==
  /\ DOMAIN sessions \subseteq Schemas
  /\ Done => DOMAIN sessions = Schemas
  /\ Default \in DOMAIN sessions =>
       LET d == sessions[Default] IN
       d.delivered = {} /\ (~d.reachable \/ d.tested # {})
         => Declared("realtime-delivery")

ServicesInv ==
  /\ Ranged /\ Disclosing /\ Counted /\ Charged
  /\ Heard /\ Landed /\ Informative /\ Streaming
  /\ HonestReport /\ VerdictIsMeasured
  /\ SurfaceTold /\ SweepsTold /\ ObjectsTold /\ SessionsTold

-----------------------------------------------------------------------------
\* The replies that say nothing are kept, and are no more than the bound.

LEMMA FailuresAreFew ==
  ASSUME Counted, NEW R, IsFiniteSet(R), NEW f \in Failures(R), Suffer(f)
  PROVE  /\ Counted' /\ faults \subseteq faults'
         /\ DOMAIN f \subseteq R /\ \A r \in DOMAIN f : f[r] \in FaultKinds
         /\ \A r \in DOMAIN f : <<pc, schema, r, f[r]>> \in faults'
<1> DEFINE left == MaxFaults - Cardinality(faults)
<1>1. PICK S : S \in UNION {kSubset(k, R) : k \in 0..left} /\ f \in [S -> FaultKinds]
  BY DEF Failures
<1>2. PICK k \in 0..left : S \in kSubset(k, R)
  BY <1>1
<1>3. S \subseteq R /\ Cardinality(S) = k
  BY <1>2 DEF kSubset
<1>4. IsFiniteSet(S) /\ DOMAIN f = S
  BY <1>1, <1>3, FS_Subset
<1> DEFINE new == {<<pc, schema, r, f[r]>> : r \in S}
<1>5. IsFiniteSet(new) /\ Cardinality(new) <= Cardinality(S)
  <2> DEFINE g == [r \in S |-> <<pc, schema, r, f[r]>>]
  <2>1. g \in Surjection(S, new)
    BY DEF Surjection
  <2> HIDE DEF g, new
  <2> QED
    BY <1>4, <2>1, FS_Surjection
<1>6. faults' = faults \cup new
  BY <1>4 DEF Suffer
<1>7. Counted'
  <2>1. /\ IsFiniteSet(faults) /\ Cardinality(faults) <= MaxFaults
        /\ Cardinality(faults) \in Nat /\ MaxFaults \in Nat
    BY RoutinesAssumption, FS_CardinalityType DEF Counted
  <2>2. Cardinality(new) \in Nat /\ Cardinality(faults \cap new) \in Nat
    <3>1. IsFiniteSet(faults \cap new)
      BY <2>1, FS_Subset
    <3> HIDE DEF new
    <3> QED
      BY <1>5, <3>1, FS_CardinalityType
  <2> HIDE DEF new
  <2>3. /\ IsFiniteSet(faults \cup new)
        /\ Cardinality(faults \cup new)
             = Cardinality(faults) + Cardinality(new) - Cardinality(faults \cap new)
    BY <1>5, <2>1, FS_Union
  <2> QED
    BY <1>2, <1>3, <1>5, <1>6, <2>1, <2>2, <2>3 DEF Counted
<1> QED
  BY <1>1, <1>3, <1>4, <1>6, <1>7

\* The same of a reply on the socket.
LEMMA ReplyIsOne ==
  ASSUME Counted, NEW of, NEW r, Reply(of, r)
  PROVE  /\ Counted' /\ faults \subseteq faults'
         /\ r # "answered" => <<pc, schema, of, r>> \in faults'
<1>1. CASE r = "answered"
  BY <1>1 DEF Reply, Counted
<1>2. CASE r # "answered"
  <2> DEFINE x == <<pc, schema, of, r>>
  <2>1. Cardinality(faults) < MaxFaults /\ faults' = faults \cup {x}
    BY <1>2 DEF Reply
  <2>2. IsFiniteSet(faults) /\ Cardinality(faults) \in Nat /\ MaxFaults \in Nat
    BY RoutinesAssumption, FS_CardinalityType DEF Counted
  <2> HIDE DEF x
  <2>3. /\ IsFiniteSet(faults')
        /\ Cardinality(faults') =
             IF x \in faults THEN Cardinality(faults) ELSE Cardinality(faults) + 1
    BY <2>1, <2>2, FS_AddElement
  <2>4. Counted'
    BY <2>1, <2>2, <2>3 DEF Counted
  <2> QED
    BY <2>1, <2>4 DEF x
<1> QED
  BY <1>1, <1>2

LEMMA NamesAreFinite ==
  ASSUME NEW m \in Int
  PROVE  IsFiniteSet(Range(RoutineCandidates(m)) \cup Guesses \cup {Control})
<1> DEFINE s == RoutineCandidates(m)
<1>1. Len(s) \in Nat /\ DOMAIN s = 1..Len(s)
  BY Candidates
<1> HIDE DEF s
<1>2. IsFiniteSet(1..Len(s))
  BY <1>1, FS_Interval
<1>3. Range(s) = {s[i] : i \in 1..Len(s)}
  BY <1>1 DEF Range
<1>4. IsFiniteSet(Range(s))
  <2> DEFINE g == [i \in 1..Len(s) |-> s[i]]
  <2>1. g \in Surjection(1..Len(s), Range(s))
    BY <1>3 DEF Surjection
  <2> HIDE DEF g
  <2> QED
    BY <1>2, <2>1, FS_Surjection
<1>5. IsFiniteSet(Guesses) /\ IsFiniteSet({Control})
  BY RoutinesAssumption, FS_Singleton
<1>6. IsFiniteSet(Range(s) \cup Guesses)
  BY <1>4, <1>5, FS_Union
<1> QED
  BY <1>5, <1>6, FS_Union DEF s

LEMMA RoutinesAreFinite ==
  ASSUME Ranged, Disclosing
  PROVE  /\ known[schema] \subseteq DOMAIN target.routines[schema]
         /\ IsFiniteSet(known[schema]) /\ IsFiniteSet(TriedForSQL)
<1>1. known[schema] \subseteq DOMAIN target.routines[schema]
  BY DEF Ranged, Disclosing
<1>2. IsFiniteSet(DOMAIN target.routines[schema])
  BY RoutinesAssumption DEF Ranged, Schemas
<1>3. TriedForSQL \subseteq DOMAIN target.routines[schema]
  BY DEF TriedForSQL
<1> QED
  BY <1>1, <1>2, <1>3, FS_Subset

-----------------------------------------------------------------------------
\* The steps of each part of the scan, and what each part leaves alone.

RoutinesMove ==
  (SweepRoutines \/ CallRoutines \/ AskForSQL) /\ UNCHANGED <<surfaceVars, realtimeVars>>
SurfaceMove == SurfaceStep /\ UNCHANGED realtimeVars
RealtimeMove == RealtimeStep /\ UNCHANGED surfaceVars

\* What was said is not taken back, and what failed has failed.
Grows ==
  /\ UNCHANGED scanVars
  /\ faults \subseteq faults' /\ report \subseteq report'
  /\ Counted'

LEMMA RoutinesGrow ==
  ASSUME Ranged, Disclosing, Counted, Charged, RoutinesMove
  PROVE  Grows
<1>1. CASE SweepRoutines
  <2> DEFINE names == Range(RoutineCandidates(Allowance)) \cup Guesses
  <2>1. Allowance \in Int
    BY DEF Charged, Allowance
  <2>2. IsFiniteSet(names \cup {Control})
    BY <2>1, NamesAreFinite
  <2>3. PICK f \in Failures(names \cup {Control}) : Suffer(f) /\ Say(BudgetFinding)
    BY <1>1 DEF SweepRoutines
  <2> HIDE DEF names
  <2>4. Counted' /\ faults \subseteq faults'
    BY <2>2, <2>3, FailuresAreFew
  <2> QED
    BY <1>1, <2>3, <2>4 DEF Grows, SweepRoutines, Say
<1>2. CASE CallRoutines
  <2> DEFINE asks == IF opts.invoke THEN known[schema] ELSE {}
  <2>1. IsFiniteSet(asks)
    BY RoutinesAreFinite, FS_EmptySet
  <2>2. PICK f \in Failures(asks) : Suffer(f) /\ report \subseteq report'
    BY <1>2 DEF CallRoutines, Say
  <2> HIDE DEF asks
  <2>3. Counted' /\ faults \subseteq faults'
    BY <2>1, <2>2, FailuresAreFew
  <2> QED
    BY <1>2, <2>2, <2>3 DEF Grows, CallRoutines
<1>3. CASE AskForSQL
  <2>1. IsFiniteSet(TriedForSQL)
    BY RoutinesAreFinite
  <2>2. PICK f \in Failures(TriedForSQL) : Suffer(f) /\ report \subseteq report'
    BY <1>3 DEF AskForSQL, Say
  <2>3. Counted' /\ faults \subseteq faults'
    BY <2>1, <2>2, FailuresAreFew
  <2> QED
    BY <1>3, <2>2, <2>3 DEF Grows, AskForSQL
<1> QED
  BY <1>1, <1>2, <1>3 DEF RoutinesMove

LEMMA OneFailureGrows ==
  ASSUME Counted, NEW request, NEW f \in One(request), Suffer(f)
  PROVE  /\ Counted' /\ faults \subseteq faults'
         /\ DOMAIN f \subseteq {request}
         /\ \A r \in DOMAIN f : <<pc, schema, r, f[r]>> \in faults'
BY FailuresAreFew, FS_Singleton DEF One

LEMMA SurfaceGrows ==
  ASSUME Counted, SurfaceMove
  PROVE  Grows
<1>1. CASE FetchAuth
  <2>1. PICK f \in One("settings") : Suffer(f) /\ report \subseteq report'
    BY <1>1 DEF FetchAuth, Say
  <2> QED
    BY <1>1, <2>1, OneFailureGrows DEF Grows, FetchAuth
<1>2. CASE ListBuckets
  <2>1. PICK f \in One("list") : Suffer(f)
    BY <1>2 DEF ListBuckets
  <2> QED
    BY <1>2, <2>1, OneFailureGrows DEF Grows, ListBuckets
<1>3. CASE ClaimStorage
  <2>1. PICK f \in One("claim") : Suffer(f)
    BY <1>3 DEF ClaimStorage
  <2> QED
    BY <1>3, <2>1, OneFailureGrows DEF Grows, ClaimStorage
<1>4. CASE SweepBuckets
  <2> DEFINE asks == BucketSeeds \cup {Control}
  <2>1. IsFiniteSet(asks)
    BY SurfaceAssumption, FS_Singleton, FS_Union
  <2>2. PICK f \in Failures(asks) : Suffer(f) /\ report \subseteq report'
    BY <1>4 DEF SweepBuckets, Say
  <2> HIDE DEF asks
  <2>3. Counted' /\ faults \subseteq faults'
    BY <2>1, <2>2, FailuresAreFew
  <2> QED
    BY <1>4, <2>2, <2>3 DEF Grows, SweepBuckets
<1>5. CASE Buckets
  BY <1>5 DEF Buckets, Say, Grows, Counted
<1>6. CASE Upload
  <2>1. PICK f \in One("upload") : Suffer(f)
    BY <1>6 DEF Upload
  <2> QED
    BY <1>6, <2>1, OneFailureGrows DEF Grows, Upload
<1>7. CASE ReadBack
  <2>1. PICK f \in One("readBack") : Suffer(f)
    BY <1>7 DEF ReadBack
  <2> QED
    BY <1>7, <2>1, OneFailureGrows DEF Grows, ReadBack
<1>8. CASE RemoveObject
  <2>1. PICK f \in One("remove") : Suffer(f) /\ report \subseteq report'
    BY <1>8 DEF RemoveObject, Say
  <2> QED
    BY <1>8, <2>1, OneFailureGrows DEF Grows, RemoveObject
<1>9. CASE BucketsOver
  BY <1>9 DEF BucketsOver, Grows, Counted
<1>10. CASE EnumerateFunctions
  <2> DEFINE asks == IF opts.invoke THEN FunctionSeeds \cup {Control} ELSE {}
  <2>1. IsFiniteSet(asks)
    BY SurfaceAssumption, FS_Singleton, FS_Union, FS_EmptySet
  <2>2. PICK f \in Failures(asks) : Suffer(f) /\ report \subseteq report'
    BY <1>10 DEF EnumerateFunctions, Say
  <2> HIDE DEF asks
  <2>3. Counted' /\ faults \subseteq faults'
    BY <2>1, <2>2, FailuresAreFew
  <2> QED
    BY <1>10, <2>2, <2>3 DEF Grows, EnumerateFunctions
<1> QED
  BY <1>1, <1>2, <1>3, <1>4, <1>5, <1>6, <1>7, <1>8, <1>9, <1>10
     DEF SurfaceMove, SurfaceStep

LEMMA RealtimeGrows ==
  ASSUME Counted, RealtimeMove
  PROVE  Grows
<1>0. faults' = faults => Counted' /\ faults \subseteq faults'
  BY DEF Counted
<1>1. CASE Dial
  <2>1. faults' = faults \/ Reply("socket", "missing")
    BY <1>1 DEF Dial
  <2> QED
    BY <1>0, <1>1, <2>1, ReplyIsOne DEF Dial, Grows
<1>2. CASE JoinControl
  <2>1. PICK r \in Replies : Reply(Control, r)
    BY <1>2 DEF JoinControl
  <2> QED
    BY <1>2, <2>1, ReplyIsOne DEF JoinControl, Grows
<1>3. CASE Join
  <2>1. \E rel, r : Reply(rel, r)
    BY <1>3 DEF Join
  <2> QED
    BY <1>3, <2>1, ReplyIsOne DEF Join, Grows
<1>4. CASE Listen
  <2>1. \E rel, r : Reply(rel, r)
    BY <1>4 DEF Listen
  <2> QED
    BY <1>4, <2>1, ReplyIsOne DEF Listen, Grows
<1>5. CASE JoinsOver \/ ListensOver \/ Trigger \/ TriggersOver
  BY <1>0, <1>5 DEF JoinsOver, ListensOver, Trigger, TriggersOver, Grows
<1>6. CASE Conclude
  BY <1>0, <1>6 DEF Conclude, Say, Grows
<1> QED
  BY <1>1, <1>2, <1>3, <1>4, <1>5, <1>6 DEF RealtimeMove, RealtimeStep

LEMMA NextMoves ==
  ASSUME [Next]_vars
  PROVE  RoutinesMove \/ SurfaceMove \/ RealtimeMove \/ UNCHANGED vars
BY DEF Next, RoutinesMove, SurfaceMove, RealtimeMove

LEMMA WhatWasSaidStays ==
  ASSUME Grows
  PROVE  /\ \A id, of : Reported(id, of) => Reported(id, of)'
         /\ \A r : Failed(r) => Failed(r)'
         /\ NothingFailed' => NothingFailed
         /\ Garbled => Garbled'
<1>1. ASSUME NEW id, NEW of, Reported(id, of) PROVE Reported(id, of)'
  BY <1>1 DEF Reported, Grows
<1>2. ASSUME NEW r, Failed(r) PROVE Failed(r)'
  BY <1>2 DEF Failed, Grows
<1>3. NothingFailed' => NothingFailed
  BY DEF NothingFailed, Grows
<1>4. Garbled => Garbled'
  BY DEF Garbled, Grows
<1> QED
  BY <1>1, <1>2, <1>3, <1>4, Zenon

\* The sweep of routines is over when the surface and the sockets are looked at.
LEMMA SurfaceKeeps ==
  ASSUME SurfaceMove
  PROVE  UNCHANGED <<scanVars, routineVars, realtimeVars>>
BY DEF SurfaceMove, SurfaceStep, FetchAuth, ListBuckets, ClaimStorage, SweepBuckets,
       Buckets, Upload, ReadBack, RemoveObject, BucketsOver, EnumerateFunctions

LEMMA RealtimeKeeps ==
  ASSUME RealtimeMove
  PROVE  UNCHANGED <<scanVars, todo, extra, rpc, known, verdict, surfaceVars>>
BY DEF RealtimeMove, RealtimeStep, Dial, JoinControl, Join, JoinsOver, Listen,
       ListensOver, Trigger, TriggersOver, Conclude, routineVars

LEMMA RoutinesKeep ==
  ASSUME RoutinesMove
  PROVE  UNCHANGED <<scanVars, surfaceVars, realtimeVars>>
BY DEF RoutinesMove, SweepRoutines, CallRoutines, AskForSQL

-----------------------------------------------------------------------------
\* One lemma for each part of the invariant: a step keeps it.

LEMMA RangedIsKept ==
  ASSUME Ranged, [Next]_vars
  PROVE  Ranged'
<1> USE DEF Ranged, Sweeping, Writing, Asking, Listening, Done, scanVars, Schemas
<1>1. CASE RoutinesMove
  <2>1. CASE SweepRoutines
    BY <1>1, <2>1 DEF RoutinesMove, SweepRoutines, realtimeVars
  <2>2. CASE CallRoutines
    BY <1>1, <2>2 DEF RoutinesMove, CallRoutines, realtimeVars
  <2>3. CASE AskForSQL
    <3>1. Default \in Schemas
      BY RoutinesAssumption
    <3> QED
      BY <1>1, <2>3, <3>1 DEF RoutinesMove, AskForSQL, realtimeVars
  <2> QED
    BY <1>1, <2>1, <2>2, <2>3 DEF RoutinesMove
<1>2. CASE SurfaceMove
  <2>1. UNCHANGED <<target, opts, schema, todo, socket>>
    BY <1>2, SurfaceKeeps DEF routineVars, realtimeVars
  <2>2. \/ pc' \in {"list", "names", "claim", "buckets", "upload", "functions",
                    "readBack", "remove", "sweep"}
        \/ pc' = pc
    BY <1>2 DEF SurfaceMove, SurfaceStep, FetchAuth, ListBuckets, ClaimStorage,
                SweepBuckets, Buckets, Upload, ReadBack, RemoveObject, BucketsOver,
                EnumerateFunctions
  <2>3. Asking \/ Writing
    BY <1>2 DEF SurfaceMove, SurfaceStep, FetchAuth, ListBuckets, ClaimStorage,
                SweepBuckets, Buckets, Upload, ReadBack, RemoveObject, BucketsOver,
                EnumerateFunctions
  <2> QED
    BY <2>1, <2>2, <2>3
<1>3. CASE RealtimeMove
  <2>1. UNCHANGED <<target, opts, todo>>
    BY <1>3, RealtimeKeeps
  <2>2. Listening /\ todo = {}
    BY <1>3 DEF RealtimeMove, RealtimeStep, Dial, JoinControl, Join, JoinsOver, Listen,
                ListensOver, Trigger, TriggersOver, Conclude
  <2>3. /\ pc' \in {"control", "conclude", "join", "listen", "trigger", "done", "dial"}
                      \cup {pc}
        /\ schema' \in Schemas
        /\ socket' \in {"closed", "open", "expired"}
    <3>1. CASE Dial
      BY <1>3, <3>1 DEF Dial, routineVars
    <3>2. CASE JoinControl
      BY <1>3, <3>2 DEF JoinControl, Expires, routineVars
    <3>3. CASE Join
      BY <1>3, <3>3 DEF Join, Expires, routineVars
    <3>4. CASE JoinsOver
      BY <1>3, <3>4 DEF JoinsOver, routineVars
    <3>5. CASE Listen
      BY <1>3, <3>5 DEF Listen, Expires, routineVars
    <3>6. CASE ListensOver
      BY <1>3, <3>6 DEF ListensOver, routineVars
    <3>7. CASE Trigger
      BY <1>3, <3>7 DEF Trigger, routineVars
    <3>8. CASE TriggersOver
      BY <1>3, <3>8 DEF TriggersOver, routineVars, realtimeVars
    <3>9. CASE Conclude
      BY <1>3, <3>9 DEF Conclude
    <3> QED
      BY <1>3, <3>1, <3>2, <3>3, <3>4, <3>5, <3>6, <3>7, <3>8, <3>9
         DEF RealtimeMove, RealtimeStep
  <2> QED
    BY <2>1, <2>2, <2>3
<1>4. CASE UNCHANGED vars
  BY <1>4 DEF vars, routineVars, realtimeVars
<1> QED
  BY <1>1, <1>2, <1>3, <1>4, NextMoves

LEMMA WhatIsDisclosedExists ==
  ASSUME Ranged, NEW names, NEW f
  PROVE  Disclosed(names, f) \subseteq DOMAIN target.routines[schema]
BY DEF Disclosed, Hinted, Hit, Discriminates, Exists

LEMMA DisclosingIsKept ==
  ASSUME Ranged, Disclosing, [Next]_vars
  PROVE  Disclosing'
<1>1. CASE SweepRoutines
  <2>1. /\ UNCHANGED <<target, verdict>>
        /\ \E names, f : known' = [known EXCEPT ![schema] = Disclosed(names, f)]
    BY <1>1 DEF SweepRoutines, scanVars
  <2> QED
    BY <2>1, WhatIsDisclosedExists DEF Ranged, Disclosing, Schemas
<1>2. CASE CallRoutines
  <2>1. UNCHANGED <<target, known>> /\ DOMAIN verdict' = DOMAIN verdict
    BY <1>2 DEF CallRoutines, scanVars
  <2> QED
    BY <2>1 DEF Disclosing, Schemas
<1>3. CASE AskForSQL \/ SurfaceMove \/ RealtimeMove \/ UNCHANGED vars
  <2>1. UNCHANGED <<target, known, verdict>>
    BY <1>3, SurfaceKeeps, RealtimeKeeps
       DEF AskForSQL, scanVars, routineVars, vars
  <2> QED
    BY <2>1 DEF Disclosing, Schemas
<1> QED
  BY <1>1, <1>2, <1>3, NextMoves DEF RoutinesMove

\* What is granted to another schema is in both budgets.
LEMMA ChargedIsKept ==
  ASSUME Ranged, Charged, [Next]_vars
  PROVE  Charged'
<1>1. CASE SweepRoutines
  <2> DEFINE granted == IF schema = Default THEN 0 ELSE Take(extra, SpentOn)
  <2>1. /\ extra' = extra - granted /\ rpc' = rpc - Take(rpc, granted)
        /\ UNCHANGED opts
    BY <1>1 DEF SweepRoutines, scanVars
  <2>2. SpentOn \in Int
    <3>1. Wanted \in Int
      <4>1. Cuts * (Len(Snake) + Len(Plain)) + 1 \in Int
        BY RoutinesAssumption DEF Cuts
      <4> QED
        BY <4>1, Candidates DEF Wanted
    <3>2. Allowance \in Int
      BY DEF Allowance, Charged
    <3> QED
      BY <3>1, <3>2 DEF SpentOn, Lesser
  <2>3. granted \in 0..extra
    BY <2>2 DEF Take, Lesser, Charged
  <2> HIDE DEF granted
  <2>4. Take(rpc, granted) = granted
    BY <2>3 DEF Take, Lesser, Charged
  <2>5. opts.maxRPC \in Int
    BY RoutinesAssumption DEF Ranged
  <2> QED
    BY <2>1, <2>3, <2>4, <2>5 DEF Charged, NewBudget, HalfForExtra
<1>2. CASE CallRoutines \/ AskForSQL \/ SurfaceMove \/ RealtimeMove \/ UNCHANGED vars
  <2>1. UNCHANGED <<opts, extra, rpc>>
    BY <1>2, SurfaceKeeps, RealtimeKeeps
       DEF CallRoutines, AskForSQL, scanVars, routineVars, vars
  <2> QED
    BY <2>1 DEF Charged
<1> QED
  BY <1>1, <1>2, NextMoves DEF RoutinesMove

LEMMA VerdictStaysMeasured ==
  ASSUME Ranged, Disclosing, Counted, VerdictIsMeasured, [Next]_vars, Grows
  PROVE  VerdictIsMeasured'
<1> DEFINE Measured(s, r, says) ==
      LET run == target.routines[s][r].run IN
      /\ says = "denied" => run = "denied"
      /\ says = "callable" =>
           run \in {"void", "rows"} \/ \E x \in faults' : x[3] = r /\ x[4] # "lost"
<1>0. target' = target /\ faults \subseteq faults'
  BY DEF Grows, scanVars
<1>1. CASE CallRoutines
  <2> DEFINE asks == IF opts.invoke THEN known[schema] ELSE {}
  <2>1. PICK f \in Failures(asks) :
          /\ Suffer(f)
          /\ verdict' = [verdict EXCEPT ![schema] =
               [r \in known[schema] |-> IF opts.invoke THEN Says(r, f) ELSE "unknown"]]
    BY <1>1 DEF CallRoutines
  <2>2. IsFiniteSet(asks)
    BY RoutinesAreFinite, FS_EmptySet
  <2> HIDE DEF asks
  <2>3. \A r \in DOMAIN f : <<pc, schema, r, f[r]>> \in faults'
    BY <2>1, <2>2, FailuresAreFew
  <2>4. ASSUME NEW r \in known[schema]
        PROVE  Measured(schema, r, IF opts.invoke THEN Says(r, f) ELSE "unknown")
    <3>1. Routine(r).run \in {"denied", "args", "void", "rows"}
      BY RoutinesAssumption, RoutinesAreFinite DEF Ranged, Schemas, Routine
    <3>2. CASE r \in DOMAIN f
      <4> DEFINE x == <<pc, schema, r, f[r]>>
      <4>1. x \in faults' /\ x[3] = r /\ x[4] = f[r]
        BY <2>3, <3>2
      <4> HIDE DEF x
      <4> QED
        BY <3>2, <4>1 DEF Says, Routine
    <3>3. CASE r \notin DOMAIN f
      BY <3>1, <3>3 DEF Says, Routine
    <3> QED
      BY <3>2, <3>3
  <2>5. ASSUME NEW s \in Schemas, s # schema, NEW r \in DOMAIN verdict[s]
        PROVE  Measured(s, r, verdict[s][r])
    BY <1>0, <2>5 DEF VerdictIsMeasured
  <2>6. ASSUME NEW s \in Schemas, NEW r \in DOMAIN verdict'[s]
        PROVE  Measured(s, r, verdict'[s][r])
    <3> HIDE DEF Measured
    <3>1. CASE s = schema
      <4>1. verdict'[s] = [e \in known[schema] |-> IF opts.invoke THEN Says(e, f) ELSE "unknown"]
        BY <2>1, <2>6, <3>1 DEF Disclosing
      <4> QED
        BY <2>4, <2>6, <3>1, <4>1
    <3>2. CASE s # schema
      BY <2>1, <2>5, <2>6, <3>2 DEF Disclosing
    <3> QED
      BY <3>1, <3>2
  <2> QED
    BY <1>0, <2>6 DEF VerdictIsMeasured, Schemas
<1>2. CASE SweepRoutines \/ AskForSQL \/ SurfaceMove \/ RealtimeMove \/ UNCHANGED vars
  <2>1. UNCHANGED verdict
    BY <1>2, SurfaceKeeps, RealtimeKeeps
       DEF SweepRoutines, AskForSQL, routineVars, vars
  <2> QED
    BY <1>0, <2>1 DEF VerdictIsMeasured, Schemas
<1> QED
  BY <1>1, <1>2, NextMoves DEF RoutinesMove

LEMMA HeardIsKept ==
  ASSUME Heard, Counted, [Next]_vars, Grows
  PROVE  Heard'
<1>0. /\ target' = target /\ (Failed(Control) => Failed(Control)')
      /\ \A b : (b \in Listed)' <=> b \in Listed
      /\ \A b : Exposed(b)' <=> Exposed(b)
  BY WhatWasSaidStays DEF Grows, scanVars, Listed, Exposed, Storage
<1>1. CASE ListBuckets
  <2>1. \A b \in buckets' : b \in Listed
    BY <1>1 DEF ListBuckets
  <2> QED
    BY <1>0, <2>1 DEF Heard
<1>2. CASE SweepBuckets
  <2> DEFINE asks == BucketSeeds \cup {Control}
  <2>1. PICK f \in Failures(asks) :
          /\ Suffer(f)
          /\ \/ buckets' = buckets
             \/ /\ State(Control, f) # "yes"
                /\ buckets' = buckets \cup {b \in BucketSeeds : State(b, f) = "yes"}
    BY <1>2 DEF SweepBuckets
  <2>2. IsFiniteSet(asks)
    BY SurfaceAssumption, FS_Singleton, FS_Union
  <2> HIDE DEF asks
  <2>3. \A r \in DOMAIN f : <<pc, schema, r, f[r]>> \in faults'
    BY <2>1, <2>2, FailuresAreFew
  <2>4. Control \in DOMAIN f => Failed(Control)'
    BY <2>3 DEF Failed
  <2>5. ASSUME NEW b \in BucketSeeds, State(b, f) = "yes", State(Control, f) # "yes"
        PROVE  Exposed(b) \/ Failed(Control)'
    <3>1. Answer(b) = "yes"
      BY <2>5 DEF State
    <3>2. Storage.host = "catchAll" => Control \in DOMAIN f
      BY <2>5 DEF State, Answer
    <3> QED
      BY <2>4, <3>1, <3>2 DEF Answer
  <2> QED
    BY <1>0, <2>1, <2>5 DEF Heard
<1>3. CASE buckets' = buckets
  BY <1>0, <1>3 DEF Heard
<1>4. buckets' = buckets \/ ListBuckets \/ SweepBuckets
  <2>1. CASE SurfaceMove
    BY <2>1 DEF SurfaceMove, SurfaceStep, FetchAuth, ClaimStorage, Buckets, Upload,
                ReadBack, RemoveObject, BucketsOver, EnumerateFunctions, surfaceVars
  <2>2. CASE ~SurfaceMove
    BY <2>2, NextMoves, RoutinesKeep, RealtimeKeeps DEF surfaceVars, vars
  <2> QED
    BY <2>1, <2>2
<1> QED
  BY <1>1, <1>2, <1>3, <1>4

\* Only a bucket that a stranger may write to, and that is there, keeps an object.
LEMMA KeptIsWritable ==
  ASSUME Ranged, NEW b, b \in Keeps(b)
  PROVE  Writable(b)
<1>1. Exposed(b) /\ Storage.buckets[b].insert /\ b \in DOMAIN Storage.buckets
  BY DEF Keeps, Accepts, Exposed
<1>2. Storage.host = "storage"
  BY <1>1, SurfaceAssumption DEF Ranged, Storage
<1> QED
  BY <1>1, <1>2 DEF Writable

LEMMA LandedIsKept ==
  ASSUME Ranged, Landed, [Next]_vars, Grows
  PROVE  Landed'
<1>0. target' = target /\ \A b : Writable(b)' <=> Writable(b)
  BY DEF Grows, scanVars, Writable, Exposed, Storage
<1>1. CASE Upload
  <2>1. PICK b \in public :
          /\ uploads' = uploads \cup {b}
          /\ objects' \subseteq objects \cup Keeps(b)
          /\ objects \subseteq uploads
    BY <1>1 DEF Upload, Landed
  <2>2. Keeps(b) \subseteq {b}
    BY DEF Keeps
  <2>3. \A c \in objects' : Writable(c)
    BY <2>1, <2>2, KeptIsWritable DEF Landed
  <2>4. ~stored'
    BY <1>1 DEF Upload, Landed
  <2> QED
    BY <1>0, <2>1, <2>2, <2>3, <2>4 DEF Landed
<1>2. CASE ReadBack
  <2>1. /\ UNCHANGED <<objects, uploads, writing>>
        /\ stored' => writing \in objects
        /\ pc' = "remove"
    BY <1>2 DEF ReadBack, CameBack
  <2> QED
    BY <1>0, <2>1 DEF Landed
<1>3. CASE RemoveObject
  <2>1. objects' \subseteq objects /\ ~stored' /\ UNCHANGED uploads
    BY <1>3 DEF RemoveObject
  <2> QED
    BY <1>0, <2>1 DEF Landed
<1>4. CASE UNCHANGED <<objects, uploads, stored, writing>> /\ (pc = "remove" => pc' = pc)
  BY <1>0, <1>4 DEF Landed
<1>5. \/ Upload \/ ReadBack \/ RemoveObject
      \/ UNCHANGED <<objects, uploads, stored, writing>> /\ (pc = "remove" => pc' = pc)
  <2>1. CASE SurfaceMove
    BY <2>1 DEF SurfaceMove, SurfaceStep, FetchAuth, ListBuckets, ClaimStorage,
                SweepBuckets, Buckets, BucketsOver, EnumerateFunctions, surfaceVars
  <2>2. CASE RoutinesMove
    BY <2>2, RoutinesKeep
       DEF RoutinesMove, SweepRoutines, CallRoutines, AskForSQL, surfaceVars
  <2>3. CASE RealtimeMove
    BY <2>3, RealtimeKeeps
       DEF RealtimeMove, RealtimeStep, Dial, JoinControl, Join, JoinsOver, Listen,
           ListensOver, Trigger, TriggersOver, Conclude, surfaceVars
  <2>4. CASE UNCHANGED vars
    BY <2>4 DEF vars, surfaceVars
  <2> QED
    BY <2>1, <2>2, <2>3, <2>4, NextMoves
<1> QED
  BY <1>1, <1>2, <1>3, <1>4, <1>5

\* Outside the sessions none of this is due.
LEMMA NoSessionYet ==
  ASSUME RoutinesMove \/ SurfaceMove
  PROVE  pc' \notin {"control", "join", "listen", "trigger", "conclude"}
<1>1. CASE RoutinesMove
  BY <1>1 DEF RoutinesMove, SweepRoutines, CallRoutines, AskForSQL
<1>2. CASE SurfaceMove
  BY <1>2 DEF SurfaceMove, SurfaceStep, FetchAuth, ListBuckets, ClaimStorage,
              SweepBuckets, Buckets, Upload, ReadBack, RemoveObject, BucketsOver,
              EnumerateFunctions
<1> QED
  BY <1>1, <1>2

\* A control that is accepted leaves nothing to subscribe to; one that gets no
\* reply takes the socket with it; one that was garbled is a fault.
LEMMA InformativeIsKept ==
  ASSUME Counted, Informative, [Next]_vars, Grows
  PROVE  Informative'
<1>0. target' = target /\ (Garbled => Garbled')
  BY WhatWasSaidStays DEF Grows, scanVars
<1>1. CASE RealtimeMove
  <2>1. CASE Dial
    BY <2>1 DEF Dial, Informative
  <2>2. CASE JoinControl
    <3>1. PICK r \in Replies :
            Reply(Control, r) /\ Expires(r) /\ acked' = Joins(Control, r)
      BY <2>2 DEF JoinControl
    <3>2. /\ socket = "open" /\ pc' = "join" /\ schema' = schema
          /\ ahead' = IF acked' THEN {} ELSE Realtime.relations
      BY <2>2 DEF JoinControl, routineVars, ToSubscribe, Informative
    <3>3. r = "garbled" => Garbled'
      <4>1. r = "garbled" => <<pc, schema, Control, r>> \in faults'
        BY <3>1, ReplyIsOne
      <4> QED
        BY <4>1 DEF Garbled
    <3>4. r = "missing" => socket' # "open"
      BY <3>1 DEF Expires
    <3>5. r = "answered" /\ Realtime.acksAll => ahead' = {}
      BY <3>1, <3>2 DEF Joins, Acknowledges
    <3>6. r \in {"answered", "missing", "garbled"}
      BY <3>1 DEF Replies
    <3>7. Realtime' = Realtime
      BY <1>0, <3>2 DEF Realtime
    <3> QED
      BY <3>2, <3>3, <3>4, <3>5, <3>6, <3>7 DEF Informative
  <2>3. CASE Join
    <3>1. /\ pc = "join" /\ UNCHANGED <<pc, schema>> /\ ahead # {}
          /\ socket' = "open" => socket = "open"
      BY <2>3 DEF Join, routineVars, Expires
    <3>2. Realtime' = Realtime
      BY <1>0, <3>1 DEF Realtime
    <3> QED
      BY <1>0, <3>1, <3>2 DEF Informative
  <2>4. CASE JoinsOver \/ Listen \/ ListensOver \/ Trigger \/ TriggersOver \/ Conclude
    <3>1. pc' \notin {"control", "join"}
      BY <2>4 DEF JoinsOver, Listen, ListensOver, Trigger, TriggersOver, Conclude
    <3> QED
      BY <3>1 DEF Informative
  <2> QED
    BY <1>1, <2>1, <2>2, <2>3, <2>4 DEF RealtimeMove, RealtimeStep
<1>2. CASE RoutinesMove \/ SurfaceMove
  BY <1>2, NoSessionYet DEF Informative
<1>3. CASE UNCHANGED vars
  BY <1>0, <1>3 DEF vars, realtimeVars, routineVars, Informative, Realtime
<1> QED
  BY <1>1, <1>2, <1>3, NextMoves

LEMMA StreamingIsKept ==
  ASSUME Counted, Informative, Streaming, [Next]_vars, Grows
  PROVE  Streaming'
<1>0. target' = target /\ (Garbled => Garbled')
  BY WhatWasSaidStays DEF Grows, scanVars
<1> USE DEF Listening
<1>1. CASE RealtimeMove
  <2>1. CASE Dial
    BY <2>1 DEF Dial, Streaming
  <2>2. CASE JoinControl \/ JoinsOver \/ Listen \/ ListensOver \/ TriggersOver
    <3>1. /\ pc \in {"control", "join", "listen", "trigger"}
          /\ UNCHANGED <<schema, accepted, underway>>
      BY <2>2 DEF JoinControl, JoinsOver, Listen, ListensOver, TriggersOver, routineVars,
                  realtimeVars
    <3>2. Realtime' = Realtime
      BY <1>0, <3>1 DEF Realtime
    <3> QED
      BY <1>0, <3>1, <3>2 DEF Streaming
  <2>3. CASE Join
    <3>1. PICK rel \in ahead : \E r :
            accepted' = IF Joins(rel, r) THEN accepted \cup {rel} ELSE accepted
      BY <2>3 DEF Join
    <3>2. pc = "join" /\ UNCHANGED <<pc, schema, underway>>
      BY <2>3 DEF Join, routineVars
    <3>3. Realtime' = Realtime
      BY <1>0, <3>2 DEF Realtime
    <3>4. accepted' = accepted \/
            /\ accepted' = accepted \cup {rel}
            /\ rel \in Realtime.streams \/ Garbled
      BY <3>1, <3>2 DEF Joins, Acknowledges, Informative
    <3> QED
      BY <1>0, <3>2, <3>3, <3>4 DEF Streaming
  <2>4. CASE Trigger
    <3>1. /\ pc = "trigger" /\ UNCHANGED <<pc, schema, accepted>>
          /\ underway' \subseteq underway \cup Realtime.streams
      BY <2>4 DEF Trigger, routineVars
    <3>2. Realtime' = Realtime
      BY <1>0, <3>1 DEF Realtime
    <3> QED
      BY <1>0, <3>1, <3>2 DEF Streaming
  <2>5. CASE Conclude
    BY <2>5 DEF Conclude, Streaming
  <2> QED
    BY <1>1, <2>1, <2>2, <2>3, <2>4, <2>5 DEF RealtimeMove, RealtimeStep
<1>2. CASE RoutinesMove \/ SurfaceMove
  BY <1>2, NoSessionYet DEF Streaming
<1>3. CASE UNCHANGED vars
  BY <1>0, <1>3 DEF vars, realtimeVars, routineVars, Streaming, Realtime
<1> QED
  BY <1>1, <1>2, <1>3, NextMoves

-----------------------------------------------------------------------------
\* What is said is so when it is said, and stays so.

Claims ==
  {"public-bucket", "function-no-jwt", "unknown", "denied", "callable",
   "returns-data", "arbitrary-sql", "open-signup", "anonymous-signin",
   "anon-write", "streams", "streams-hidden", "delivers"}

LEMMA NothingClaimed ==
  ASSUME NEW f, f.id \notin Claims
  PROVE  Honest(f)'
BY DEF Claims, Honest

LEMMA HonestyStays ==
  ASSUME Grows, NEW f, Honest(f)
  PROVE  Honest(f)'
<1>1. /\ target' = target /\ faults \subseteq faults'
      /\ Failed(Control) => Failed(Control)'
      /\ Garbled => Garbled'
  BY WhatWasSaidStays DEF Grows, scanVars
<1>2. Exposed(f.of)' <=> Exposed(f.of)
  BY <1>1 DEF Exposed, Storage
<1>3. Writable(f.of)' <=> Writable(f.of)
  BY <1>1, <1>2 DEF Writable, Storage
<1>4. (\E x \in faults : x[4] = "down") => (\E x \in faults' : x[4] = "down")
  BY <1>1
<1> HIDE DEF Exposed, Writable
<1> QED
  BY <1>1, <1>2, <1>3, <1>4 DEF Honest

LEMMA RoutinesSpeakTrue ==
  ASSUME Ranged, Disclosing, RoutinesMove, Grows, NEW g \in report', g \notin report
  PROVE  Honest(g)'
<1>0. target' = target
  BY DEF Grows, scanVars
<1>1. CASE SweepRoutines
  <2>1. g.id = "budget"
    BY <1>1 DEF SweepRoutines, Say, BudgetFinding, Found
  <2> QED
    BY <2>1, NothingClaimed DEF Claims
<1>2. CASE CallRoutines
  <2>1. PICK r \in known[schema] :
          \/ \E says : g = Found(says, r) /\ says = verdict'[schema][r]
          \/ g = Found("returns-data", r)
    BY <1>2 DEF CallRoutines, Say, RoutineFinding, DataFinding
  <2>2. verdict'[schema][r] \in {"unknown", "denied", "callable"}
    <3>1. PICK f : verdict' = [verdict EXCEPT ![schema] =
                     [e \in known[schema] |-> IF opts.invoke THEN Says(e, f) ELSE "unknown"]]
      BY <1>2 DEF CallRoutines
    <3>2. verdict'[schema][r] = IF opts.invoke THEN Says(r, f) ELSE "unknown"
      BY <2>1, <3>1 DEF Ranged, Disclosing
    <3>3. Says(r, f) \in {"unknown", "denied", "callable"}
      BY DEF Says
    <3> QED
      BY <3>2, <3>3
  <2>3. /\ g.id \in {"unknown", "denied", "callable", "returns-data"}
        /\ g.of = r /\ g.schema = schema
    BY <2>1, <2>2 DEF Found
  <2>4. r \in DOMAIN target.routines[schema]
    BY <2>1, RoutinesAreFinite
  <2> QED
    BY <1>0, <2>3, <2>4 DEF Honest
<1>3. CASE AskForSQL
  <2>1. PICK r \in TriedForSQL : Executes(r) /\ g = Found("arbitrary-sql", r)
    BY <1>3 DEF AskForSQL, Say, ArbitrarySQL
  <2>2. target.routines[schema][r].sql \in {"primary", "secondary"}
    BY <2>1 DEF Executes, Routine
  <2>3. g.id = "arbitrary-sql" /\ g.of = r /\ g.schema = schema
    BY <2>1 DEF Found
  <2> QED
    BY <1>0, <2>2, <2>3 DEF Honest
<1> QED
  BY <1>1, <1>2, <1>3 DEF RoutinesMove

LEMMA SurfaceSpeaksTrue ==
  ASSUME Counted, Heard, Landed, SurfaceMove, Grows, NEW g \in report', g \notin report
  PROVE  Honest(g)'
<1>0. target' = target
  BY DEF Grows, scanVars
<1>1. CASE FetchAuth
  <2>1. \/ g.id = "not-assessed"
        \/ g.id \in {"open-signup", "anonymous-signin"} /\ target.auth.up
    BY <1>1 DEF FetchAuth, Say, AuthFinding, AnonymousSignInFinding, NotAssessed, Found,
                Recognised
  <2> QED
    BY <1>0, <2>1, NothingClaimed DEF Claims, Honest
<1>2. CASE SweepBuckets
  <2>1. g.id = "not-assessed"
    BY <1>2 DEF SweepBuckets, Say, NotAssessed, Found
  <2> QED
    BY <2>1, NothingClaimed DEF Claims
<1>3. CASE Buckets
  <2>1. \/ g = NotAssessed("storage")
        \/ \E b \in public' : g = BucketFinding(b)
    BY <1>3 DEF Buckets, Say
  <2>2. CASE g = NotAssessed("storage")
    BY <2>2, NothingClaimed DEF NotAssessed, Found, Claims
  <2>3. CASE \E b \in public' : g = BucketFinding(b)
    <3>1. PICK b \in public' : g = BucketFinding(b)
      BY <2>3
    <3>2. b \in buckets /\ IsPublic(b) /\ g.id = "public-bucket" /\ g.of = b
      BY <1>3, <3>1 DEF Buckets, BucketFinding, Found
    <3>3. Exposed(b) \/ Failed(Control)
      BY <3>2 DEF IsPublic, Heard
    <3>4. Exposed(b)' \/ Failed(Control)'
      BY <1>0, <3>3, WhatWasSaidStays DEF Exposed, Storage
    <3> QED
      BY <3>2, <3>4 DEF Honest
  <2> QED
    BY <2>1, <2>2, <2>3
<1>4. CASE RemoveObject
  <2>1. \/ stored /\ g = Found("anon-write", writing)
        \/ g.id = "object-left"
    BY <1>4 DEF RemoveObject, Say, BucketWriteFinding, Residue, Found
  <2>2. CASE g.id = "object-left"
    BY <2>2, NothingClaimed DEF Claims
  <2>3. CASE stored /\ g = Found("anon-write", writing)
    <3>1. g.id = "anon-write" /\ g.of = writing
      BY <2>3 DEF Found
    <3>2. Writable(writing)
      BY <2>3 DEF Landed
    <3>3. Writable(g.of)'
      BY <1>0, <3>1, <3>2 DEF Writable, Exposed, Storage
    <3> QED
      BY <3>1, <3>3 DEF Honest
  <2> QED
    BY <2>1, <2>2, <2>3
<1>5. CASE EnumerateFunctions
  <2> DEFINE asks == IF opts.invoke THEN FunctionSeeds \cup {Control} ELSE {}
  <2>1. PICK f \in Failures(asks) :
          /\ Suffer(f)
          /\ \/ g.id = "not-assessed"
             \/ /\ ControlPasses(f)
                /\ \E n \in FunctionSeeds :
                     FunctionState(n, f) = "open" /\ g = FunctionFinding(n)
    BY <1>5 DEF EnumerateFunctions, Say, FunctionsUnresolved, NotAssessed, Found
  <2>2. IsFiniteSet(asks)
    BY SurfaceAssumption, FS_Singleton, FS_Union, FS_EmptySet
  <2> HIDE DEF asks
  <2>3. \A r \in DOMAIN f : <<pc, schema, r, f[r]>> \in faults'
    BY <2>1, <2>2, FailuresAreFew
  <2>4. CASE g.id = "not-assessed"
    BY <2>4, NothingClaimed DEF Claims
  <2>5. CASE ControlPasses(f) /\ \E n \in FunctionSeeds :
               FunctionState(n, f) = "open" /\ g = FunctionFinding(n)
    <3>1. PICK n \in FunctionSeeds : FunctionState(n, f) = "open" /\ g = FunctionFinding(n)
      BY <2>5
    <3>2. g.id = "function-no-jwt" /\ g.of = n
      BY <3>1 DEF FunctionFinding, Found
    <3>3. ~target.catchAll
      BY <2>5 DEF ControlPasses, FunctionState, Deployed
    <3>4. CASE n \in DOMAIN f
      <4> DEFINE x == <<pc, schema, n, f[n]>>
      <4>1. f[n] = "down"
        BY <3>1, <3>4 DEF FunctionState
      <4>2. x \in faults' /\ x[4] = "down"
        BY <2>3, <3>4, <4>1
      <4> HIDE DEF x
      <4> QED
        BY <3>2, <4>2 DEF Honest
    <3>5. CASE n \notin DOMAIN f
      <4>1. n \in DOMAIN target.functions /\ target.functions[n] = "open"
        BY <3>1, <3>3, <3>5 DEF FunctionState, Deployed
      <4> QED
        BY <1>0, <3>2, <3>3, <4>1 DEF Honest
    <3> QED
      BY <3>4, <3>5
  <2> QED
    BY <2>1, <2>4, <2>5
<1>6. CASE ListBuckets \/ ClaimStorage \/ Upload \/ ReadBack \/ BucketsOver
  BY <1>6 DEF ListBuckets, ClaimStorage, Upload, ReadBack, BucketsOver
<1> QED
  BY <1>1, <1>2, <1>3, <1>4, <1>5, <1>6 DEF SurfaceMove, SurfaceStep

LEMMA RealtimeSpeaksTrue ==
  ASSUME Streaming, RealtimeMove, Grows, NEW g \in report', g \notin report
  PROVE  Honest(g)'
<1>0. target' = target /\ (Garbled => Garbled')
  BY WhatWasSaidStays DEF Grows, scanVars
<1>1. CASE Conclude
  <2>1. accepted \subseteq Realtime.streams \/ Garbled
    BY <1>1 DEF Conclude, Streaming, Listening
  <2>2. underway \subseteq Realtime.streams
    BY <1>1 DEF Conclude, Streaming, Listening
  <2>3. \/ g = NotAssessed("realtime-delivery")
        \/ \E rel \in accepted : g = StreamFinding(rel)
        \/ \E rel \in underway : g = DeliveryFinding(rel)
    BY <1>1 DEF Conclude, Say
  <2>4. CASE g = NotAssessed("realtime-delivery")
    BY <2>4, NothingClaimed DEF NotAssessed, Found, Claims
  <2>5. CASE (\E rel \in accepted : g = StreamFinding(rel))
             \/ (\E rel \in underway : g = DeliveryFinding(rel))
    <3>1. /\ g.id \in {"streams", "streams-hidden", "delivers"} /\ g.schema = schema
          /\ g.of \in Realtime.streams \/ Garbled
      BY <2>1, <2>2, <2>5 DEF StreamFinding, DeliveryFinding, Severity, Found
    <3>2. g.of \in target'.realtime[g.schema].streams \/ Garbled'
      BY <1>0, <3>1 DEF Realtime
    <3> QED
      BY <3>1, <3>2 DEF Honest
  <2> QED
    BY <2>3, <2>4, <2>5
<1>2. CASE \/ Dial \/ JoinControl \/ Join \/ JoinsOver \/ Listen \/ ListensOver
           \/ Trigger \/ TriggersOver
  BY <1>2 DEF Dial, JoinControl, Join, JoinsOver, Listen, ListensOver, Trigger,
              TriggersOver
<1> QED
  BY <1>1, <1>2 DEF RealtimeMove, RealtimeStep

LEMMA HonestReportIsKept ==
  ASSUME ServicesInv, [Next]_vars, Grows
  PROVE  HonestReport'
<1>1. ASSUME NEW g \in report', g \in report PROVE Honest(g)'
  BY <1>1, HonestyStays DEF HonestReport, ServicesInv
<1>2. ASSUME NEW g \in report', g \notin report PROVE Honest(g)'
  <2>1. RoutinesMove \/ SurfaceMove \/ RealtimeMove
    BY <1>2, NextMoves DEF vars
  <2> QED
    BY <1>2, <2>1, RoutinesSpeakTrue, SurfaceSpeaksTrue, RealtimeSpeaksTrue
       DEF ServicesInv
<1> QED
  BY <1>1, <1>2 DEF HonestReport

-----------------------------------------------------------------------------
\* What is not said of a service is owned up to when the service is left.

LEMMA TellingStays ==
  ASSUME Grows
  PROVE  /\ target' = target /\ opts' = opts
         /\ AuthTold => AuthTold'
         /\ \A b : BucketTold(b) => BucketTold(b)'
         /\ \A n : FunctionTold(n) => FunctionTold(n)'
         /\ \A b : Exposed(b)' <=> Exposed(b)
         /\ \A n : Deployed(n)' = Deployed(n)
         /\ \A service : Declared(service) => Declared(service)'
<1>0. /\ target' = target /\ opts' = opts
      /\ \A id, of : Reported(id, of) => Reported(id, of)'
  BY WhatWasSaidStays DEF Grows, scanVars
<1>1. AuthTold => AuthTold'
  BY <1>0 DEF AuthTold, Declared
<1>2. ASSUME NEW b, BucketTold(b) PROVE BucketTold(b)'
  BY <1>0, <1>2 DEF BucketTold, Declared
<1>3. ASSUME NEW n, FunctionTold(n) PROVE FunctionTold(n)'
  BY <1>0, <1>3 DEF FunctionTold, Declared
<1>4. \A b : Exposed(b)' <=> Exposed(b)
  BY <1>0 DEF Exposed, Storage
<1>5. \A n : Deployed(n)' = Deployed(n)
  BY <1>0 DEF Deployed
<1>6. ASSUME NEW service, Declared(service) PROVE Declared(service)'
  BY <1>0, <1>6 DEF Declared
<1> QED
  BY <1>0, <1>1, <1>2, <1>3, <1>4, <1>5, <1>6, Zenon

\* Where nothing of the surface becomes due, what was due stays told.
LEMMA NothingNewIsDue ==
  ASSUME SurfaceTold, Grows,
         AuthIsOver' => AuthIsOver,
         BucketsAreOver' => BucketsAreOver,
         FunctionsAreOver' => FunctionsAreOver,
         pc' \notin {"claim", "buckets"}
  PROVE  SurfaceTold'
<1>1. AuthIsOver' => AuthTold'
  BY TellingStays DEF SurfaceTold
<1>2. BucketsDue'
  BY DEF BucketsDue
<1>3. (BucketsAreOver => \A b \in BucketSeeds : Exposed(b) => BucketTold(b))'
  BY TellingStays DEF SurfaceTold
<1>4. (FunctionsAreOver => \A n \in FunctionSeeds :
         opts.invoke /\ Deployed(n) = "open" => FunctionTold(n))'
  BY TellingStays DEF SurfaceTold
<1> QED
  BY <1>1, <1>2, <1>3, <1>4 DEF SurfaceTold

LEMMA SettingsAreTold ==
  ASSUME FetchAuth
  PROVE  AuthTold'
<1>1. target' = target
  BY DEF FetchAuth, scanVars
<1>2. \/ NotAssessed("auth") \in report'
      \/ AuthFinding \cup AnonymousSignInFinding \subseteq report'
  BY DEF FetchAuth, Say
<1>3. CASE NotAssessed("auth") \in report'
  BY <1>3 DEF NotAssessed, Found, AuthTold, Declared, Reported
<1>4. CASE AuthFinding \cup AnonymousSignInFinding \subseteq report'
  <2>1. target.auth.open => Found("open-signup", "auth") \in report'
    BY <1>4 DEF AuthFinding
  <2>2. target.auth.anonymous => Found("anonymous-signin", "auth") \in report'
    BY <1>4 DEF AnonymousSignInFinding
  <2>3. \A id : Found(id, "auth") \in report' => Reported(id, "auth")'
    BY DEF Found, Reported
  <2> QED
    BY <1>1, <2>1, <2>2, <2>3 DEF AuthTold
<1> QED
  BY <1>2, <1>3, <1>4

\* Names are declared together where one of them could not be classified.
LEMMA NamesAreDue ==
  ASSUME SweepBuckets
  PROVE  \/ Declared("storage-buckets")'
         \/ \A b \in BucketSeeds : Exposed(b) => b \in buckets'
<1>1. PICK f \in Failures(BucketSeeds \cup {Control}) :
        \/ NotAssessed("storage-buckets") \in report'
        \/ /\ ~Unclassified(f)
           /\ buckets' = buckets \cup {b \in BucketSeeds : State(b, f) = "yes"}
  BY DEF SweepBuckets, Say
<1>2. CASE NotAssessed("storage-buckets") \in report'
  BY <1>2 DEF NotAssessed, Found, Declared, Reported
<1>3. CASE /\ ~Unclassified(f)
           /\ buckets' = buckets \cup {b \in BucketSeeds : State(b, f) = "yes"}
  <2>1. ASSUME NEW b \in BucketSeeds, Exposed(b) PROVE State(b, f) = "yes"
    <3>1. State(b, f) # "unknown"
      BY <1>3 DEF Unclassified
    <3> QED
      BY <2>1, <3>1 DEF State, Answer
  <2> QED
    BY <1>3, <2>1
<1> QED
  BY <1>1, <1>2, <1>3

LEMMA BucketsAreTold ==
  ASSUME BucketsDue, Buckets, Grows, NEW b \in BucketSeeds, Exposed(b)
  PROVE  BucketTold(b)'
<1>1. CASE ~storageOK
  <2>1. NotAssessed("storage") \in report'
    BY <1>1 DEF Buckets, Say
  <2> QED
    BY <2>1 DEF NotAssessed, Found, BucketTold, Declared, Reported
<1>2. CASE Declared("storage-buckets")
  BY <1>2, TellingStays DEF BucketTold
<1>3. CASE b \in buckets
  <2>1. b \in public'
    BY <1>3 DEF Buckets, IsPublic
  <2>2. BucketFinding(b) \in report'
    BY <2>1 DEF Buckets, Say
  <2> QED
    BY <2>2 DEF BucketFinding, Found, BucketTold, Reported
<1> QED
  BY <1>1, <1>2, <1>3 DEF BucketsDue, Buckets

LEMMA FunctionsAreTold ==
  ASSUME EnumerateFunctions, NEW n \in FunctionSeeds,
         opts.invoke, Deployed(n) = "open"
  PROVE  FunctionTold(n)'
<1>1. PICK f \in Failures(FunctionSeeds \cup {Control}) :
        \/ NotAssessed("edge-functions") \in report'
        \/ /\ FunctionState(n, f) = "open" => FunctionFinding(n) \in report'
           /\ FunctionsUnresolved(f) \subseteq report'
  BY DEF EnumerateFunctions, Say
<1>2. CASE NotAssessed("edge-functions") \in report'
  BY <1>2 DEF NotAssessed, Found, FunctionTold, Declared, Reported
<1>3. CASE FunctionFinding(n) \in report'
  BY <1>3 DEF FunctionFinding, Found, FunctionTold, Reported
<1>4. FunctionState(n, f) \in {"open", "unresolved"}
  BY DEF FunctionState
<1>5. FunctionState(n, f) = "unresolved" /\ FunctionsUnresolved(f) \subseteq report'
        => NotAssessed("edge-functions") \in report'
  BY DEF FunctionsUnresolved, Unresolved
<1> QED
  BY <1>1, <1>2, <1>3, <1>4, <1>5

LEMMA SurfaceToldIsKept ==
  ASSUME Ranged, SurfaceTold, [Next]_vars, Grows
  PROVE  SurfaceTold'
<1> USE DEF AuthIsOver, BucketsAreOver, FunctionsAreOver, Sweeping, Writing
<1>1. CASE RoutinesMove
  <2>1. /\ AuthIsOver' => AuthIsOver
        /\ pc' \notin {"claim", "buckets"}
        /\ BucketsAreOver' => BucketsAreOver
        /\ FunctionsAreOver' => FunctionsAreOver
    BY <1>1 DEF RoutinesMove, SweepRoutines, CallRoutines, AskForSQL, Ranged
  <2> QED
    BY <2>1, NothingNewIsDue
<1>2. CASE RealtimeMove
  <2>1. Listening /\ pc' \notin {"claim", "buckets"}
    BY <1>2 DEF RealtimeMove, RealtimeStep, Dial, JoinControl, Join, JoinsOver, Listen,
                ListensOver, Trigger, TriggersOver, Conclude, Listening
  <2>2. FunctionsAreOver
    BY <2>1 DEF Listening
  <2> QED
    BY <2>1, <2>2, NothingNewIsDue
<1>3. CASE FetchAuth
  <2>1. pc' = "list"
    BY <1>3 DEF FetchAuth
  <2> QED
    BY <1>3, <2>1, SettingsAreTold DEF SurfaceTold, BucketsDue
<1>4. CASE ListBuckets
  <2>1. /\ pc = "list" /\ pc' \in {"names", "claim"}
        /\ pc' = "claim" => ~storageOK'
    BY <1>4 DEF ListBuckets
  <2> QED
    BY <2>1, TellingStays DEF SurfaceTold, BucketsDue
<1>5. CASE ClaimStorage
  <2>1. /\ pc = "claim" /\ pc' \in {"names", "buckets"} /\ ~storageOK'
    BY <1>5 DEF ClaimStorage, surfaceVars, SurfaceTold, BucketsDue
  <2> QED
    BY <2>1, TellingStays DEF SurfaceTold, BucketsDue
<1>6. CASE SweepBuckets
  <2>1. pc = "names" /\ pc' = "buckets"
    BY <1>6 DEF SweepBuckets
  <2>2. BucketsDue'
    BY <1>6, <2>1, NamesAreDue, TellingStays DEF BucketsDue
  <2>3. AuthTold'
    BY <2>1, TellingStays DEF SurfaceTold
  <2> QED
    BY <2>1, <2>2, <2>3 DEF SurfaceTold
<1>7. CASE Buckets
  <2>1. pc = "buckets" /\ pc' \in {"upload", "functions"}
    BY <1>7 DEF Buckets
  <2>2. AuthTold'
    BY <2>1, TellingStays DEF SurfaceTold
  <2>3. \A b \in BucketSeeds : Exposed(b)' => BucketTold(b)'
    BY <1>7, BucketsAreTold, TellingStays DEF SurfaceTold
  <2> QED
    BY <2>1, <2>2, <2>3 DEF SurfaceTold, BucketsDue
<1>8. CASE Upload \/ ReadBack \/ RemoveObject \/ BucketsOver
  <2>1. Writing /\ pc' \in {"upload", "readBack", "remove", "functions"} /\ schema' = schema
    BY <1>8 DEF Upload, ReadBack, RemoveObject, BucketsOver, routineVars
  <2> QED
    BY <2>1, NothingNewIsDue
<1>9. CASE EnumerateFunctions
  <2>1. pc = "functions" /\ pc' = "sweep"
    BY <1>9 DEF EnumerateFunctions
  <2>2. AuthTold'
    BY <2>1, TellingStays DEF SurfaceTold
  <2>3. \A b \in BucketSeeds : Exposed(b)' => BucketTold(b)'
    BY <2>1, TellingStays DEF SurfaceTold
  <2>4. \A n \in FunctionSeeds :
          opts'.invoke /\ Deployed(n)' = "open" => FunctionTold(n)'
    BY <1>9, FunctionsAreTold, TellingStays
  <2> QED
    BY <2>1, <2>2, <2>3, <2>4 DEF SurfaceTold, BucketsDue
<1>10. CASE UNCHANGED vars
  <2>1. UNCHANGED <<pc, schema, storageOK, buckets>>
    BY <1>10 DEF vars, routineVars, surfaceVars
  <2> QED
    BY <2>1, TellingStays DEF SurfaceTold, BucketsDue
<1> QED
  BY <1>1, <1>2, <1>3, <1>4, <1>5, <1>6, <1>7, <1>8, <1>9, <1>10, NextMoves
     DEF SurfaceMove, SurfaceStep

-----------------------------------------------------------------------------
\* A schema that was swept is told of.

LEMMA SweepTells ==
  ASSUME Ranged, Disclosing, Counted, Charged, SweepRoutines, Grows,
         NEW s, s = schema
  PROVE  RoutinesTold(s)'
<1> DEFINE sent == Range(RoutineCandidates(Allowance))
           names == sent \cup Guesses
<1>1. PICK f \in Failures(names \cup {Control}) :
        /\ Suffer(f)
        /\ known' = [known EXCEPT ![schema] = Disclosed(names, f)]
        /\ BudgetFinding \subseteq report'
  BY DEF SweepRoutines, Say
<1>2. Allowance \in Int
  BY DEF Charged, Allowance
<1>3. IsFiniteSet(names \cup {Control})
  BY <1>2, NamesAreFinite
<1>4. \A r \in DOMAIN f : <<pc, schema, r, f[r]>> \in faults'
  <2> HIDE DEF names
  <2> QED
    BY <1>1, <1>3, FailuresAreFew
<1>5. known'[s] = Disclosed(names, f)
  <2> HIDE DEF names
  <2> QED
    BY <1>1 DEF Ranged, Disclosing
<1>6. target' = target
  BY DEF Grows, scanVars
<1>7. CASE Bound
  <2>1. Found("budget", "routine-discovery") \in report'
    BY <1>1, <1>7 DEF BudgetFinding
  <2>2. Reported("budget", "routine-discovery")'
    BY <2>1 DEF Found, Reported
  <2> QED
    BY <2>2 DEF RoutinesTold
<1>8. CASE ~Bound
  <2>1. sent = AllCandidatesAsked
    BY <1>2, <1>8, UncutAsksForEverything DEF Bound, AllCandidatesAsked
  <2> SUFFICES ASSUME NothingFailed', NEW r \in DOMAIN target.routines[s],
                      target.routines[s][r].near \cap AllCandidatesAsked # {}
               PROVE  r \in known'[s]
    BY <1>6 DEF RoutinesTold, AllCandidatesAsked
  <2>2. DOMAIN f = {}
    BY <1>4 DEF NothingFailed
  <2>3. AllCandidatesAsked \subseteq names
    BY <2>1
  <2> HIDE DEF names
  <2>4. r \in Hinted(names \ DOMAIN f)
    BY <2>2, <2>3 DEF Hinted, Routine
  <2> QED
    BY <1>5, <2>4 DEF Disclosed
<1> QED
  BY <1>7, <1>8

LEMMA RoutinesStayTold ==
  ASSUME Grows, NEW s, known'[s] = known[s], RoutinesTold(s)
  PROVE  RoutinesTold(s)'
<1>1. /\ target' = target
      /\ NothingFailed' => NothingFailed
      /\ Reported("budget", "routine-discovery") => Reported("budget", "routine-discovery")'
  BY WhatWasSaidStays DEF Grows, scanVars
<1> QED
  BY <1>1 DEF RoutinesTold, AllCandidatesAsked

LEMMA SweepsToldIsKept ==
  ASSUME ServicesInv, [Next]_vars, Grows
  PROVE  SweepsTold'
<1>0. /\ Ranged /\ Disclosing /\ Counted /\ Charged /\ SweepsTold
      /\ target' = target /\ Schemas' = Schemas
  BY DEF ServicesInv, Grows, scanVars, Schemas
<1> USE DEF Swept, AuthIsOver, BucketsAreOver, FunctionsAreOver, Sweeping, Writing
<1>1. CASE SweepRoutines
  <2>1. /\ pc = "sweep" /\ pc' = "call" /\ UNCHANGED <<schema, todo>>
        /\ \A s \in Schemas : s # schema => known'[s] = known[s]
    BY <1>0, <1>1 DEF SweepRoutines, Disclosing
  <2>2. ASSUME NEW s \in Schemas, Swept(s)' PROVE RoutinesTold(s)'
    <3>1. CASE s = schema
      BY <1>0, <1>1, <3>1, SweepTells
    <3>2. CASE s # schema
      <4>1. Swept(s) /\ known'[s] = known[s]
        BY <2>1, <2>2, <3>2
      <4>2. RoutinesTold(s)
        BY <1>0, <4>1 DEF SweepsTold
      <4> HIDE DEF Swept
      <4> QED
        BY <4>1, <4>2, RoutinesStayTold
    <3> QED
      BY <3>1, <3>2
  <2> QED
    BY <1>0, <2>2 DEF SweepsTold
<1>2. ASSUME known' = known, NEW s \in Schemas, Swept(s)', Swept(s)' => Swept(s)
      PROVE  RoutinesTold(s)'
  <2>1. RoutinesTold(s)
    BY <1>0, <1>2 DEF SweepsTold
  <2> HIDE DEF Swept
  <2> QED
    BY <1>2, <2>1, RoutinesStayTold
<1>3. CASE CallRoutines \/ AskForSQL
  <2>1. known' = known
    BY <1>3 DEF CallRoutines, AskForSQL
  <2>2. ASSUME NEW s \in Schemas, Swept(s)' PROVE Swept(s)
    BY <1>0, <1>3, <2>2 DEF CallRoutines, AskForSQL, Ranged
  <2> HIDE DEF Swept
  <2> QED
    BY <1>0, <1>2, <2>1, <2>2 DEF SweepsTold
<1>4. CASE SurfaceMove
  <2>1. UNCHANGED <<known, schema, todo>> /\ (Asking \/ Writing) /\ pc' # "call"
        /\ pc' # "sql" /\ ~Listening' /\ ~Done'
    BY <1>4, SurfaceKeeps
       DEF routineVars, SurfaceMove, SurfaceStep, FetchAuth, ListBuckets, ClaimStorage,
           SweepBuckets, Buckets, Upload, ReadBack, RemoveObject, BucketsOver,
           EnumerateFunctions, Asking, Writing, Listening, Done
  <2>2. ASSUME NEW s \in Schemas, Swept(s)' PROVE Swept(s)
    <3>1. s # Default
      <4>1. Ranged'
        BY <1>0, RangedIsKept
      <4> QED
        BY <2>1, <2>2, <4>1 DEF Ranged, Asking
    <3> QED
      BY <2>1, <2>2, <3>1 DEF Asking
  <2> HIDE DEF Swept
  <2> QED
    BY <1>0, <1>2, <2>1, <2>2 DEF SweepsTold
<1>5. CASE RealtimeMove
  <2>1. UNCHANGED <<known, todo>> /\ Listening
    BY <1>5, RealtimeKeeps
       DEF RealtimeMove, RealtimeStep, Dial, JoinControl, Join, JoinsOver, Listen,
           ListensOver, Trigger, TriggersOver, Conclude, Listening
  <2>2. ASSUME NEW s \in Schemas, Swept(s)' PROVE Swept(s)
    BY <2>1, <2>2 DEF Listening
  <2> HIDE DEF Swept
  <2> QED
    BY <1>0, <1>2, <2>1, <2>2 DEF SweepsTold
<1>6. CASE UNCHANGED vars
  <2>1. UNCHANGED <<known, pc, schema, todo>>
    BY <1>6 DEF vars, routineVars
  <2>2. ASSUME NEW s \in Schemas, Swept(s)' PROVE Swept(s)
    BY <2>1, <2>2
  <2> HIDE DEF Swept
  <2> QED
    BY <1>0, <1>2, <2>1, <2>2 DEF SweepsTold
<1> QED
  BY <1>1, <1>3, <1>4, <1>5, <1>6, NextMoves DEF RoutinesMove

-----------------------------------------------------------------------------
\* An object is told of, or the reply to its upload was lost, or it is the one
\* that is being looked at.

LEMMA ObjectsToldIsKept ==
  ASSUME Ranged, Counted, ObjectsTold, [Next]_vars, Grows
  PROVE  ObjectsTold'
<1> DEFINE Told(b) == Reported("object-left", b) \/ Failed("upload")
<1>0. /\ opts' = opts /\ (Writes' <=> Writes)
      /\ \A b : Told(b) => Told(b)'
  BY WhatWasSaidStays DEF Grows, scanVars, Writes
<1>1. ASSUME pc \notin {"readBack", "remove"}, UNCHANGED <<objects, uploads>>,
             Writing' => Writing \/ Writes
      PROVE  ObjectsTold'
  BY <1>0, <1>1 DEF ObjectsTold
<1>2. CASE Upload
  <2>1. PICK b \in public, f \in One("upload") :
          /\ Suffer(f) /\ uploads' = uploads \cup {b}
          /\ objects' \in {objects \cup Keeps(b)} \cup (IF Fine(f) THEN {} ELSE {objects})
          /\ IF Fine(f) /\ Accepts(b) THEN writing' = b /\ pc' = "readBack"
             ELSE UNCHANGED <<writing, pc>>
    BY <1>2 DEF Upload
  <2>2. pc = "upload" /\ Writes
    BY <1>2 DEF Upload, ObjectsTold, Writing
  <2>3. \A c \in objects : Told(c)'
    BY <1>0, <2>2 DEF ObjectsTold
  <2>4. ~Fine(f) => Failed("upload")'
    <3> SUFFICES ASSUME ~Fine(f) PROVE Failed("upload")'
      OBVIOUS
    <3>1. PICK r \in DOMAIN f : TRUE
      BY DEF Fine
    <3>2. r = "upload" /\ <<pc, schema, r, f[r]>> \in faults'
      BY <2>1, <3>1, OneFailureGrows
    <3> QED
      BY <3>2 DEF Failed
  <2>5. ASSUME NEW c \in objects', c \notin objects
        PROVE  Told(c)' \/ (pc' \in {"readBack", "remove"} /\ c = writing')
    <3>1. c \in Keeps(b)
      BY <2>1, <2>5
    <3>2. c = b /\ Accepts(b)
      BY <3>1 DEF Keeps
    <3>3. CASE Fine(f)
      BY <2>1, <3>2, <3>3
    <3>4. CASE ~Fine(f)
      BY <2>4, <3>4
    <3> QED
      BY <3>3, <3>4
  <2> QED
    BY <1>0, <2>2, <2>3, <2>5 DEF ObjectsTold
<1>3. CASE ReadBack
  <2>1. pc = "readBack" /\ pc' = "remove" /\ UNCHANGED <<objects, uploads, writing>>
    BY <1>3 DEF ReadBack
  <2> QED
    BY <1>0, <2>1 DEF ObjectsTold, Writing
<1>4. CASE RemoveObject
  <2>1. PICK f \in One("remove") :
          /\ objects' \in (IF Removes THEN {objects \ {writing}} ELSE {objects})
                            \cup (IF Fine(f) THEN {} ELSE {objects})
          /\ Residue(Fine(f) /\ Removes) \subseteq report'
    BY <1>4 DEF RemoveObject, Say
  <2>2. pc = "remove" /\ UNCHANGED uploads
    BY <1>4 DEF RemoveObject
  <2>3. ASSUME NEW c \in objects' PROVE Told(c)'
    <3>1. c \in objects
      BY <2>1
    <3>2. CASE c # writing
      BY <1>0, <2>2, <3>1, <3>2 DEF ObjectsTold
    <3>3. CASE c = writing
      <4>1. ~(Fine(f) /\ Removes)
        BY <2>1, <3>3
      <4>2. Found("object-left", writing) \in report'
        BY <2>1, <4>1 DEF Residue
      <4> QED
        BY <3>3, <4>2 DEF Found, Reported
    <3> QED
      BY <3>2, <3>3
  <2> QED
    BY <1>0, <2>2, <2>3 DEF ObjectsTold, Writing
<1>5. CASE \/ FetchAuth \/ ListBuckets \/ ClaimStorage \/ SweepBuckets \/ Buckets
           \/ BucketsOver \/ EnumerateFunctions
  <2>1. /\ pc \notin {"readBack", "remove"} /\ UNCHANGED <<objects, uploads>>
        /\ Writing' => Writing \/ Writes
    BY <1>5 DEF FetchAuth, ListBuckets, ClaimStorage, SweepBuckets, Buckets, BucketsOver,
                EnumerateFunctions, surfaceVars, Writing
  <2> QED
    BY <1>1, <2>1
<1>6. CASE RoutinesMove
  <2>1. pc \notin {"readBack", "remove"} /\ ~Writing' /\ UNCHANGED <<objects, uploads>>
    BY <1>6 DEF RoutinesMove, SweepRoutines, CallRoutines, AskForSQL, surfaceVars, Writing
  <2> QED
    BY <1>1, <2>1
<1>7. CASE RealtimeMove
  <2>1. pc \notin {"readBack", "remove"} /\ ~Writing' /\ UNCHANGED <<objects, uploads>>
    BY <1>7, RealtimeKeeps
       DEF RealtimeMove, RealtimeStep, Dial, JoinControl, Join, JoinsOver, Listen,
           ListensOver, Trigger, TriggersOver, Conclude, Writing, surfaceVars
  <2> QED
    BY <1>1, <2>1
<1>8. CASE UNCHANGED vars
  <2>1. UNCHANGED <<pc, objects, uploads, writing>>
    BY <1>8 DEF vars, surfaceVars
  <2> QED
    BY <1>0, <2>1 DEF ObjectsTold, Writing
<1> QED
  BY <1>2, <1>3, <1>4, <1>5, <1>6, <1>7, <1>8, NextMoves DEF SurfaceMove, SurfaceStep

\* A session whose changes did not arrive is declared as it is concluded.
LEMMA SessionsToldIsKept ==
  ASSUME Ranged, SessionsTold, [Next]_vars, Grows
  PROVE  SessionsTold'
<1>0. /\ Schemas' = Schemas
      /\ Declared("realtime-delivery") => Declared("realtime-delivery")'
  BY TellingStays DEF Schemas
<1>1. CASE Conclude
  <2>1. PICK delivered \in SUBSET underway :
          /\ sessions' = [s \in DOMAIN sessions \cup {schema} |->
               IF s # schema THEN sessions[s]
               ELSE [reachable |-> Reachable, acked |-> acked, accepted |-> accepted,
                     listening |-> listening, tested |-> tested,
                     delivered |-> delivered, expired |-> socket = "expired"]]
          /\ schema = Default /\ Unmeasured(delivered)
               => NotAssessed("realtime-delivery") \in report'
    BY <1>1 DEF Conclude, Say
  <2>2. DOMAIN sessions' = DOMAIN sessions \cup {schema}
    BY <2>1
  <2>3. /\ DOMAIN sessions' \subseteq Schemas
        /\ Done' => DOMAIN sessions' = Schemas
    BY <1>1, <2>2 DEF Conclude, Done, Ranged, SessionsTold
  <2>4. CASE schema = Default
    <3>1. /\ sessions'[Default].delivered = delivered
          /\ sessions'[Default].reachable = Reachable
          /\ sessions'[Default].tested = tested
      BY <2>1, <2>4
    <3>2. NotAssessed("realtime-delivery") \in report' => Declared("realtime-delivery")'
      BY DEF NotAssessed, Found, Declared, Reported
    <3>3. LET d == sessions'[Default] IN
          d.delivered = {} /\ (~d.reachable \/ d.tested # {})
            => Declared("realtime-delivery")'
      BY <2>1, <2>4, <3>1, <3>2 DEF Unmeasured
    <3> QED
      BY <1>0, <2>3, <3>3 DEF SessionsTold
  <2>5. CASE schema # Default
    <3>1. Default \in DOMAIN sessions' =>
            Default \in DOMAIN sessions /\ sessions'[Default] = sessions[Default]
      BY <2>1, <2>5
    <3>2. (Default \in DOMAIN sessions =>
             LET d == sessions[Default] IN
             d.delivered = {} /\ (~d.reachable \/ d.tested # {})
               => Declared("realtime-delivery"))'
      BY <1>0, <3>1 DEF SessionsTold
    <3> QED
      BY <1>0, <2>3, <3>2 DEF SessionsTold
  <2> QED
    BY <2>4, <2>5
<1>2. ASSUME sessions' = sessions, Done' => Done PROVE SessionsTold'
  BY <1>0, <1>2 DEF SessionsTold
<1>3. (sessions' = sessions /\ (Done' => Done)) \/ Conclude
  <2>1. CASE RoutinesMove
    BY <2>1 DEF RoutinesMove, SweepRoutines, CallRoutines, AskForSQL, realtimeVars, Done
  <2>2. CASE SurfaceMove
    BY <2>2 DEF SurfaceMove, SurfaceStep, FetchAuth, ListBuckets, ClaimStorage,
                SweepBuckets, Buckets, Upload, ReadBack, RemoveObject, BucketsOver,
                EnumerateFunctions, realtimeVars, Done
  <2>3. CASE RealtimeMove
    BY <2>3 DEF RealtimeMove, RealtimeStep, Dial, JoinControl, Join, JoinsOver, Listen,
                ListensOver, Trigger, TriggersOver, realtimeVars, Done
  <2>4. CASE UNCHANGED vars
    BY <2>4 DEF vars, realtimeVars, Done
  <2> QED
    BY <2>1, <2>2, <2>3, <2>4, NextMoves
<1> QED
  BY <1>1, <1>2, <1>3

-----------------------------------------------------------------------------
LEMMA ServicesInvHolds ==
  Spec => []ServicesInv
<1>1. Init => ServicesInv
  <2> SUFFICES ASSUME Init PROVE ServicesInv
    OBVIOUS
  <2>1. target \in Targets /\ opts \in Options /\ Default \in Schemas
    BY RoutinesAssumption DEF Init, Schemas
  <2>2. Ranged
    BY <2>1 DEF Init, Ranged, Sweeping, Writing, Asking, Listening, Done, Schemas,
                RealtimeInit
  <2>3. Disclosing
    BY DEF Init, Disclosing, Schemas
  <2>4. Counted
    BY RoutinesAssumption, FS_EmptySet DEF Init, Counted
  <2>5. Charged
    BY <2>1, RoutinesAssumption DEF Init, Charged, NewBudget, HalfForExtra
  <2>6. Heard /\ Landed /\ HonestReport
    BY DEF Init, Heard, Landed, HonestReport
  <2>7. pc \in {"auth", "sweep"} /\ (pc = "sweep" => schema # Default)
    BY DEF Init
  <2>8. Informative /\ Streaming
    BY <2>7 DEF Informative, Streaming, Listening
  <2>9. VerdictIsMeasured
    BY DEF Init, VerdictIsMeasured, Schemas
  <2>10. ~AuthIsOver
    BY <2>7 DEF AuthIsOver, Sweeping
  <2>11. SurfaceTold
    BY <2>7, <2>10 DEF SurfaceTold, BucketsDue, BucketsAreOver, FunctionsAreOver
  <2>12. SweepsTold
    <3>1. \A s \in Schemas : ~Swept(s)
      BY <2>10 DEF Init, Swept, BucketsAreOver, FunctionsAreOver, Schemas
    <3> QED
      BY <3>1 DEF SweepsTold
  <2>13. ObjectsTold
    BY <2>7 DEF Init, ObjectsTold, Writing
  <2>14. SessionsTold
    BY <2>7 DEF Init, RealtimeInit, SessionsTold, Done
  <2> QED
    BY <2>2, <2>3, <2>4, <2>5, <2>6, <2>8, <2>9, <2>11, <2>12, <2>13, <2>14
       DEF ServicesInv
<1>2. ServicesInv /\ [Next]_vars => ServicesInv'
  <2> SUFFICES ASSUME ServicesInv, [Next]_vars PROVE ServicesInv'
    OBVIOUS
  <2>1. /\ Ranged /\ Disclosing /\ Counted /\ Charged
        /\ Heard /\ Landed /\ Informative /\ Streaming
        /\ HonestReport /\ VerdictIsMeasured
        /\ SurfaceTold /\ SweepsTold /\ ObjectsTold /\ SessionsTold
    BY DEF ServicesInv
  <2>2. Grows
    <3>1. UNCHANGED vars => Grows
      BY <2>1 DEF vars, Grows, Counted
    <3> QED
      BY <2>1, <3>1, NextMoves, RoutinesGrow, SurfaceGrows, RealtimeGrows
  <2>3. Ranged' /\ Disclosing' /\ Charged'
    BY <2>1, RangedIsKept, DisclosingIsKept, ChargedIsKept
  <2>4. Counted'
    BY <2>2 DEF Grows
  <2>5. Heard' /\ Landed' /\ Informative' /\ Streaming'
    BY <2>1, <2>2, HeardIsKept, LandedIsKept, InformativeIsKept, StreamingIsKept
  <2>6. HonestReport' /\ VerdictIsMeasured'
    BY <2>1, <2>2, HonestReportIsKept, VerdictStaysMeasured
  <2>7. SurfaceTold' /\ SweepsTold'
    BY <2>1, <2>2, SurfaceToldIsKept, SweepsToldIsKept
  <2>8. ObjectsTold' /\ SessionsTold'
    BY <2>1, <2>2, ObjectsToldIsKept, SessionsToldIsKept
  <2> QED
    BY <2>3, <2>4, <2>5, <2>6, <2>7, <2>8 DEF ServicesInv
<1> QED
  BY <1>1, <1>2, PTL DEF Spec

\* What the stages of surface.Run and RealtimeStage report is so: a bucket that
\* is public, a function that runs for anyone, a routine that exists and what
\* calling it said, a write by a stranger, a relation that streams; unless the
\* control that was to tell went without an answer.
THEOREM ServicesStaySound ==
  Spec => []ServicesAreSound
<1>1. ServicesInv => ServicesAreSound
  <2> SUFFICES ASSUME ServicesInv PROVE ServicesAreSound
    OBVIOUS
  <2>1. TypeOK
    BY DEF ServicesInv, Ranged, Disclosing, Counted, Charged, Landed, TypeOK
  <2>2. \A f \in report : Honest(f)
    BY DEF ServicesInv, HonestReport
  <2>3. NothingIsInvented
    BY <2>2 DEF NothingIsInvented, Honest
  <2>4. AnonWriteIsReal
    BY <2>2 DEF AnonWriteIsReal, Honest, Reported, Writable
  <2>5. StreamIsReal
    BY <2>2 DEF StreamIsReal, Honest, Garbled
  <2> QED
    BY <2>1, <2>3, <2>4, <2>5 DEF ServicesInv, ServicesAreSound
<1> QED
  BY <1>1, ServicesInvHolds, PTL

\* What they do not report they own up to: settings, buckets and functions that
\* were not heard (NotAssessed), candidates that the budget of -max-rpc-probes
\* cut, in the extra schemas as in the default one, which keeps half of it, an
\* object of the scan's own that stayed, and a change that did not arrive.
THEOREM ServicesStayComplete ==
  Spec => []ServicesAreComplete
<1>1. ServicesInv => ServicesAreComplete
  <2> SUFFICES ASSUME ServicesInv PROVE ServicesAreComplete
    OBVIOUS
  <2>1. /\ Ranged /\ Charged /\ SurfaceTold /\ SweepsTold /\ ObjectsTold
        /\ SessionsTold
    BY DEF ServicesInv
  <2>2. Done => AuthIsOver /\ BucketsAreOver /\ FunctionsAreOver
    BY DEF Done, AuthIsOver, BucketsAreOver, FunctionsAreOver, Sweeping, Writing
  <2>3. NothingIsSilent
    BY <2>1, <2>2
       DEF SurfaceTold, AuthTold, BucketTold, FunctionTold, NothingIsSilent
  <2>4. CutRoutineIsDeclared
    <3>1. Done => \A s \in Schemas : Swept(s)
      BY <2>1, <2>2 DEF Swept, Ranged, Done, Sweeping
    <3>2. Done => \A s \in Schemas : RoutinesTold(s)
      BY <2>1, <3>1 DEF SweepsTold
    <3> QED
      BY <3>2 DEF CutRoutineIsDeclared, RoutinesTold, AllCandidatesAsked
  <2>5. DefaultKeepsHalf
    <3>1. opts.maxRPC \in Int
      BY <2>1, RoutinesAssumption DEF Ranged
    <3> QED
      BY <2>1, <3>1 DEF DefaultKeepsHalf, Charged, NewBudget, HalfForExtra
  <2>6. ObjectIsReported
    BY <2>1 DEF ObjectIsReported, ObjectsTold, Writes
  <2>7. QuietIsDeclared
    <3>1. Default \in Schemas
      BY <2>1, RoutinesAssumption DEF Ranged, Schemas
    <3>2. Done => Default \in DOMAIN sessions
      BY <2>1, <3>1 DEF SessionsTold
    <3> QED
      BY <2>1, <3>2 DEF QuietIsDeclared, SessionsTold
  <2> QED
    BY <2>3, <2>4, <2>5, <2>6, <2>7 DEF ServicesAreComplete
<1> QED
  BY <1>1, ServicesInvHolds, PTL

-----------------------------------------------------------------------------
\* What is done only with consent.

Invocations == {"denied", "callable", "returns-data", "function-no-jwt"}

\* Nothing is offered to a bucket and no change is caused without -write or under
\* -no-residue, in whatever schema; no routine and no function is called, and so
\* none of them gets a verdict, without -invoke.
NothingWithoutConsent ==
  /\ ~Writes => /\ uploads = {} /\ tested = {}
                /\ \A s \in DOMAIN sessions : sessions[s].tested = {}
  /\ ~opts.invoke => \A f \in report : f.id \notin Invocations

Consented ==
  /\ NothingWithoutConsent
  /\ Writing \/ objects # {} => Writes
  /\ ~Writes => listening = {} /\ (pc \in {"listen", "trigger"} => ahead = {})

LEMMA ConsentedIsKept ==
  ASSUME Ranged, Disclosing, Consented, [Next]_vars
  PROVE  Consented'
<1> USE DEF Consented, NothingWithoutConsent
<1>1. CASE RoutinesMove
  <2>1. /\ opts' = opts /\ UNCHANGED <<surfaceVars, realtimeVars>>
        /\ pc' \in {"call", "sql", "dial", "auth", "sweep"}
    BY <1>1 DEF RoutinesMove, SweepRoutines, CallRoutines, AskForSQL, scanVars
  <2>2. ASSUME ~opts.invoke, NEW g \in report', g \notin report
        PROVE  g.id \notin Invocations
    <3>1. CASE SweepRoutines
      BY <2>2, <3>1 DEF SweepRoutines, Say, BudgetFinding, Found, Invocations
    <3>2. CASE CallRoutines
      <4>1. verdict' = [verdict EXCEPT ![schema] = [r \in known[schema] |-> "unknown"]]
        BY <2>2, <3>2 DEF CallRoutines
      <4>2. PICK r \in known[schema] :
              \/ g = RoutineFinding(r, verdict'[schema][r])
              \/ g = DataFinding(r) /\ ReturnsData(r)
        BY <2>2, <3>2 DEF CallRoutines, Say
      <4>3. verdict'[schema][r] = "unknown"
        BY <4>1, <4>2 DEF Ranged, Disclosing
      <4> QED
        BY <2>2, <4>2, <4>3 DEF ReturnsData, RoutineFinding, Found, Invocations
    <3>3. CASE AskForSQL
      BY <2>2, <3>3 DEF AskForSQL, Say, ArbitrarySQL, Found, Invocations
    <3> QED
      BY <1>1, <3>1, <3>2, <3>3 DEF RoutinesMove
  <2> QED
    BY <2>1, <2>2 DEF Writes, Writing, surfaceVars, realtimeVars
<1>2. CASE SurfaceMove
  <2>1. opts' = opts /\ UNCHANGED realtimeVars
    BY <1>2, SurfaceKeeps DEF scanVars
  <2>2. /\ pc' \notin {"listen", "trigger"}
        /\ Writing' => Writes \/ Writing
        /\ uploads' # uploads \/ objects' # objects => Writing
    BY <1>2 DEF SurfaceMove, SurfaceStep, FetchAuth, ListBuckets, ClaimStorage,
                SweepBuckets, Buckets, Upload, ReadBack, RemoveObject, BucketsOver,
                EnumerateFunctions, surfaceVars, Writing
  <2>3. ASSUME ~opts.invoke, NEW g \in report', g \notin report
        PROVE  g.id \notin Invocations
    <3> USE DEF Say, NotAssessed, Found, Invocations
    <3>1. CASE FetchAuth
      BY <2>3, <3>1 DEF FetchAuth, AuthFinding, AnonymousSignInFinding
    <3>2. CASE SweepBuckets
      BY <2>3, <3>2 DEF SweepBuckets
    <3>3. CASE Buckets
      BY <2>3, <3>3 DEF Buckets, BucketFinding
    <3>4. CASE RemoveObject
      BY <2>3, <3>4 DEF RemoveObject, BucketWriteFinding, Residue
    <3>5. CASE EnumerateFunctions
      BY <2>3, <3>5 DEF EnumerateFunctions
    <3>6. CASE ListBuckets \/ ClaimStorage \/ Upload \/ ReadBack \/ BucketsOver
      BY <2>3, <3>6 DEF ListBuckets, ClaimStorage, Upload, ReadBack, BucketsOver
    <3> QED
      BY <1>2, <3>1, <3>2, <3>3, <3>4, <3>5, <3>6 DEF SurfaceMove, SurfaceStep
  <2> QED
    BY <2>1, <2>2, <2>3 DEF Writes, realtimeVars
<1>3. CASE RealtimeMove
  <2>1. opts' = opts /\ UNCHANGED surfaceVars /\ ~Writing'
    BY <1>3, RealtimeKeeps
       DEF scanVars, RealtimeMove, RealtimeStep, Dial, JoinControl, Join, JoinsOver,
           Listen, ListensOver, Trigger, TriggersOver, Conclude, Writing
  <2>2. ASSUME NEW g \in report', g \notin report PROVE g.id \notin Invocations
    <3>1. Conclude
      BY <1>3, <2>2 DEF RealtimeMove, RealtimeStep, Dial, JoinControl, Join, JoinsOver,
                        Listen, ListensOver, Trigger, TriggersOver
    <3> QED
      BY <2>2, <3>1 DEF Conclude, Say, StreamFinding, Severity, DeliveryFinding,
                        NotAssessed, Found, Invocations
  <2>3. ASSUME ~Writes
        PROVE  /\ tested' = {} /\ listening' = {}
               /\ pc' \in {"listen", "trigger"} => ahead' = {}
               /\ \A s \in DOMAIN sessions' : sessions'[s].tested = {}
    <3>1. CASE Dial \/ JoinControl \/ Join
      BY <2>3, <3>1 DEF Dial, JoinControl, Join
    <3>2. CASE JoinsOver
      BY <2>3, <3>2 DEF JoinsOver, WouldTrigger, Writes
    <3>3. CASE Listen \/ ListensOver \/ Trigger \/ TriggersOver
      BY <2>3, <3>3 DEF Listen, ListensOver, Trigger, TriggersOver, realtimeVars
    <3>4. CASE Conclude
      <4>1. \E delivered : sessions' = [s \in DOMAIN sessions \cup {schema} |->
               IF s # schema THEN sessions[s]
               ELSE [reachable |-> Reachable, acked |-> acked, accepted |-> accepted,
                     listening |-> listening, tested |-> tested,
                     delivered |-> delivered, expired |-> socket = "expired"]]
        BY <3>4 DEF Conclude
      <4>2. \A s \in DOMAIN sessions' : sessions'[s].tested = {}
        BY <2>3, <4>1
      <4> QED
        BY <2>3, <3>4, <4>2 DEF Conclude
    <3> QED
      BY <1>3, <3>1, <3>2, <3>3, <3>4 DEF RealtimeMove, RealtimeStep
  <2> QED
    BY <2>1, <2>2, <2>3 DEF Writes, surfaceVars
<1>4. CASE UNCHANGED vars
  BY <1>4 DEF vars, scanVars, surfaceVars, realtimeVars, Writes, Writing
<1> QED
  BY <1>1, <1>2, <1>3, <1>4, NextMoves

\* -write, -no-residue and -invoke are kept by every stage, whatever the target
\* answers: probeBucketWrite and runDelivery are reached only under the first,
\* callableRoutines and enumerateFunctions only under the last.
THEOREM ConsentToAct ==
  Spec => []NothingWithoutConsent
<1>1. Init => Consented
  BY DEF Init, RealtimeInit, Consented, NothingWithoutConsent, Writing
<1>2. ServicesInv /\ Consented /\ [Next]_vars => Consented'
  BY ConsentedIsKept DEF ServicesInv
<1>3. Consented => NothingWithoutConsent
  BY DEF Consented
<1> QED
  BY <1>1, <1>2, <1>3, ServicesInvHolds, PTL DEF Spec
=============================================================================
