---------------------------- MODULE WorkloadsProofs ----------------------------
(***************************************************************************)
(* Every workload keeps the promise of module Footprint, for every target, *)
(* set of options and number of replies that fail; and what it does, says  *)
(* and owns up to is so (TargetsStaySpared, ClaimsStayReal and             *)
(* GapsStayDeclared, from the invariant Holds).                            *)
(***************************************************************************)
EXTENDS Workloads, FiniteSetTheorems, WellFoundedInduction, SequenceTheorems,
        TLAPS

-----------------------------------------------------------------------------
(***************************************************************************)
(* Intent.  What is known of a resource does not depend on the order in    *)
(* which it was measured: the store sorts the measurements by what they    *)
(* are about, and within that they come in any order.  And what an         *)
(* expectation that is met says of all the measurements.                   *)
(***************************************************************************)
Alike(a, b) ==
  /\ a.of = b.of /\ a.operation = b.operation /\ a.subject = b.subject
  /\ a.allowed = b.allowed
  /\ a.allowed => a.scope = b.scope

LEMMA BroaderType ==
  ASSUME NEW a \in Scopes, NEW b \in Scopes
  PROVE  Broader(a, b) \in Scopes
BY DEF Broader, Scopes

LEMMA BroaderIsOrderFree ==
  ASSUME NEW a \in Scopes, NEW b \in Scopes, NEW c \in Scopes
  PROVE  /\ Broader(a, b) = Broader(b, a)
         /\ Broader(Broader(a, b), c) = Broader(a, Broader(b, c))
BY DEF Broader, Scopes

LEMMA CombineType ==
  ASSUME NEW a \in Observation, NEW b \in Observation
  PROVE  Combine(a, b) \in Observation
<1>1. CASE a.allowed /\ b.allowed
  <2>1. Combine(a, b) = [a EXCEPT !.scope = Broader(a.scope, b.scope)]
    BY <1>1 DEF Combine
  <2>2. Broader(a.scope, b.scope) \in Scopes
    BY BroaderType DEF Observation
  <2> QED
    BY <2>1, <2>2 DEF Observation
<1>2. CASE ~(a.allowed /\ b.allowed)
  BY <1>2 DEF Combine
<1> QED
  BY <1>1, <1>2

\* One way in is enough: what is combined is allowed exactly if something of it
\* was (combineObservation: a denial elsewhere does not undo that path).
THEOREM PermitSurvives ==
  ASSUME NEW a \in Observation, NEW b \in Observation
  PROVE  Combine(a, b).allowed <=> a.allowed \/ b.allowed
BY DEF Combine, Observation

\* Two measurements of one thing come to the same, whichever came first; of two
\* denials the scope, which then has no meaning, is the first one's.
THEOREM CombineCommutes ==
  ASSUME NEW a \in Observation, NEW b \in Observation,
         a.of = b.of, a.operation = b.operation, a.subject = b.subject
  PROVE  Alike(Combine(a, b), Combine(b, a))
<1>1. CASE a.allowed /\ b.allowed
  <2>1. /\ Combine(a, b) = [a EXCEPT !.scope = Broader(a.scope, b.scope)]
        /\ Combine(b, a) = [b EXCEPT !.scope = Broader(b.scope, a.scope)]
    BY <1>1 DEF Combine
  <2>2. Broader(a.scope, b.scope) = Broader(b.scope, a.scope)
    BY BroaderIsOrderFree DEF Observation
  <2> QED
    BY <1>1, <2>1, <2>2 DEF Alike, Observation
<1>2. CASE ~(a.allowed /\ b.allowed)
  BY <1>2 DEF Combine, Alike, Observation
<1> QED
  BY <1>1, <1>2

\* And a third one makes no difference to that, wherever it comes.
THEOREM CombineAssociates ==
  ASSUME NEW a \in Observation, NEW b \in Observation, NEW c \in Observation
  PROVE  Combine(Combine(a, b), c) = Combine(a, Combine(b, c))
<1>1. CASE a.allowed /\ b.allowed /\ c.allowed
  <2>1. /\ Combine(a, b) = [a EXCEPT !.scope = Broader(a.scope, b.scope)]
        /\ Combine(b, c) = [b EXCEPT !.scope = Broader(b.scope, c.scope)]
    BY <1>1 DEF Combine
  <2>2. /\ Combine(a, b).allowed /\ Combine(a, b).scope = Broader(a.scope, b.scope)
        /\ Combine(b, c).allowed /\ Combine(b, c).scope = Broader(b.scope, c.scope)
    BY <1>1, <2>1 DEF Observation
  <2>3. /\ Combine(Combine(a, b), c)
             = [a EXCEPT !.scope = Broader(Broader(a.scope, b.scope), c.scope)]
        /\ Combine(a, Combine(b, c))
             = [a EXCEPT !.scope = Broader(a.scope, Broader(b.scope, c.scope))]
    BY <1>1, <2>1, <2>2 DEF Combine, Observation
  <2>4. Broader(Broader(a.scope, b.scope), c.scope)
          = Broader(a.scope, Broader(b.scope, c.scope))
    BY BroaderIsOrderFree DEF Observation
  <2> QED
    BY <2>3, <2>4
<1>2. CASE ~a.allowed
  BY <1>2, PermitSurvives, CombineType DEF Combine, Observation
<1>3. CASE a.allowed /\ ~b.allowed
  BY <1>3 DEF Combine, Observation
<1>4. CASE a.allowed /\ b.allowed /\ ~c.allowed
  <2>1. Combine(a, b).allowed
    BY <1>4, PermitSurvives
  <2> QED
    BY <1>4, <2>1 DEF Combine
<1> QED
  BY <1>1, <1>2, <1>3, <1>4 DEF Observation

\* Nor does it matter how often the same thing was measured.
THEOREM CombineIsIdempotent ==
  ASSUME NEW a \in Observation
  PROVE  Combine(a, a) = a
<1>1. Broader(a.scope, a.scope) = a.scope
  BY DEF Broader, Observation, Scopes
<1> QED
  BY <1>1 DEF Combine, Observation
-----------------------------------------------------------------------------
\* There is no infinite descent among the naturals.
LEMMA LeastExists ==
  ASSUME NEW S \in SUBSET Nat, S # {}
  PROVE  \E x \in S : \A y \in S : x <= y
<1> DEFINE T == {1..x : x \in S}
<1>1. T \subseteq FiniteSubsetsOf(Nat) /\ T # {}
  <2>1. \A x \in S : IsFiniteSet(1..x) /\ 1..x \in SUBSET Nat
    BY FS_Interval
  <2> QED BY <2>1 DEF FiniteSubsetsOf
<1>2. \E t \in T : \A u \in T : ~(<<u, t>> \in StrictSubsetOrdering(Nat))
  <2> HIDE DEF T
  <2> QED BY <1>1, FS_StrictSubsetOrderingWellFounded, WFMin, Zenon
<1>3. PICK x \in S :
        \A y \in S : ~(<<1..y, 1..x>> \in StrictSubsetOrdering(Nat))
  BY <1>2, Zenon
<1>4. ASSUME NEW y \in S, y < x PROVE FALSE
  <2>1. 1..y \subseteq 1..x /\ x \in 1..x /\ x \notin 1..y
    BY <1>4
  <2>2. 1..y # 1..x
    BY <2>1, Zenon
  <2>3. 1..y \in SUBSET Nat /\ 1..x \in SUBSET Nat
    OBVIOUS
  <2> QED BY <1>3, <2>1, <2>2, <2>3 DEF StrictSubsetOrdering
<1> QED BY <1>4

\* The recursion of Only has a solution.
LEMMA OnlyUnfolds ==
  ASSUME NEW T, NEW xs \in Seq(T), NEW S
  PROVE  \E f : /\ f = [i \in 0..Len(xs) |->
                         IF i = 0 THEN <<>>
                         ELSE IF xs[i] \in S THEN Append(f[i - 1], xs[i]) ELSE f[i - 1]]
                /\ Only(xs, S) = f[Len(xs)]
<1> DEFINE Solves(f, n) ==
             f = [i \in 0..n |-> IF i = 0 THEN <<>>
                                 ELSE IF xs[i] \in S THEN Append(f[i - 1], xs[i])
                                 ELSE f[i - 1]]
           Bad == {n \in Nat : ~\E f : Solves(f, n)}
<1>1. Bad = {}
  <2> SUFFICES ASSUME Bad # {} PROVE FALSE
    OBVIOUS
  <2>1. PICK n \in Bad : \A m \in Bad : n <= m
    <3> HIDE DEF Bad
    <3>1. Bad \in SUBSET Nat
      BY DEF Bad
    <3> QED
      BY <3>1, LeastExists
  <2>2. n # 0
    <3>1. Solves([i \in 0..0 |-> <<>>], 0)
      OBVIOUS
    <3> QED
      BY <3>1
  <2>3. PICK f : Solves(f, n - 1)
    <3>1. n \in Nat /\ n - 1 \in Nat /\ ~(n <= n - 1)
      BY <2>2
    <3>2. n - 1 \notin Bad
      <4> HIDE DEF Bad
      <4> QED
        BY <2>1, <3>1
    <3> QED
      BY <3>1, <3>2
  <2> DEFINE g == [i \in 0..n |-> IF i < n THEN f[i]
                                  ELSE IF xs[n] \in S THEN Append(f[n - 1], xs[n])
                                  ELSE f[n - 1]]
  <2>4. Solves(g, n)
    <3>1. \A i \in 0..n : g[i] = IF i = 0 THEN <<>>
                                 ELSE IF xs[i] \in S THEN Append(g[i - 1], xs[i])
                                 ELSE g[i - 1]
      <4> TAKE i \in 0..n
      <4>1. CASE i = n
        BY <4>1, <2>2
      <4>2. CASE i < n
        <5>1. i \in 0..(n - 1)
          BY <4>2
        <5>2. f[i] = IF i = 0 THEN <<>>
                     ELSE IF xs[i] \in S THEN Append(f[i - 1], xs[i]) ELSE f[i - 1]
          BY <2>3, <5>1
        <5>3. i # 0 => g[i - 1] = f[i - 1]
          BY <4>2
        <5> QED
          BY <4>2, <5>2, <5>3
      <4> QED
        BY <4>1, <4>2
    <3> QED
      BY <3>1
  <2> HIDE DEF g
  <2> QED
    BY <2>1, <2>4
<1>2. Len(xs) \in Nat
  OBVIOUS
<1>3. \E f : Solves(f, Len(xs))
  BY <1>1, <1>2
<1> DEFINE up == CHOOSE f : Solves(f, Len(xs))
<1>4. Solves(up, Len(xs))
  BY <1>3
<1>5. Only(xs, S) = up[Len(xs)]
  BY DEF Only
<1> QED
  BY <1>4, <1>5

\* Only keeps what is in S, all of it, in its order and once if it was there once.
LEMMA OnlyKeeps ==
  ASSUME NEW T, NEW xs \in Seq(T), NEW S
  PROVE  /\ Only(xs, S) \in Seq(T)
         /\ Range(Only(xs, S)) = Range(xs) \cap S
         /\ (\A i, j \in DOMAIN xs : xs[i] = xs[j] => i = j)
              => \A i, j \in DOMAIN Only(xs, S) :
                   Only(xs, S)[i] = Only(xs, S)[j] => i = j
<1> DEFINE n == Len(xs)
           Single(s) == \A i, j \in DOMAIN s : s[i] = s[j] => i = j
<1>1. PICK f : /\ f = [i \in 0..n |->
                         IF i = 0 THEN <<>>
                         ELSE IF xs[i] \in S THEN Append(f[i - 1], xs[i]) ELSE f[i - 1]]
               /\ Only(xs, S) = f[n]
  BY OnlyUnfolds
<1>2. n \in Nat /\ DOMAIN xs = 1..n
  OBVIOUS
<1> DEFINE Kept(k) == {xs[j] : j \in {i \in 1..k : xs[i] \in S}}
           Good(k) == /\ f[k] \in Seq(T)
                      /\ Range(f[k]) = Kept(k)
                      /\ Single(xs) => Single(f[k])
           Bad == {k \in 0..n : ~Good(k)}
<1>3. Good(0)
  <2>1. f[0] = <<>>
    BY <1>1, <1>2
  <2>2. Range(f[0]) = {}
    BY <2>1 DEF Range
  <2> QED
    BY <2>1, <2>2
<1>4. ASSUME NEW k \in 1..n, Good(k - 1) PROVE Good(k)
  <2> DEFINE s == f[k - 1]
  <2>1. f[k] = IF xs[k] \in S THEN Append(s, xs[k]) ELSE s
    <3>1. k \in 0..n /\ k # 0
      BY <1>2
    <3> QED
      BY <1>1, <3>1
  <2>2. s \in Seq(T) /\ Range(s) = Kept(k - 1) /\ (Single(xs) => Single(s))
    BY <1>4
  <2>3. xs[k] \in T
    BY <1>2
  <2> HIDE DEF s
  <2>4. CASE xs[k] \notin S
    <3>1. Kept(k) = Kept(k - 1)
      BY <2>4, <1>2
    <3> QED
      BY <2>1, <2>2, <2>4, <3>1
  <2>5. CASE xs[k] \in S
    <3>1. Kept(k) = Kept(k - 1) \cup {xs[k]}
      BY <2>5, <1>2
    <3>2. /\ Append(s, xs[k]) \in Seq(T)
          /\ DOMAIN Append(s, xs[k]) = 1..(Len(s) + 1)
          /\ \A i \in 1..Len(s) : Append(s, xs[k])[i] = s[i]
          /\ Append(s, xs[k])[Len(s) + 1] = xs[k]
      BY <2>2, <2>3
    <3>3. DOMAIN s = 1..Len(s) /\ Len(s) \in Nat
      BY <2>2
    <3>4. Range(Append(s, xs[k])) = Range(s) \cup {xs[k]}
      BY <3>2, <3>3 DEF Range
    <3>5. ASSUME Single(xs) PROVE Single(Append(s, xs[k]))
      <4>1. \A i \in DOMAIN s : s[i] # xs[k]
        <5>1. SUFFICES ASSUME NEW i \in DOMAIN s PROVE s[i] # xs[k]
          OBVIOUS
        <5>2. s[i] \in Kept(k - 1)
          BY <2>2 DEF Range
        <5>3. PICK j \in 1..(k - 1) : s[i] = xs[j]
          BY <5>2
        <5> QED
          BY <5>3, <3>5, <1>2
      <4>2. Single(s)
        BY <2>2, <3>5
      <4> QED
        BY <4>1, <4>2, <3>2, <3>3
    <3> QED
      BY <2>1, <2>2, <2>5, <3>1, <3>2, <3>4, <3>5
  <2> QED
    BY <2>4, <2>5
<1>5. Bad = {}
  <2> SUFFICES ASSUME Bad # {} PROVE FALSE
    OBVIOUS
  <2> HIDE DEF Good
  <2>1. PICK k \in Bad : \A m \in Bad : k <= m
    <3>1. Bad \in SUBSET Nat
      BY <1>2
    <3> HIDE DEF Bad
    <3> QED
      BY <3>1, LeastExists
  <2>2. k \in 1..n /\ ~Good(k)
    BY <2>1, <1>2, <1>3
  <2>3. k - 1 \in 0..n /\ ~(k <= k - 1)
    BY <2>2, <1>2
  <2>4. Good(k - 1)
    BY <2>1, <2>3
  <2> QED
    BY <2>2, <2>4, <1>4
<1>6. Good(n)
  <2> HIDE DEF Good
  <2> QED
    BY <1>5, <1>2
<1>7. Kept(n) = Range(xs) \cap S
  BY <1>2 DEF Range
<1> QED
  BY <1>1, <1>6, <1>7
-----------------------------------------------------------------------------
\* What was measured, of whatever is called a resource.
Measured(A, B, C) ==
  [of : A, operation : B, subject : C, scope : Scopes, allowed : BOOLEAN]

LEMMA CombineMeasured ==
  ASSUME NEW A, NEW B, NEW C, NEW a \in Measured(A, B, C), NEW b \in Measured(A, B, C)
  PROVE  /\ Combine(a, b) \in Measured(A, B, C)
         /\ Combine(a, b).allowed <=> a.allowed \/ b.allowed
<1>1. CASE a.allowed /\ b.allowed
  <2>1. Combine(a, b) = [a EXCEPT !.scope = Broader(a.scope, b.scope)]
    BY <1>1 DEF Combine
  <2>2. Broader(a.scope, b.scope) \in Scopes
    BY BroaderType DEF Measured
  <2> QED
    BY <1>1, <2>1, <2>2 DEF Measured
<1>2. CASE ~(a.allowed /\ b.allowed)
  BY <1>2 DEF Combine, Measured
<1> QED
  BY <1>1, <1>2

\* The recursion of Combined has a solution.
LEMMA CombinedUnfolds ==
  ASSUME NEW T, NEW list \in Seq(T), list # <<>>
  PROVE  \E f : /\ f = [i \in 1..Len(list) |->
                         IF i = 1 THEN list[1] ELSE Combine(f[i - 1], list[i])]
                /\ Combined(list) = f[Len(list)]
<1> DEFINE Solves(f, n) ==
             f = [i \in 1..n |-> IF i = 1 THEN list[1] ELSE Combine(f[i - 1], list[i])]
           Bad == {n \in Nat : ~\E f : Solves(f, n)}
<1>1. Bad = {}
  <2> SUFFICES ASSUME Bad # {} PROVE FALSE
    OBVIOUS
  <2>1. PICK n \in Bad : \A m \in Bad : n <= m
    <3>1. Bad \in SUBSET Nat
      OBVIOUS
    <3> HIDE DEF Bad
    <3> QED
      BY <3>1, LeastExists
  <2>2. n # 0
    <3>1. Solves([i \in 1..0 |-> list[1]], 0)
      OBVIOUS
    <3> QED
      BY <3>1
  <2>3. PICK f : Solves(f, n - 1)
    <3>1. n \in Nat /\ n - 1 \in Nat /\ ~(n <= n - 1)
      BY <2>2
    <3>2. n - 1 \notin Bad
      <4> HIDE DEF Bad
      <4> QED
        BY <2>1, <3>1
    <3> QED
      BY <3>1, <3>2
  <2> DEFINE g == [i \in 1..n |-> IF i < n THEN f[i]
                                  ELSE IF n = 1 THEN list[1]
                                  ELSE Combine(f[n - 1], list[n])]
  <2>4. Solves(g, n)
    <3>1. \A i \in 1..n : g[i] = IF i = 1 THEN list[1] ELSE Combine(g[i - 1], list[i])
      <4> TAKE i \in 1..n
      <4>1. CASE i = n
        BY <4>1, <2>2
      <4>2. CASE i < n
        <5>1. i \in 1..(n - 1)
          BY <4>2
        <5>2. f[i] = IF i = 1 THEN list[1] ELSE Combine(f[i - 1], list[i])
          BY <2>3, <5>1
        <5>3. i # 1 => g[i - 1] = f[i - 1]
          BY <4>2
        <5> QED
          BY <4>2, <5>2, <5>3
      <4> QED
        BY <4>1, <4>2
    <3> QED
      BY <3>1
  <2> HIDE DEF g
  <2> QED
    BY <2>1, <2>4
<1>2. Len(list) \in Nat
  OBVIOUS
<1>3. \E f : Solves(f, Len(list))
  BY <1>1, <1>2
<1> DEFINE up == CHOOSE f : Solves(f, Len(list))
<1>4. Solves(up, Len(list))
  BY <1>3
<1>5. Combined(list) = up[Len(list)]
  BY DEF Combined
<1> QED
  BY <1>4, <1>5

\* What is known of a resource is a permit exactly if one of its measurements is.
LEMMA PermitIsFound ==
  ASSUME NEW A, NEW B, NEW C, NEW list \in Seq(Measured(A, B, C)), list # <<>>
  PROVE  Combined(list).allowed <=> \E i \in DOMAIN list : list[i].allowed
<1> DEFINE n == Len(list)
           M == Measured(A, B, C)
<1>1. PICK f : /\ f = [i \in 1..n |->
                         IF i = 1 THEN list[1] ELSE Combine(f[i - 1], list[i])]
               /\ Combined(list) = f[n]
  BY CombinedUnfolds
<1>2. n \in Nat /\ n # 0 /\ DOMAIN list = 1..n /\ \A i \in 1..n : list[i] \in M
  OBVIOUS
<1> HIDE DEF M, n
<1> DEFINE Good(k) == /\ f[k] \in M
                      /\ f[k].allowed <=> \E i \in 1..k : list[i].allowed
           Bad == {k \in 1..n : ~Good(k)}
<1>3. Good(1)
  <2>1. f[1] = list[1]
    BY <1>1, <1>2
  <2> QED
    BY <2>1, <1>2
<1>4. ASSUME NEW k \in 2..n, Good(k - 1) PROVE Good(k)
  <2>1. k \in 1..n /\ k # 1 /\ list[k] \in M
    BY <1>2
  <2>2. f[k] = Combine(f[k - 1], list[k])
    BY <1>1, <2>1
  <2>3. f[k] \in M /\ (f[k].allowed <=> f[k - 1].allowed \/ list[k].allowed)
    BY <2>1, <2>2, <1>4, CombineMeasured DEF M
  <2>4. 1..k = 1..(k - 1) \cup {k}
    BY <1>2
  <2> QED
    BY <2>3, <2>4, <1>4
<1>5. Bad = {}
  <2> SUFFICES ASSUME Bad # {} PROVE FALSE
    OBVIOUS
  <2> HIDE DEF Good
  <2>1. PICK k \in Bad : \A m \in Bad : k <= m
    <3>1. Bad \in SUBSET Nat
      BY <1>2
    <3> HIDE DEF Bad
    <3> QED
      BY <3>1, LeastExists
  <2>2. k \in 2..n /\ ~Good(k)
    BY <2>1, <1>2, <1>3
  <2>3. k - 1 \in 1..n /\ ~(k <= k - 1)
    BY <2>2, <1>2
  <2>4. Good(k - 1)
    BY <2>1, <2>3
  <2> QED
    BY <2>2, <2>4, <1>4
<1>6. Good(n)
  <2> HIDE DEF Good
  <2> QED
    BY <1>5, <1>2
<1> QED
  BY <1>1, <1>2, <1>6

\* An order of finitely many facts is a list of them.
LEMMA OrdersAreLists ==
  ASSUME NEW facts, IsFiniteSet(facts), NEW list \in Orders(facts)
  PROVE  list \in Seq(facts) /\ Range(list) = facts
<1>1. Cardinality(facts) \in Nat
  BY FS_CardinalityType
<1> QED
  BY <1>1 DEF Orders

\* An expectation that is met was measured, and one that denies was met only if
\* nothing that was measured allows it.
LEMMA DenialIsWhole ==
  ASSUME NEW A, NEW B, NEW C, NEW facts \in SUBSET Measured(A, B, C),
         IsFiniteSet(facts), NEW list \in Orders(facts),
         NEW e, e.allowed \in BOOLEAN,
         Outcome(e, list) \notin {"unverified", "violated"}
  PROVE  /\ \E x \in facts : About(x, e)
         /\ ~e.allowed => \A x \in facts : About(x, e) => ~x.allowed
<1> DEFINE about == {x \in Range(list) : About(x, e)}
           seen == Only(list, about)
           o == Combined(seen)
<1>1. list \in Seq(facts) /\ Range(list) = facts
  BY OrdersAreLists
<1>2. list \in Seq(Measured(A, B, C))
  BY <1>1
<1>3. /\ seen \in Seq(Measured(A, B, C))
      /\ Range(seen) = {x \in facts : About(x, e)}
  BY <1>1, <1>2, OnlyKeeps
<1>4. seen # <<>> /\ o.allowed = e.allowed
  BY DEF Outcome
<1>5. o.allowed <=> \E i \in DOMAIN seen : seen[i].allowed
  <2> HIDE DEF seen
  <2> QED
    BY <1>3, <1>4, PermitIsFound
<1>6. \A x \in facts : About(x, e) => \E i \in DOMAIN seen : x = seen[i]
  <2> HIDE DEF seen
  <2> QED
    BY <1>3 DEF Range
<1>7. \E x \in facts : About(x, e)
  <2> HIDE DEF seen
  <2>1. 1 \in DOMAIN seen
    BY <1>3, <1>4
  <2>2. seen[1] \in Range(seen)
    BY <2>1 DEF Range
  <2> QED
    BY <2>2, <1>3
<1> HIDE DEF seen
<1> QED
  BY <1>4, <1>5, <1>6, <1>7

-----------------------------------------------------------------------------
(***************************************************************************)
(* The promise of Footprint.                                               *)
(***************************************************************************)

\* What the steps that give something up rely on: a Neon scan holds rows of
\* tables that are there, and an account that is fresh is still in hand until
\* finishSession.
RowsAreOfTables ==
  target.kind = "neon" => held \subseteq {Row(n) : n \in DOMAIN target.tables}

FreshIsHeld ==
  /\ target.kind = "firebase"
  /\ pc \in {"visitor", "escalate", "finish"}
  /\ session = "fresh"
  => ProbeAccount \in held

\* The steps that come after a sign-up come after the operator's consent.
AccountsAreConsented ==
  \/ target.kind = "firebase" /\ pc \in {"visitor", "escalate", "finish"}
  \/ target.kind = "pocketbase" /\ pc \in {"signIn", "gain", "remove", "verify"}
  => opts.write

IInv ==
  /\ RowsAreOfTables
  /\ FreshIsHeld
  /\ AccountsAreConsented
  /\ NothingWithoutConsent

Quiet == UNCHANGED <<target, opts, held, left, named>> /\ faults \subseteq faults'

LEMMA SufferGrows ==
  ASSUME NEW f, Suffer(f)
  PROVE  faults \subseteq faults' /\ (~Fine(f) => faults' # {})
BY DEF Suffer, Fine

LEMMA ExcusesGrow ==
  ASSUME UNCHANGED <<target, opts>>, faults \subseteq faults'
  PROVE  Excuses \subseteq Excuses'
BY DEF Excuses, AllowPOST

LEMMA QuietKeeps ==
  ASSUME Quiet
  PROVE  Promise!Next
<1>1. Excuses \subseteq Excuses'
  BY ExcusesGrow DEF Quiet
<1>2. Promise!Create
  BY DEF Quiet, Promise!Create
<1> QED
  BY <1>1, <1>2 DEF Promise!Next

\* A reply that said nothing excuses what is forgotten after it.
LEMMA FailureExcuses ==
  ASSUME NEW f, Suffer(f), ~Fine(f), UNCHANGED <<target, opts, named>>,
         held' \subseteq held, left \subseteq left'
  PROVE  Promise!Next
<1>1. Excuses \subseteq Excuses'
  BY SufferGrows, ExcusesGrow
<1>2. Excuses' # {}
  BY SufferGrows DEF Excuses
<1>3. Promise!Forget
  BY <1>2 DEF Promise!Forget
<1> QED
  BY <1>1, <1>3 DEF Promise!Next

LEMMA CreatesKeeps ==
  ASSUME NEW x, Creates(x), UNCHANGED <<target, opts>>, faults \subseteq faults'
  PROVE  Promise!Next
BY ExcusesGrow DEF Creates, Promise!Next, Promise!Create

LEMMA RemovesKeeps ==
  ASSUME NEW x, Removes(x), UNCHANGED <<target, opts>>, faults \subseteq faults'
  PROVE  Promise!Next
BY ExcusesGrow DEF Removes, Promise!Next, Promise!Remove

\* What is given up was in hand, and is what the report names.
LEMMA GivesUpKeeps ==
  ASSUME NEW S, NEW says, NEW f, GivesUp(S, says, f),
         S \subseteq held,
         {y[2] : y \in {z \in says : z[1] = "left-behind"}} = S,
         UNCHANGED <<target, opts>>, faults \subseteq faults'
  PROVE  Promise!Next
<1>1. Excuses \subseteq Excuses'
  BY ExcusesGrow
<1>2. PICK gone \in {{}} \cup (IF Fine(f) THEN {} ELSE {S}) :
        /\ held' = held \ S
        /\ left' = left \cup (S \ gone)
        /\ named' = named \cup S
  BY DEF GivesUp
<1>3. held \ held' = S
  BY <1>2
<1>4. Promise!Leave
  BY <1>2, <1>3 DEF Promise!Leave
<1> QED
  BY <1>1, <1>4 DEF Promise!Next

\* What the report names of a finding of something left behind, and others.
LEMMA NamesResidue ==
  ASSUME NEW S, NEW says,
         \A x \in S : Found("left-behind", x) \in says,
         \A z \in says : z[1] = "left-behind" => \E x \in S : z = Found("left-behind", x)
  PROVE  {y[2] : y \in {z \in says : z[1] = "left-behind"}} = S
<1> DEFINE Names == {y[2] : y \in {z \in says : z[1] = "left-behind"}}
<1>1. ASSUME NEW x \in S PROVE x \in Names
  <2>1. /\ Found("left-behind", x) \in says
        /\ Found("left-behind", x)[1] = "left-behind"
        /\ Found("left-behind", x)[2] = x
    BY <1>1 DEF Found
  <2> QED
    BY <2>1
<1>2. ASSUME NEW x \in Names PROVE x \in S
  <2>1. PICK z \in says : z[1] = "left-behind" /\ x = z[2]
    BY <1>2
  <2>2. PICK w \in S : z = Found("left-behind", w)
    BY <2>1
  <2> QED
    BY <2>1, <2>2 DEF Found
<1> QED
  BY <1>1, <1>2

LEMMA MayHaveCreatedKeeps ==
  ASSUME NEW x, NEW f, MayHaveCreated(x), Suffer(f), ~Fine(f),
         UNCHANGED <<target, opts>>
  PROVE  Promise!Next
BY FailureExcuses DEF MayHaveCreated
-----------------------------------------------------------------------------
\* Firebase: reads, and what was decided without a request, change nothing.
LEMMA FirebaseQuiet ==
  ASSUME \/ Firestore \/ RealtimeDatabase \/ NoWrites \/ WritesDone \/ Storage
         \/ CloudFunctions \/ RemoteConfig \/ NoAccounts \/ Escalate \/ KeepAccount
  PROVE  Quiet
<1> USE DEF Quiet, scan, footprint, work
<1>1. CASE Firestore
  BY <1>1, SufferGrows DEF Firestore
<1>2. CASE RealtimeDatabase
  BY <1>2, SufferGrows DEF RealtimeDatabase
<1>3. CASE NoWrites \/ WritesDone \/ NoAccounts \/ KeepAccount
  BY <1>3 DEF NoWrites, WritesDone, NoAccounts, KeepAccount
<1>4. CASE Storage
  BY <1>4, SufferGrows DEF Storage
<1>5. CASE CloudFunctions
  BY <1>5, SufferGrows DEF CloudFunctions
<1>6. CASE RemoteConfig
  BY <1>6, SufferGrows DEF RemoteConfig
<1>7. CASE Escalate
  BY <1>7, SufferGrows DEF Escalate
<1> QED
  BY <1>1, <1>2, <1>3, <1>4, <1>5, <1>6, <1>7

LEMMA CreateProbeKeeps == CreateProbe => Promise!Next
<1> SUFFICES ASSUME CreateProbe PROVE Promise!Next
  OBVIOUS
<1> DEFINE x == Head(todo)
<1>1. PICK f \in One("create") :
        /\ Suffer(f)
        /\ \/ Creates(x)
           \/ MayHaveCreated(x) /\ IsLost(f, "create")
           \/ NothingCreated
  BY DEF CreateProbe
<1>2. UNCHANGED <<target, opts>>
  BY DEF CreateProbe, scan
<1>3. IsLost(f, "create") => ~Fine(f)
  BY DEF IsLost, Fine
<1>4. CASE NothingCreated
  BY <1>1, <1>2, <1>4, SufferGrows, QuietKeeps DEF Quiet, NothingCreated, footprint
<1> QED
  BY <1>1, <1>2, <1>3, <1>4, SufferGrows, CreatesKeeps, MayHaveCreatedKeeps

\* What a probe could not remove is named beside the write that created it.
LEMMA RemoveProbeKeeps == RemoveProbe => Promise!Next
<1> SUFFICES ASSUME RemoveProbe PROVE Promise!Next
  OBVIOUS
<1> DEFINE x == Head(todo)
           says == {WriteAccepted(x)} \cup Residue(x)
<1>1. PICK f \in One("delete") :
        /\ Suffer(f)
        /\ Removes(x) \/ GivesUp({x}, says, f)
  BY DEF RemoveProbe
<1>2. UNCHANGED <<target, opts>> /\ {x} \subseteq held
  BY DEF RemoveProbe, scan
<1>3. {y[2] : y \in {z \in says : z[1] = "left-behind"}} = {x}
  <2>1. \A z \in says : z[1] = "left-behind" => z = Found("left-behind", x)
    BY DEF Residue, WriteAccepted, Found
  <2>2. Found("left-behind", x) \in says
    BY DEF Residue
  <2> HIDE DEF x, says
  <2> QED
    BY <2>1, <2>2, NamesResidue
<1> QED
  BY <1>1, <1>2, <1>3, SufferGrows, RemovesKeeps, GivesUpKeeps

LEMMA SignInKeeps == SignIn => Promise!Next
<1> SUFFICES ASSUME SignIn PROVE Promise!Next
  OBVIOUS
<1>1. PICK f \in One("signUp") :
        /\ Suffer(f)
        /\ \/ Creates(ProbeAccount)
           \/ MayHaveCreated(ProbeAccount) /\ IsLost(f, "signUp")
           \/ NothingCreated
  BY DEF SignIn
<1>2. UNCHANGED <<target, opts>>
  BY DEF SignIn, scan
<1>3. IsLost(f, "signUp") => ~Fine(f)
  BY DEF IsLost, Fine
<1>4. CASE NothingCreated
  BY <1>1, <1>2, <1>4, SufferGrows, QuietKeeps DEF Quiet, NothingCreated, footprint
<1> QED
  BY <1>1, <1>2, <1>3, <1>4, SufferGrows, CreatesKeeps, MayHaveCreatedKeeps

LEMMA AskVisitorKeeps == AskVisitor => Promise!Next
<1> SUFFICES ASSUME AskVisitor PROVE Promise!Next
  OBVIOUS
<1>1. PICK f \in One("anonymous") :
        /\ Suffer(f)
        /\ \/ Creates(Visitor)
           \/ MayHaveCreated(Visitor) /\ IsLost(f, "anonymous")
           \/ NothingCreated
  BY DEF AskVisitor
<1>2. UNCHANGED <<target, opts>>
  BY DEF AskVisitor, scan
<1>3. IsLost(f, "anonymous") => ~Fine(f)
  BY DEF IsLost, Fine
<1>4. CASE NothingCreated
  BY <1>1, <1>2, <1>4, SufferGrows, QuietKeeps DEF Quiet, NothingCreated, footprint
<1> QED
  BY <1>1, <1>2, <1>3, <1>4, SufferGrows, CreatesKeeps, MayHaveCreatedKeeps

LEMMA DiscardsKeeps ==
  ASSUME NEW x, NEW says, NEW next, Discards(x, says, next), x \in held,
         \A z \in says : z[1] # "left-behind"
  PROVE  Promise!Next
<1> DEFINE more == says \cup Residue(x)
<1>1. PICK f \in One("delete") :
        /\ Suffer(f)
        /\ Removes(x) \/ GivesUp({x}, more, f)
  BY DEF Discards
<1>2. UNCHANGED <<target, opts>>
  BY DEF Discards, scan
<1>3. {y[2] : y \in {z \in more : z[1] = "left-behind"}} = {x}
  <2>1. \A z \in more : z[1] = "left-behind" => z = Found("left-behind", x)
    BY DEF Residue
  <2>2. Found("left-behind", x) \in more
    BY DEF Residue
  <2> HIDE DEF more
  <2> QED
    BY <2>1, <2>2, NamesResidue
<1> QED
  BY <1>1, <1>2, <1>3, SufferGrows, RemovesKeeps, GivesUpKeeps

LEMMA FirebaseKeeps ==
  ASSUME target.kind = "firebase", FirebaseStep, IInv
  PROVE  Promise!Next
<1>1. CASE RemoveVisitor
  BY <1>1, DiscardsKeeps DEF RemoveVisitor, AnonymousSignin, Found
<1>2. CASE Finish
  <2>1. ProbeAccount \in held
    BY <1>2 DEF IInv, FreshIsHeld, Finish
  <2> QED
    BY <1>2, <2>1, DiscardsKeeps DEF Finish
<1> QED
  BY <1>1, <1>2, FirebaseQuiet, QuietKeeps, CreateProbeKeeps, RemoveProbeKeeps,
     SignInKeeps, AskVisitorKeeps DEF FirebaseStep
-----------------------------------------------------------------------------
LEMMA NeonQuiet ==
  ASSUME Enumeration \/ Reach \/ Compare \/ NoInserts
  PROVE  Quiet
<1> USE DEF Quiet, scan, footprint, work
<1>1. CASE Enumeration
  BY <1>1, SufferGrows DEF Enumeration
<1>2. CASE Reach
  BY <1>2, SufferGrows DEF Reach
<1>3. CASE Compare
  BY <1>3, SufferGrows DEF Compare
<1>4. CASE NoInserts
  BY <1>4 DEF NoInserts
<1> QED
  BY <1>1, <1>2, <1>3, <1>4

LEMMA InsertKeeps == Insert => Promise!Next
<1> SUFFICES ASSUME Insert PROVE Promise!Next
  OBVIOUS
<1> DEFINE x == Row(Head(todo))
<1>1. PICK f \in One("insert") :
        /\ Suffer(f)
        /\ \/ Creates(x)
           \/ MayHaveCreated(x) /\ IsLost(f, "insert")
           \/ NothingCreated
  BY DEF Insert
<1>2. UNCHANGED <<target, opts>>
  BY DEF Insert, scan
<1>3. IsLost(f, "insert") => ~Fine(f)
  BY DEF IsLost, Fine
<1>4. CASE NothingCreated
  BY <1>1, <1>2, <1>4, SufferGrows, QuietKeeps DEF Quiet, NothingCreated, footprint
<1> QED
  BY <1>1, <1>2, <1>3, <1>4, SufferGrows, CreatesKeeps, MayHaveCreatedKeeps

\* The rows the report names are all that is held.
LEMMA ReportInsertsKeeps ==
  ASSUME target.kind = "neon", ReportInserts, RowsAreOfTables
  PROVE  Promise!Next
<1> DEFINE rows == {n \in DOMAIN target.tables : Row(n) \in held}
           says == UNION {RowSays(n) : n \in rows}
<1>1. UNCHANGED <<target, opts>> /\ faults' = faults
  BY DEF ReportInserts, scan
<1>2. CASE rows = {}
  BY <1>1, <1>2, QuietKeeps DEF ReportInserts, Quiet, NothingCreated, footprint
<1>3. CASE rows # {}
  <2>1. GivesUp(held, says, <<>>)
    BY <1>3 DEF ReportInserts
  <2>2. {y[2] : y \in {z \in says : z[1] = "left-behind"}} = held
    <3>1. ASSUME NEW x \in held PROVE Found("left-behind", x) \in says
      BY <3>1 DEF RowsAreOfTables, RowSays
    <3>2. ASSUME NEW z \in says, z[1] = "left-behind"
          PROVE  \E x \in held : z = Found("left-behind", x)
      BY <3>2 DEF RowSays, Inserted, Found
    <3> HIDE DEF says
    <3> QED
      BY <3>1, <3>2, NamesResidue
  <2> HIDE DEF says
  <2> QED
    BY <1>1, <2>1, <2>2, GivesUpKeeps
<1> QED
  BY <1>2, <1>3

LEMMA NeonKeeps ==
  ASSUME target.kind = "neon", NeonStep, IInv
  PROVE  Promise!Next
BY NeonQuiet, QuietKeeps, InsertKeeps, ReportInsertsKeeps DEF NeonStep, IInv
-----------------------------------------------------------------------------
LEMMA PocketBaseQuiet ==
  ASSUME CollectionStage \/ NoConsent \/ Gain
  PROVE  Quiet
<1> USE DEF Quiet, scan, footprint, work
<1>1. CASE CollectionStage
  BY <1>1, SufferGrows DEF CollectionStage
<1>2. CASE NoConsent
  BY <1>2 DEF NoConsent
<1>3. CASE Gain
  BY <1>3, SufferGrows DEF Gain
<1> QED
  BY <1>1, <1>2, <1>3

LEMMA SignUpKeeps == SignUp => Promise!Next
<1> SUFFICES ASSUME SignUp PROVE Promise!Next
  OBVIOUS
<1>1. PICK f \in One("signUp") :
        /\ Suffer(f)
        /\ \/ Creates(Member)
           \/ MayHaveCreated(Member) /\ IsLost(f, "signUp")
           \/ NothingCreated
  BY DEF SignUp
<1>2. UNCHANGED <<target, opts>>
  BY DEF SignUp, scan
<1>3. IsLost(f, "signUp") => ~Fine(f)
  BY DEF IsLost, Fine
<1>4. CASE NothingCreated
  BY <1>1, <1>2, <1>4, SufferGrows, QuietKeeps DEF Quiet, NothingCreated, footprint
<1> QED
  BY <1>1, <1>2, <1>3, <1>4, SufferGrows, CreatesKeeps, MayHaveCreatedKeeps

\* The account that is abandoned was refused, or its reply failed.
LEMMA SignInMemberKeeps ==
  ASSUME target.kind = "pocketbase", SignInMember
  PROVE  Promise!Next
<1>1. PICK f \in One("signIn") :
        /\ Suffer(f)
        /\ \/ target.signin /\ Fine(f) /\ UNCHANGED footprint
           \/ ~(target.signin /\ Fine(f)) /\ Abandons
  BY DEF SignInMember
<1>2. UNCHANGED <<target, opts>>
  BY DEF SignInMember, scan
<1>3. CASE UNCHANGED footprint
  BY <1>1, <1>2, <1>3, SufferGrows, QuietKeeps DEF Quiet, footprint
<1>4. CASE ~Fine(f) /\ Abandons
  BY <1>1, <1>2, <1>4, FailureExcuses DEF Abandons
<1>5. CASE ~target.signin /\ Abandons
  <2>1. Excuses' # {}
    BY <1>2, <1>5 DEF Excuses
  <2>2. Promise!Forget
    BY <1>5, <2>1 DEF Promise!Forget, Abandons
  <2> QED
    BY <1>1, <1>2, <2>2, SufferGrows, ExcusesGrow DEF Promise!Next
<1> QED
  BY <1>1, <1>3, <1>4, <1>5

LEMMA RemoveMemberKeeps == RemoveMember => Promise!Next
<1> SUFFICES ASSUME RemoveMember PROVE Promise!Next
  OBVIOUS
<1>1. PICK f \in One("delete") : Suffer(f) /\ (Removes(Member) \/ NothingCreated)
  BY DEF RemoveMember
<1>2. UNCHANGED <<target, opts>>
  BY DEF RemoveMember, scan
<1>3. CASE NothingCreated
  BY <1>1, <1>2, <1>3, SufferGrows, QuietKeeps DEF Quiet, NothingCreated, footprint
<1> QED
  BY <1>1, <1>2, <1>3, SufferGrows, RemovesKeeps

\* An account that still signs in is named; one that cannot be told to is excused.
LEMMA VerifyKeeps == Verify => Promise!Next
<1> SUFFICES ASSUME Verify PROVE Promise!Next
  OBVIOUS
<1> DEFINE still(f) == Member \in held /\ Fine(f)
           says == StillThere(Member)
<1>1. UNCHANGED <<target, opts>>
  BY DEF Verify, scan
<1>2. PICK f \in One("verify") :
        /\ Suffer(f)
        /\ CASE still(f) -> GivesUp({Member}, says, <<>>)
             [] Member \in held /\ ~still(f) -> Abandons
             [] OTHER -> NothingCreated
  BY DEF Verify
<1>3. CASE still(f)
  <2>1. GivesUp({Member}, says, <<>>) /\ Member \in held
    BY <1>2, <1>3
  <2>2. {y[2] : y \in {z \in says : z[1] = "left-behind"}} = {Member}
    <3>1. \A z \in says : z = Found("left-behind", Member)
      BY DEF StillThere
    <3>2. Found("left-behind", Member) \in says
      BY DEF StillThere
    <3> HIDE DEF says
    <3> QED
      BY <3>1, <3>2, NamesResidue
  <2> HIDE DEF says
  <2> QED
    BY <1>1, <1>2, <2>1, <2>2, SufferGrows, GivesUpKeeps
<1>4. CASE Member \in held /\ ~still(f)
  <2>1. Abandons
    BY <1>2, <1>4
  <2> QED
    BY <1>1, <1>2, <1>4, <2>1, FailureExcuses DEF Abandons
<1>5. CASE Member \notin held
  <2>1. NothingCreated
    BY <1>2, <1>5
  <2> QED
    BY <1>1, <1>2, <2>1, SufferGrows, QuietKeeps DEF Quiet, NothingCreated, footprint
<1> QED
  BY <1>3, <1>4, <1>5

LEMMA PocketBaseKeeps ==
  ASSUME target.kind = "pocketbase", PocketBaseStep
  PROVE  Promise!Next
BY PocketBaseQuiet, QuietKeeps, SignUpKeeps, SignInMemberKeeps, RemoveMemberKeeps,
   VerifyKeeps DEF PocketBaseStep
-----------------------------------------------------------------------------
LEMMA RoutesQuiet ==
  ASSUME Inventory \/ Bypass \/ Identities \/ Families
  PROVE  Quiet
<1> USE DEF Quiet, scan, footprint, work
<1>1. CASE Inventory
  BY <1>1, SufferGrows DEF Inventory
<1>2. CASE Bypass
  BY <1>2, SufferGrows DEF Bypass
<1>3. CASE Identities
  BY <1>3, SufferGrows DEF Identities
<1>4. CASE Families
  BY <1>4 DEF Families
<1> QED
  BY <1>1, <1>2, <1>3, <1>4

\* Only a POST leaves anything, and what it created is not read.
LEMMA ProbeKeeps ==
  ASSUME target.kind = "application", Probe
  PROVE  Promise!Next
<1>1. PICK f : Suffer(f)
  BY DEF Probe
<1>2. UNCHANGED <<target, opts, held, named>> /\ left \subseteq left'
  BY DEF Probe, scan, work
<1>3. CASE AllowPOST
  <2>1. Excuses' # {}
    BY <1>2, <1>3 DEF Excuses, AllowPOST
  <2>2. Promise!Forget
    BY <1>2, <2>1 DEF Promise!Forget
  <2> QED
    BY <1>1, <1>2, <2>2, SufferGrows, ExcusesGrow DEF Promise!Next
<1>4. CASE ~AllowPOST
  <2>1. left' = left
    BY <1>4 DEF Probe
  <2> QED
    BY <1>1, <1>2, <2>1, SufferGrows, QuietKeeps DEF Quiet
<1> QED
  BY <1>3, <1>4

LEMMA RoutesKeeps ==
  ASSUME target.kind = "application", RoutesStep
  PROVE  Promise!Next
BY RoutesQuiet, QuietKeeps, ProbeKeeps DEF RoutesStep
-----------------------------------------------------------------------------
\* A step that changes nothing on the target, and enters no step that relies on
\* an account.
LEMMA QuietInvariant ==
  ASSUME IInv, Quiet,
         pc' = pc \/ pc' \notin {"visitor", "escalate", "finish",
                                 "signIn", "gain", "remove", "verify"},
         pc' = pc => session' = session
  PROVE  IInv'
BY DEF IInv, Quiet, RowsAreOfTables, FreshIsHeld, AccountsAreConsented,
       NothingWithoutConsent, Row

LEMMA FirebaseInvariant ==
  ASSUME target.kind = "firebase", FirebaseStep, IInv
  PROVE  IInv'
<1> USE DEF IInv, RowsAreOfTables, FreshIsHeld, AccountsAreConsented,
            NothingWithoutConsent, scan, footprint, work
<1>1. CASE Firestore \/ RealtimeDatabase
  BY <1>1, FirebaseQuiet, QuietInvariant DEF Firestore, RealtimeDatabase
<1>2. CASE NoWrites \/ WritesDone \/ NoAccounts \/ KeepAccount
  BY <1>2, FirebaseQuiet, QuietInvariant DEF NoWrites, WritesDone, NoAccounts, KeepAccount
<1>3. CASE Storage \/ CloudFunctions \/ RemoteConfig
  BY <1>3, FirebaseQuiet, QuietInvariant DEF Storage, CloudFunctions, RemoteConfig
<1>4. CASE Escalate
  BY <1>4, FirebaseQuiet DEF Escalate, Quiet
<1>5. CASE CreateProbe
  BY <1>5 DEF CreateProbe, MayWrite
<1>6. CASE RemoveProbe
  BY <1>6 DEF RemoveProbe
<1>7. CASE SignIn
  BY <1>7 DEF SignIn, MaySignUp, Creates
<1>8. CASE AskVisitor
  BY <1>8 DEF AskVisitor, Creates, MayHaveCreated, NothingCreated
<1>9. CASE RemoveVisitor
  BY <1>9 DEF RemoveVisitor, Discards, Removes, GivesUp, Visitor, ProbeAccount
<1>10. CASE Finish
  BY <1>10 DEF Finish, Discards
<1> QED
  BY <1>1, <1>2, <1>3, <1>4, <1>5, <1>6, <1>7, <1>8, <1>9, <1>10 DEF FirebaseStep

LEMMA NeonInvariant ==
  ASSUME target.kind = "neon", NeonStep, IInv
  PROVE  IInv'
<1> USE DEF IInv, RowsAreOfTables, FreshIsHeld, AccountsAreConsented,
            NothingWithoutConsent, scan, footprint, work
<1>1. CASE Enumeration \/ Reach \/ Compare \/ NoInserts
  BY <1>1, NeonQuiet DEF Quiet, Row
<1>2. CASE Insert
  <2>1. UNCHANGED <<target, opts>> /\ opts.write
    BY <1>2 DEF Insert, Consent
  <2>2. Admission(Head(todo)) = "stored" => Head(todo) \in DOMAIN target.tables
    BY DEF Admission, Exists
  <2>3. \/ held' = held
        \/ held' = held \cup {Row(Head(todo))} /\ Head(todo) \in DOMAIN target.tables
    BY <1>2, <2>2 DEF Insert, Creates, MayHaveCreated, NothingCreated
  <2> QED
    BY <2>1, <2>3 DEF Row
<1>3. CASE ReportInserts
  <2>1. UNCHANGED <<target, opts>> /\ opts.write
    BY <1>3 DEF ReportInserts, Consent
  <2>2. held' \subseteq held
    BY <1>3 DEF ReportInserts, NothingCreated, GivesUp
  <2> QED
    BY <2>1, <2>2 DEF Row
<1> QED
  BY <1>1, <1>2, <1>3 DEF NeonStep

LEMMA PocketBaseInvariant ==
  ASSUME target.kind = "pocketbase", PocketBaseStep, IInv
  PROVE  IInv'
<1> USE DEF IInv, RowsAreOfTables, FreshIsHeld, AccountsAreConsented,
            NothingWithoutConsent, scan, footprint, work
<1>1. CASE CollectionStage \/ NoConsent
  BY <1>1, PocketBaseQuiet, QuietInvariant DEF CollectionStage, NoConsent
<1>2. CASE Gain
  BY <1>2, PocketBaseQuiet DEF Gain, Quiet
<1>3. CASE SignUp
  BY <1>3 DEF SignUp
<1>4. CASE SignInMember
  BY <1>4 DEF SignInMember
<1>5. CASE RemoveMember
  BY <1>5 DEF RemoveMember
<1>6. CASE Verify
  BY <1>6 DEF Verify
<1> QED
  BY <1>1, <1>2, <1>3, <1>4, <1>5, <1>6 DEF PocketBaseStep

LEMMA RoutesInvariant ==
  ASSUME target.kind = "application", RoutesStep, IInv
  PROVE  IInv'
<1> USE DEF IInv, RowsAreOfTables, FreshIsHeld, AccountsAreConsented,
            NothingWithoutConsent, scan, footprint, work
<1>1. CASE Inventory \/ Bypass \/ Identities \/ Families
  BY <1>1, RoutesQuiet DEF Quiet
<1>2. CASE Probe
  <2>1. UNCHANGED <<target, opts, held, named>>
    BY <1>2 DEF Probe
  <2>2. ~opts.write => left' = left
    BY <1>2 DEF Probe, AllowPOST
  <2> QED
    BY <2>1, <2>2
<1> QED
  BY <1>1, <1>2 DEF RoutesStep

\* Before the first stage and after the last one.
LEMMA EndsQuiet ==
  ASSUME Begin \/ VerifyIntent \/ UNCHANGED vars
  PROVE  Quiet
BY DEF Begin, VerifyIntent, vars, Quiet, scan, footprint, work

LEMMA EndsInvariant ==
  ASSUME IInv, Begin \/ VerifyIntent \/ UNCHANGED vars
  PROVE  IInv'
<1>1. CASE Begin
  <2>1. pc' = FirstStage /\ UNCHANGED <<target, opts, held, left, named>>
    BY <1>1 DEF Begin, scan, footprint
  <2>2. CASE target.kind = "firebase"
    BY <2>1, <2>2 DEF FirstStage, IInv, RowsAreOfTables, FreshIsHeld,
       AccountsAreConsented, NothingWithoutConsent
  <2>3. CASE target.kind = "pocketbase"
    BY <2>1, <2>3 DEF FirstStage, IInv, RowsAreOfTables, FreshIsHeld,
       AccountsAreConsented, NothingWithoutConsent
  <2>4. CASE target.kind \notin {"firebase", "pocketbase"}
    BY <2>1, <2>4 DEF IInv, RowsAreOfTables, FreshIsHeld,
       AccountsAreConsented, NothingWithoutConsent, Row
  <2> QED
    BY <2>2, <2>3, <2>4
<1>2. CASE VerifyIntent
  BY <1>2, EndsQuiet, QuietInvariant DEF VerifyIntent
<1>3. CASE UNCHANGED vars
  BY <1>3, EndsQuiet, QuietInvariant DEF vars, work
<1> QED
  BY <1>1, <1>2, <1>3

\* The strengthening is an invariant.
THEOREM Invariance == Spec => []IInv
<1>1. Init => IInv
  BY DEF Init, IInv, RowsAreOfTables, FreshIsHeld, AccountsAreConsented, NothingWithoutConsent
<1>2. IInv /\ [Next]_vars => IInv'
  BY EndsInvariant, FirebaseInvariant, NeonInvariant, PocketBaseInvariant,
     RoutesInvariant DEF Next, Step, Done
<1> QED
  BY <1>1, <1>2, PTL DEF Spec

\* Without -write nothing is created on a target, by no probe, sign-up or POST
\* of any provider.
THEOREM ConsentToCreate == Spec => []NothingWithoutConsent
BY Invariance, PTL DEF IInv

\* Every workload implements the promise: what it creates on a target it takes
\* away or names, unless a reply did not say what became of it.
THEOREM PromiseKept == Spec => FootprintKept
<1>1. Init => Promise!Init
  BY DEF Init, Promise!Init
<1>2. IInv /\ [Next]_vars => [Promise!Next]_Promise!vars
  BY EndsQuiet, QuietKeeps, FirebaseKeeps, NeonKeeps, PocketBaseKeeps, RoutesKeeps
     DEF Next, Step, Done
<1> QED
  BY <1>1, <1>2, Invariance, PTL DEF Spec, FootprintKept, Promise!Spec

\* So what stays on a target is in the report, as long as every reply said what
\* it had to.
THEOREM ResidueIsNamed == Spec => []Promise!NothingIsForgotten
<1>1. Promise!Init => Promise!NothingIsForgotten
  BY DEF Promise!Init, Promise!NothingIsForgotten
<1>2. Promise!NothingIsForgotten /\ [Promise!Next]_Promise!vars
        => Promise!NothingIsForgotten'
  BY DEF Promise!NothingIsForgotten, Promise!Next, Promise!vars, Promise!Create,
         Promise!Remove, Promise!Leave, Promise!Forget
<1> QED
  BY <1>1, <1>2, PromiseKept, PTL DEF FootprintKept, Promise!Spec

-----------------------------------------------------------------------------
(***************************************************************************)
(* How many replies fail, and what a step does to what failed before.      *)
(***************************************************************************)
Typed ==
  /\ target \in Targets /\ opts \in Options
  /\ IsFiniteSet(faults) /\ Cardinality(faults) <= MaxFaults
  /\ session \in {"none", "kept", "fresh", "member"}

\* A set of requests that fail is as small as the bound leaves room for.
LEMMA FailuresAreFew ==
  ASSUME IsFiniteSet(faults), Cardinality(faults) <= MaxFaults,
         NEW requests, NEW f \in Failures(requests)
  PROVE  /\ IsFiniteSet(DOMAIN f)
         /\ Cardinality(DOMAIN f) <= MaxFaults - Cardinality(faults)
         /\ DOMAIN f \subseteq requests
         /\ \A r \in DOMAIN f : f[r] \in FaultKinds
<1> DEFINE n == MaxFaults - Cardinality(faults)
<1>1. n \in Nat
  BY WorkloadAssumption, FS_CardinalityType
<1>2. PICK S \in {{}} \cup {Range(g) : g \in [1..n -> requests]} :
        f \in [S -> FaultKinds]
  BY DEF Failures
<1>3. CASE S = {}
  BY <1>1, <1>2, <1>3, FS_EmptySet
<1>4. CASE S # {}
  <2>1. PICK g \in [1..n -> requests] : S = Range(g)
    BY <1>4
  <2>2. S = {g[i] : i \in 1..n}
    BY <2>1 DEF Range
  <2>3. IsFiniteSet(1..n) /\ Cardinality(1..n) = n
    BY <1>1, FS_Interval
  <2>4. g \in Surjection(1..n, S)
    BY <2>1, <2>2 DEF Surjection
  <2>5. IsFiniteSet(S) /\ Cardinality(S) <= n
    BY <2>3, <2>4, FS_Surjection
  <2>6. S \subseteq requests
    BY <2>2
  <2> QED
    BY <1>2, <2>5, <2>6
<1> QED
  BY <1>3, <1>4

LEMMA SufferCounts ==
  ASSUME IsFiniteSet(faults), Cardinality(faults) <= MaxFaults,
         NEW requests, NEW f \in Failures(requests), Suffer(f)
  PROVE  IsFiniteSet(faults') /\ Cardinality(faults') <= MaxFaults
<1> DEFINE D == DOMAIN f
           N == {<<pc, r, f[r]>> : r \in D}
           h == [r \in D |-> <<pc, r, f[r]>>]
<1>1. IsFiniteSet(D) /\ Cardinality(D) <= MaxFaults - Cardinality(faults)
  BY FailuresAreFew
<1>2. h \in Surjection(D, N)
  BY DEF Surjection
<1>3. IsFiniteSet(N) /\ Cardinality(N) <= Cardinality(D)
  <2> HIDE DEF N, h, D
  <2> QED
    BY <1>1, <1>2, FS_Surjection
<1>4. faults' = faults \cup N
  BY DEF Suffer
<1>5. /\ IsFiniteSet(faults \cup N) /\ IsFiniteSet(faults \cap N)
      /\ Cardinality(faults \cup N)
           = Cardinality(faults) + Cardinality(N) - Cardinality(faults \cap N)
  <2> HIDE DEF N
  <2> QED
    BY <1>3, FS_Union, FS_Intersection
<1>6. /\ Cardinality(faults) \in Nat /\ Cardinality(N) \in Nat
      /\ Cardinality(faults \cap N) \in Nat /\ Cardinality(D) \in Nat
  <2> HIDE DEF N, D
  <2> QED
    BY <1>1, <1>3, <1>5, FS_CardinalityType
<1> QED
  <2> HIDE DEF N, D
  <2> QED
    BY <1>1, <1>3, <1>4, <1>5, <1>6, WorkloadAssumption

Fails == faults' = faults \/ \E requests : \E f \in Failures(requests) : Suffer(f)

LEMMA FirebaseFails ==
  FirebaseStep => UNCHANGED scan /\ Fails /\ session' \in {session, "none", "kept", "fresh"}
<1> SUFFICES ASSUME FirebaseStep
             PROVE  UNCHANGED scan /\ Fails /\ session' \in {session, "none", "kept", "fresh"}
  OBVIOUS
<1> USE DEF Fails, work, One
<1>1. CASE Firestore
  BY <1>1 DEF Firestore
<1>2. CASE RealtimeDatabase
  BY <1>2 DEF RealtimeDatabase
<1>3. CASE NoWrites \/ WritesDone \/ NoAccounts \/ KeepAccount
  BY <1>3 DEF NoWrites, WritesDone, NoAccounts, KeepAccount
<1>4. CASE CreateProbe
  BY <1>4 DEF CreateProbe
<1>5. CASE RemoveProbe
  BY <1>5 DEF RemoveProbe
<1>6. CASE Storage
  BY <1>6 DEF Storage
<1>7. CASE CloudFunctions
  BY <1>7 DEF CloudFunctions
<1>8. CASE RemoteConfig
  BY <1>8 DEF RemoteConfig
<1>9. CASE SignIn
  BY <1>9 DEF SignIn
<1>10. CASE AskVisitor
  BY <1>10 DEF AskVisitor
<1>11. CASE RemoveVisitor \/ Finish
  BY <1>11 DEF RemoveVisitor, Finish, Discards
<1>12. CASE Escalate
  BY <1>12 DEF Escalate
<1> QED
  BY <1>1, <1>2, <1>3, <1>4, <1>5, <1>6, <1>7, <1>8, <1>9, <1>10, <1>11, <1>12
     DEF FirebaseStep

LEMMA NeonFails == NeonStep => UNCHANGED scan /\ Fails /\ session' = session
<1> SUFFICES ASSUME NeonStep PROVE UNCHANGED scan /\ Fails /\ session' = session
  OBVIOUS
<1> USE DEF Fails, work, One
<1>1. CASE Enumeration
  BY <1>1 DEF Enumeration
<1>2. CASE Reach
  BY <1>2 DEF Reach
<1>3. CASE Compare
  BY <1>3 DEF Compare
<1>4. CASE NoInserts \/ ReportInserts
  BY <1>4 DEF NoInserts, ReportInserts
<1>5. CASE Insert
  BY <1>5 DEF Insert
<1> QED
  BY <1>1, <1>2, <1>3, <1>4, <1>5 DEF NeonStep

LEMMA PocketBaseFails ==
  PocketBaseStep => UNCHANGED scan /\ Fails /\ session' \in {session, "none", "member"}
<1> SUFFICES ASSUME PocketBaseStep
             PROVE  UNCHANGED scan /\ Fails /\ session' \in {session, "none", "member"}
  OBVIOUS
<1> USE DEF Fails, work, One
<1>1. CASE CollectionStage
  BY <1>1 DEF CollectionStage
<1>2. CASE NoConsent
  BY <1>2 DEF NoConsent
<1>3. CASE SignUp
  BY <1>3 DEF SignUp
<1>4. CASE SignInMember
  BY <1>4 DEF SignInMember
<1>5. CASE Gain
  BY <1>5 DEF Gain
<1>6. CASE RemoveMember
  BY <1>6 DEF RemoveMember
<1>7. CASE Verify
  BY <1>7 DEF Verify
<1> QED
  BY <1>1, <1>2, <1>3, <1>4, <1>5, <1>6, <1>7 DEF PocketBaseStep

LEMMA RoutesFails == RoutesStep => UNCHANGED scan /\ Fails /\ session' = session
<1> SUFFICES ASSUME RoutesStep PROVE UNCHANGED scan /\ Fails /\ session' = session
  OBVIOUS
<1> USE DEF Fails, work
<1>1. CASE Inventory
  BY <1>1 DEF Inventory
<1>2. CASE Probe
  BY <1>2 DEF Probe
<1>3. CASE Bypass
  BY <1>3 DEF Bypass
<1>4. CASE Identities
  BY <1>4 DEF Identities
<1>5. CASE Families
  BY <1>5 DEF Families
<1> QED
  BY <1>1, <1>2, <1>3, <1>4, <1>5 DEF RoutesStep

LEMMA StepFails ==
  [Next]_vars => /\ UNCHANGED scan /\ Fails
                 /\ session' \in {session, "none", "kept", "fresh", "member"}
BY FirebaseFails, NeonFails, PocketBaseFails, RoutesFails
   DEF Next, Step, Done, Begin, VerifyIntent, vars, work, Fails

\* What failed stays known, and what fails does so in the step that is taken.
LEMMA FailsNow ==
  ASSUME Fails
  PROVE  faults \subseteq faults' /\ \A x \in faults' \ faults : x[1] = pc
BY DEF Fails, Suffer

LEMMA TypedKept == Typed /\ [Next]_vars => Typed'
<1> SUFFICES ASSUME Typed, [Next]_vars PROVE Typed'
  OBVIOUS
<1>1. UNCHANGED <<target, opts>>
  BY StepFails DEF scan
<1>2. IsFiniteSet(faults') /\ Cardinality(faults') <= MaxFaults
  BY StepFails, SufferCounts DEF Fails, Typed
<1>3. session' \in {session, "none", "kept", "fresh", "member"}
  BY StepFails
<1> QED
  BY <1>1, <1>2, <1>3 DEF Typed

LEMMA TypedAtFirst == Init => Typed
<1> SUFFICES ASSUME Init PROVE Typed
  OBVIOUS
<1>1. IsFiniteSet({}) /\ Cardinality({}) = 0
  BY FS_EmptySet
<1> QED
  BY <1>1, WorkloadAssumption DEF Init, Typed

\* No more replies fail than the bound allows, whatever a stage asks for.
THEOREM TypesAreKept == Spec => []TypeOK
<1>1. Typed => TypeOK
  BY DEF Typed, TypeOK
<1> QED
  BY <1>1, TypedAtFirst, TypedKept, PTL DEF Spec
-----------------------------------------------------------------------------
(***************************************************************************)
(* Lists: what a budget keeps of one.                                      *)
(***************************************************************************)
LEMMA StrideIsPositive ==
  ASSUME NEW n \in Nat, NEW b \in Nat, b > 0, n > b
  PROVE  (n + b - 1) \div b \in Nat /\ (n + b - 1) \div b > 0
OBVIOUS

\* Strided is a list of what is in xs (the sampled order is not needed here).
LEMMA StridedIsList ==
  ASSUME NEW T, NEW xs \in Seq(T), NEW b \in Int
  PROVE  Strided(xs, b) \in Seq({xs[j] : j \in Int})
<1> DEFINE X == {xs[j] : j \in Int}
           n == Len(xs)
           stride == (n + b - 1) \div b
           Strip(off) == [i \in 1..((n - off + stride - 1) \div stride)
                          |-> xs[off + 1 + (i - 1) * stride]]
<1>1. CASE b <= 0 \/ n <= b
  <2>1. xs \in Seq(X)
    <3>1. \A i \in 1..n : xs[i] \in X
      OBVIOUS
    <3> QED
      BY <3>1
  <2> QED
    BY <1>1, <2>1 DEF Strided
<1>2. CASE ~(b <= 0 \/ n <= b)
  <2>1. n \in Nat /\ b \in Nat /\ b > 0 /\ n > b
    BY <1>2
  <2>2. stride \in Nat /\ stride > 0
    BY <2>1, StrideIsPositive
  <2>3. ASSUME NEW off \in Int PROVE Strip(off) \in Seq(X)
    <3> DEFINE m == (n - off + stride - 1) \div stride
    <3>1. m \in Int
      <4> HIDE DEF stride, n
      <4> QED
        BY <2>1, <2>2
    <3>2. \A i \in Int : off + 1 + (i - 1) * stride \in Int
      <4> HIDE DEF stride
      <4> QED
        BY <2>2
    <3>3. \A i \in 1..m : xs[off + 1 + (i - 1) * stride] \in X
      <4> HIDE DEF m, stride
      <4> QED
        BY <3>2
    <3> HIDE DEF stride, X
    <3>4. Strip(off) \in [1..m -> X]
      BY <3>3
    <3>5. CASE m \in Nat
      BY <3>4, <3>5
    <3>6. CASE m \notin Nat
      <4>1. 1..m = 1..0
        BY <3>1, <3>6
      <4>2. Strip(off) \in [1..0 -> X]
        BY <3>4, <4>1
      <4> HIDE DEF Strip, m
      <4> QED
        BY <4>2
    <3> QED
      BY <3>5, <3>6
  <2> HIDE DEF stride, X
  <2> DEFINE Solves(f, k) == f = [i \in 0..k |-> IF i = 0 THEN <<>> ELSE f[i - 1] \o Strip(i - 1)]
             Bad == {k \in Nat : ~\E f : Solves(f, k)}
  <2>4. Bad = {}
    <3> SUFFICES ASSUME Bad # {} PROVE FALSE
      OBVIOUS
    <3> HIDE DEF Strip
    <3>1. PICK k \in Bad : \A m \in Bad : k <= m
      <4>1. Bad \in SUBSET Nat
        OBVIOUS
      <4> HIDE DEF Bad
      <4> QED
        BY <4>1, LeastExists
    <3>2. k \in Nat /\ k # 0
      <4> DEFINE z == [i \in 0..0 |-> <<>>]
      <4>1. Solves(z, 0)
        OBVIOUS
      <4> QED
        BY <4>1
    <3>3. PICK f : Solves(f, k - 1)
      <4>1. k - 1 \in Nat /\ ~(k <= k - 1)
        BY <3>2
      <4>2. k - 1 \notin Bad
        <5> HIDE DEF Bad
        <5> QED
          BY <3>1, <4>1
      <4> QED
        BY <4>1, <4>2
    <3> DEFINE g == [i \in 0..k |-> IF i < k THEN f[i] ELSE f[k - 1] \o Strip(k - 1)]
    <3>4. Solves(g, k)
      <4>1. \A i \in 0..k : g[i] = IF i = 0 THEN <<>> ELSE g[i - 1] \o Strip(i - 1)
        <5> TAKE i \in 0..k
        <5>1. CASE i = k
          BY <5>1, <3>2
        <5>2. CASE i < k
          <6>1. i \in 0..(k - 1)
            BY <5>2, <3>2
          <6>2. f[i] = IF i = 0 THEN <<>> ELSE f[i - 1] \o Strip(i - 1)
            BY <3>3, <6>1
          <6>3. i # 0 => g[i - 1] = f[i - 1]
            BY <5>2, <3>2
          <6> QED
            BY <5>2, <6>2, <6>3
        <5> QED
          BY <5>1, <5>2, <3>2
      <4> QED
        BY <4>1
    <3> HIDE DEF g
    <3> QED
      BY <3>1, <3>4
  <2>5. \E f : Solves(f, stride)
    <3> HIDE DEF Solves
    <3> QED
      BY <2>2, <2>4
  <2> DEFINE up == CHOOSE f : Solves(f, stride)
  <2>6. Solves(up, stride)
    <3> HIDE DEF Solves
    <3> QED
      BY <2>5
  <2>7. Strided(xs, b) = up[stride]
    BY <1>2 DEF Strided, stride
  <2> HIDE DEF up, Strip
  <2>8. {k \in 0..stride : up[k] \notin Seq(X)} = {}
    <3> DEFINE Worse == {k \in 0..stride : up[k] \notin Seq(X)}
    <3> SUFFICES ASSUME Worse # {} PROVE FALSE
      OBVIOUS
    <3>1. PICK k \in Worse : \A m \in Worse : k <= m
      <4>1. Worse \subseteq 0..stride
        OBVIOUS
      <4>2. 0..stride \subseteq Nat
        OBVIOUS
      <4> HIDE DEF Worse
      <4> QED
        BY <4>1, <4>2, LeastExists
    <3>2. k # 0
      <4>1. up[0] = <<>>
        BY <2>2, <2>6
      <4>2. up[0] \in Seq(X) /\ up[k] \notin Seq(X)
        BY <4>1
      <4> QED
        BY <4>2
    <3>3. k \in 0..stride /\ k - 1 \in 0..stride /\ ~(k <= k - 1)
      BY <2>2, <3>2
    <3>4. up[k - 1] \in Seq(X)
      <4>1. k - 1 \notin Worse
        <5> HIDE DEF Worse
        <5> QED
          BY <3>1, <3>3, Zenon
      <4> QED
        BY <3>3, <4>1
    <3>5. up[k] = up[k - 1] \o Strip(k - 1)
      BY <2>2, <2>6, <3>2, <3>3
    <3>6. Strip(k - 1) \in Seq(X)
      BY <2>3, <3>3
    <3>7. up[k] \in Seq(X)
      BY <3>4, <3>5, <3>6
    <3> QED
      BY <3>1, <3>7
  <2>9. stride \in 0..stride
    BY <2>2
  <2> QED
    BY <2>7, <2>8, <2>9 DEF X
<1> QED
  BY <1>1, <1>2

\* What a budget keeps of a list is a list.
LEMMA SampledIsList ==
  ASSUME NEW T, NEW xs \in Seq(T), NEW n \in Int
  PROVE  Sampled(xs, n) \in Seq(Range(Sampled(xs, n)))
<1>1. CASE n <= 0
  BY <1>1, SeqOfRange DEF Sampled
<1>2. CASE n > 0
  <2> DEFINE X == {xs[j] : j \in Int}
             s == Strided(xs, n)
  <2>1. s \in Seq(X)
    BY StridedIsList
  <2> HIDE DEF s, X
  <2>2. Lesser(n, Len(s)) \in Int /\ \A i \in 1..Lesser(n, Len(s)) : s[i] \in X
    BY <2>1, <1>2 DEF Lesser
  <2>3. SubSeq(s, 1, Lesser(n, Len(s))) \in Seq(X)
    BY <2>2, SubSeqProperties
  <2>4. Sampled(xs, n) = SubSeq(s, 1, Lesser(n, Len(s)))
    <3>1. ~(n <= 0)
      BY <1>2
    <3>2. Sampled(xs, n) = First(Strided(xs, n), n)
      BY <3>1, Zenon DEF Sampled
    <3> QED
      BY <3>2, Zenon DEF First, s
  <2> QED
    BY <2>3, <2>4, SeqOfRange
<1> QED
  BY <1>1, <1>2

\* The first items of a list.
LEMMA FirstKeeps ==
  ASSUME NEW T, NEW xs \in Seq(T), NEW n \in Nat
  PROVE  /\ First(xs, n) \in Seq(T)
         /\ Range(First(xs, n)) = {xs[i] : i \in {j \in DOMAIN xs : j <= n}}
<1> DEFINE m == Lesser(n, Len(xs))
<1>1. m \in Nat /\ m <= Len(xs) /\ m <= n /\ (m = n \/ m = Len(xs))
  BY DEF Lesser
<1>2. First(xs, n) = SubSeq(xs, 1, m)
  BY DEF First
<1> HIDE DEF m
<1>3. \A i \in 1..m : xs[i] \in T
  BY <1>1
<1>4. /\ SubSeq(xs, 1, m) \in Seq(T)
      /\ Len(SubSeq(xs, 1, m)) = m
      /\ \A i \in 1..m : SubSeq(xs, 1, m)[i] = xs[i]
  BY <1>1, <1>3, SubSeqProperties
<1>5. DOMAIN SubSeq(xs, 1, m) = 1..m
  BY <1>4
<1>6. {j \in DOMAIN xs : j <= n} = 1..m
  BY <1>1
<1> QED
  BY <1>2, <1>4, <1>5, <1>6 DEF Range

-----------------------------------------------------------------------------
(***************************************************************************)
(* Firebase: what is written to was read, and one reply about the project  *)
(* ends a sweep.                                                           *)
(***************************************************************************)
LEMMA FirebaseTarget ==
  ASSUME Typed, At("firebase")
  PROVE  /\ target.names \in Seq(Range(target.names))
         /\ target.harvested \in Seq(Range(target.harvested))
         /\ opts.supplied \in Seq(Range(opts.supplied))
         /\ opts.collections \in Int
         /\ Range(target.functions) \subseteq {"public-function", "private-function"}
         /\ \A c \in DOMAIN target.functions : c = <<c[1], c[2]>>
BY TargetsAssumption, OptionsAssumption DEF Typed, At, IsList

LEMMA CollectionsAreNames ==
  ASSUME Typed, At("firebase")
  PROVE  Collections \in Seq(Range(Collections))
<1>1. Sampled(target.names, opts.collections)
        \in Seq(Range(Sampled(target.names, opts.collections)))
  BY FirebaseTarget, SampledIsList
<1>2. <<>> \in Seq(Range(<<>>))
  OBVIOUS
<1> QED
  BY <1>1, <1>2 DEF Collections

\* A sweep asks only what it has, and of what it asks at most one name is
\* answered with a reply about the project.
LEMMA SweepEnds ==
  ASSUME NEW T, NEW names \in Seq(T), NEW f
  PROVE  /\ Tried(names, f) \subseteq Range(names)
         /\ \A n, m \in Tried(names, f) :
              /\ n \in DOMAIN f /\ f[n] = "throttled"
              /\ m \in DOMAIN f /\ f[m] = "throttled"
              => n = m
<1> DEFINE stops == {i \in DOMAIN names : Terminal(names[i], f)}
<1>1. DOMAIN names = 1..Len(names) /\ Len(names) \in Nat
  OBVIOUS
<1>2. \A n \in DOMAIN f : f[n] = "throttled" => Terminal(n, f)
  BY DEF Terminal
<1>3. CASE stops = {}
  <2>1. Tried(names, f) = Range(names)
    BY <1>3 DEF Tried
  <2>2. \A n \in Range(names) : ~Terminal(n, f)
    BY <1>3 DEF Range
  <2> QED
    BY <2>1, <2>2, <1>2
<1>4. CASE stops # {}
  <2> DEFINE k == Min(stops)
  <2>1. k \in stops /\ \A i \in stops : k <= i
    <3>1. stops \in SUBSET Nat
      BY <1>1
    <3> HIDE DEF stops
    <3>2. \E x \in stops : \A y \in stops : x <= y
      BY <1>4, <3>1, LeastExists
    <3> QED
      BY <3>2 DEF Min
  <2>2. k \in Nat
    BY <2>1, <1>1
  <2>3. Tried(names, f) = Range(First(names, k))
    BY <1>4 DEF Tried
  <2> HIDE DEF k
  <2>4. Tried(names, f) = {names[i] : i \in {j \in DOMAIN names : j <= k}}
    BY <2>2, <2>3, FirstKeeps
  <2>5. Tried(names, f) \subseteq Range(names)
    BY <2>4 DEF Range
  <2>6. ASSUME NEW n \in Tried(names, f), Terminal(n, f)
        PROVE  n = names[k]
    <3>1. PICK i \in DOMAIN names : i <= k /\ n = names[i]
      BY <2>4
    <3>2. i \in stops
      BY <2>6, <3>1
    <3>3. i = k
      BY <2>1, <2>2, <3>1, <3>2, <1>1
    <3> QED
      BY <3>1, <3>3
  <2> QED
    BY <2>5, <2>6, <1>2
<1> QED
  BY <1>3, <1>4

LEMMA HeardAreNames ==
  ASSUME NEW T, NEW names \in Seq(T), NEW f
  PROVE  Heard(names, f) \subseteq Range(names)
BY SweepEnds DEF Heard

\* What the sweep of the collections does.
LEMMA FirestoreDoes ==
  ASSUME Typed, At("firebase"), Firestore
  PROVE  \E f \in Failures(Range(Collections)) :
           /\ DOMAIN f \subseteq Tried(Collections, f)
           /\ Suffer(f)
           /\ asked' = Heard(Collections, f)
           /\ todo' \in Seq({Document(n) : n \in Readable(Collections, f, "anyone")})
           /\ report' = report \cup {FirestoreRead(n) : n \in Readable(Collections, f, "anyone")}
                          \cup {NotAssessed("firestore") : n \in Range(Collections)}
<1>1. PICK f \in Failures(Range(Collections)) :
        LET open == Only(Collections, Readable(Collections, f, "anyone"))
        IN  /\ DOMAIN f \subseteq Tried(Collections, f)
            /\ Suffer(f)
            /\ asked' = Heard(Collections, f)
            /\ todo' = [i \in DOMAIN open |-> Document(open[i])]
            /\ report' = report \cup ({FirestoreRead(n) : n \in Range(open)}
                           \cup {NotAssessed("firestore") : n \in Range(Collections)})
  BY DEF Firestore, WriteTargets, Say
<1> DEFINE R == Readable(Collections, f, "anyone")
           open == Only(Collections, R)
<1>2. Collections \in Seq(Range(Collections))
  BY CollectionsAreNames
<1>3. R \subseteq Range(Collections)
  BY <1>2, HeardAreNames DEF Readable
<1>4. open \in Seq(Range(Collections)) /\ Range(open) = R
  BY <1>2, <1>3, OnlyKeeps
<1> HIDE DEF open
<1>5. [i \in DOMAIN open |-> Document(open[i])] \in Seq({Document(n) : n \in R})
  <2>1. DOMAIN open = 1..Len(open) /\ Len(open) \in Nat
    BY <1>4
  <2>2. \A i \in DOMAIN open : open[i] \in R
    BY <1>4 DEF Range
  <2> HIDE DEF R
  <2> QED
    BY <2>1, <2>2
<1>6. report' = report \cup {FirestoreRead(n) : n \in R}
                  \cup {NotAssessed("firestore") : n \in Range(Collections)}
  BY <1>1, <1>4 DEF open
<1>7. todo' \in Seq({Document(n) : n \in R})
  BY <1>1, <1>5 DEF open
<1> QED
  BY <1>1, <1>6, <1>7

\* What the reads of the database do: a path is reported before it is written to.
LEMMA RealtimeDatabaseDoes ==
  ASSUME Typed, At("firebase"), RealtimeDatabase, todo \in Seq(Range(todo))
  PROVE  \E N : /\ N \subseteq Range(target.names)
                /\ todo' \in Seq(Range(todo) \cup {Key(n) : n \in N})
                /\ \A n \in N : RtdbRead(n) \in report'
                /\ report \subseteq report'
                /\ report' \subseteq report \cup {RtdbRead(n) : n \in N}
                               \cup {RtdbRead(Root), NotAssessed("rtdb")}
<1>1. PICK f : LET rootOpen == target.rtdb = "open" /\ Root \notin DOMAIN f
                   paths == IF rootOpen \/ target.rtdb \in {"none", "stale"} THEN <<>>
                            ELSE Only(target.names, Shown \ DOMAIN f)
               IN  /\ todo' = todo \o [i \in DOMAIN paths |-> Key(paths[i])]
                   /\ Say({RtdbRead(n) : n \in Range(paths)}
                            \cup (IF rootOpen THEN {RtdbRead(Root)} ELSE {})
                            \cup (IF target.rtdb = "stale" /\ Root \notin DOMAIN f
                                    THEN {NotAssessed("rtdb")} ELSE {}))
  BY DEF RealtimeDatabase
<1> DEFINE rootOpen == target.rtdb = "open" /\ Root \notin DOMAIN f
           paths == IF rootOpen \/ target.rtdb \in {"none", "stale"} THEN <<>>
                    ELSE Only(target.names, Shown \ DOMAIN f)
<1>2. paths \in Seq(Range(target.names))
  <2>1. Only(target.names, Shown \ DOMAIN f) \in Seq(Range(target.names))
    BY FirebaseTarget, OnlyKeeps
  <2>2. <<>> \in Seq(Range(target.names))
    OBVIOUS
  <2> HIDE DEF rootOpen
  <2>3. paths = <<>> \/ paths = Only(target.names, Shown \ DOMAIN f)
    BY Zenon
  <2> HIDE DEF paths
  <2> QED
    BY <2>1, <2>2, <2>3
<1>3. /\ todo' = todo \o [i \in DOMAIN paths |-> Key(paths[i])]
      /\ report \subseteq report'
      /\ \A n \in Range(paths) : RtdbRead(n) \in report'
      /\ report' \subseteq report \cup {RtdbRead(n) : n \in Range(paths)}
                               \cup {RtdbRead(Root), NotAssessed("rtdb")}
  BY <1>1 DEF Say
<1> HIDE DEF paths
<1> DEFINE N == Range(paths)
           keys == [i \in DOMAIN paths |-> Key(paths[i])]
<1>4. N \subseteq Range(target.names)
  BY <1>2 DEF Range
<1>5. keys \in Seq({Key(n) : n \in N})
  <2>1. DOMAIN paths = 1..Len(paths) /\ Len(paths) \in Nat
    BY <1>2
  <2>2. \A i \in DOMAIN paths : paths[i] \in N
    BY DEF Range
  <2> HIDE DEF N
  <2> QED
    BY <2>1, <2>2
<1>6. todo' \in Seq(Range(todo) \cup {Key(n) : n \in N})
  <2> DEFINE K == {Key(n) : n \in N}
  <2> HIDE DEF keys, K
  <2>1. todo \in Seq(Range(todo) \cup K) /\ keys \in Seq(Range(todo) \cup K)
    BY <1>5, SeqMonotonic DEF K
  <2>2. todo' = todo \o keys
    BY <1>3 DEF keys
  <2> QED
    BY <2>1, <2>2 DEF K
<1> HIDE DEF N
<1> QED
  BY <1>3, <1>4, <1>6 DEF N

LEMMA ListOf ==
  ASSUME NEW T, NEW s \in Seq(T)
  PROVE  s \in Seq(Range(s)) /\ Range(s) \subseteq T
BY SeqOfRange, RangeOfSeq

LEMMA TailKeeps ==
  ASSUME NEW s, s \in Seq(Range(s)), s # <<>>
  PROVE  /\ Tail(s) \in Seq(Range(Tail(s)))
         /\ Range(Tail(s)) \subseteq Range(s)
         /\ Head(s) \in Range(s)
<1>1. Tail(s) \in Seq(Range(s))
  OBVIOUS
<1>2. Tail(s) \in Seq(Range(Tail(s))) /\ Range(Tail(s)) \subseteq Range(s)
  BY <1>1, ListOf
<1>3. Head(s) = s[1] /\ 1 \in DOMAIN s
  OBVIOUS
<1>4. Head(s) \in Range(s)
  BY <1>3 DEF Range
<1> QED
  BY <1>2, <1>4
-----------------------------------------------------------------------------
\* What is written to, or to be, was answered with data.
WhereRead(x) ==
  /\ x[1] = "document" => x[2] \in asked /\ Admits(Where(x).read, "anyone")
  /\ x[1] = "key" => Reported("rtdb-read", x[2])

ReadsFirst ==
  At("firebase") =>
    /\ todo \in Seq(Range(todo))
    /\ \A x \in held \cup left \cup Range(todo) : WhereRead(x)
    /\ pc \in {"plan", "firestore"} => todo = <<>> /\ held = {} /\ left = {}

LEMMA WhereReadStays ==
  ASSUME NEW x, WhereRead(x), report \subseteq report', asked' = asked, target' = target
  PROVE  WhereRead(x)'
BY DEF WhereRead, Reported, Where

\* What a step of Firebase leaves as it is.
LEMMA FirebaseGrows ==
  FirebaseStep =>
    /\ report \subseteq report'
    /\ Firestore \/ asked' = asked
    /\ Firestore \/ pc # "firestore"
    /\ pc # "plan" /\ pc' \notin {"plan", "firestore"}
    /\ Firestore \/ RealtimeDatabase \/ CreateProbe \/ RemoveProbe \/ todo' = todo
<1> SUFFICES ASSUME FirebaseStep
             PROVE  /\ report \subseteq report'
                    /\ Firestore \/ asked' = asked
                    /\ Firestore \/ pc # "firestore"
                    /\ pc # "plan" /\ pc' \notin {"plan", "firestore"}
                    /\ Firestore \/ RealtimeDatabase \/ CreateProbe \/ RemoveProbe
                         \/ todo' = todo
  OBVIOUS
<1> USE DEF work, Say
<1>1. CASE Firestore
  BY <1>1 DEF Firestore
<1>2. CASE RealtimeDatabase
  BY <1>2 DEF RealtimeDatabase
<1>3. CASE NoWrites \/ WritesDone \/ NoAccounts \/ KeepAccount
  BY <1>3 DEF NoWrites, WritesDone, NoAccounts, KeepAccount
<1>4. CASE CreateProbe
  BY <1>4 DEF CreateProbe
<1>5. CASE RemoveProbe
  BY <1>5 DEF RemoveProbe
<1>6. CASE Storage
  BY <1>6 DEF Storage
<1>7. CASE CloudFunctions
  BY <1>7 DEF CloudFunctions
<1>8. CASE RemoteConfig
  BY <1>8 DEF RemoteConfig
<1>9. CASE SignIn
  BY <1>9 DEF SignIn
<1>10. CASE AskVisitor
  BY <1>10 DEF AskVisitor
<1>11. CASE RemoveVisitor \/ Finish
  BY <1>11 DEF RemoveVisitor, Finish, Discards
<1>12. CASE Escalate
  BY <1>12 DEF Escalate
<1> QED
  BY <1>1, <1>2, <1>3, <1>4, <1>5, <1>6, <1>7, <1>8, <1>9, <1>10, <1>11, <1>12
     DEF FirebaseStep

LEMMA ReadsFirstKept ==
  ASSUME Typed, At("firebase"), ReadsFirst, FirebaseStep
  PROVE  ReadsFirst'
<1>1. target' = target /\ report \subseteq report' /\ pc' \notin {"plan", "firestore"}
  BY FirebaseGrows, FirebaseFails DEF scan
<1>2. todo \in Seq(Range(todo)) /\ \A x \in held \cup left \cup Range(todo) : WhereRead(x)
  BY DEF ReadsFirst
<1>3. SUFFICES /\ todo' \in Seq(Range(todo'))
               /\ \A x \in held' \cup left' \cup Range(todo') : WhereRead(x)'
  BY <1>1 DEF ReadsFirst
<1>4. CASE Firestore
  <2>1. PICK f \in Failures(Range(Collections)) :
          /\ asked' = Heard(Collections, f)
          /\ todo' \in Seq({Document(n) : n \in Readable(Collections, f, "anyone")})
    BY <1>4, FirestoreDoes
  <2>2. held' = {} /\ left' = {}
    BY <1>4 DEF Firestore, footprint, ReadsFirst
  <2>3. ASSUME NEW x \in Range(todo') PROVE WhereRead(x)'
    <3>1. PICK n \in Readable(Collections, f, "anyone") : x = Document(n)
      BY <2>1, ListOf
    <3>2. n \in asked' /\ Admits(target.store[n].read, "anyone")
      BY <2>1 DEF Readable
    <3>3. x[1] = "document" /\ x[2] = n
      BY <3>1 DEF Document
    <3> QED
      BY <1>1, <3>2, <3>3 DEF WhereRead, Where
  <2> QED
    BY <2>1, <2>2, <2>3, ListOf
<1>5. CASE RealtimeDatabase
  <2>1. PICK N : /\ todo' \in Seq(Range(todo) \cup {Key(n) : n \in N})
                 /\ \A n \in N : RtdbRead(n) \in report'
    BY <1>2, <1>5, RealtimeDatabaseDoes
  <2>2. UNCHANGED <<held, left, asked>>
    BY <1>5 DEF RealtimeDatabase, footprint
  <2>3. ASSUME NEW x \in Range(todo') PROVE WhereRead(x)'
    <3>1. CASE x \in Range(todo)
      BY <1>1, <1>2, <2>2, <3>1, WhereReadStays
    <3>2. CASE \E n \in N : x = Key(n)
      BY <2>1, <3>2 DEF Key, WhereRead, RtdbRead, Reported
    <3> QED
      BY <2>1, <3>1, <3>2, ListOf
  <2> QED
    BY <1>1, <1>2, <2>1, <2>2, <2>3, ListOf, WhereReadStays
<1>6. CASE ~Firestore /\ ~RealtimeDatabase
  <2>1. asked' = asked
    BY <1>6, FirebaseGrows
  <2>2. /\ todo' \in Seq(Range(todo')) /\ Range(todo') \subseteq Range(todo)
    <3>1. CASE todo' = todo
      BY <1>2, <3>1
    <3>2. CASE CreateProbe \/ RemoveProbe
      <4>1. todo # <<>> /\ todo' \in {todo, Tail(todo)}
        BY <3>2 DEF CreateProbe, RemoveProbe, OneTry
      <4> QED
        BY <1>2, <4>1, TailKeeps
    <3> QED
      BY <1>6, <3>1, <3>2, FirebaseGrows
  <2>3. held' \cup left' \subseteq held \cup left \cup Range(todo) \cup {ProbeAccount, Visitor}
    <3>1. CASE UNCHANGED <<held, left>>
      BY <3>1
    <3>2. CASE CreateProbe
      BY <1>2, <3>2, TailKeeps
         DEF CreateProbe, Creates, MayHaveCreated, NothingCreated, footprint
    <3>3. CASE RemoveProbe
      BY <3>3 DEF RemoveProbe, Removes, GivesUp
    <3>4. CASE SignIn
      BY <3>4 DEF SignIn, Creates, MayHaveCreated, NothingCreated, footprint
    <3>5. CASE AskVisitor
      BY <3>5 DEF AskVisitor, Creates, MayHaveCreated, NothingCreated, footprint
    <3>6. CASE RemoveVisitor \/ Finish
      BY <3>6 DEF RemoveVisitor, Finish, Discards, Removes, GivesUp
    <3> QED
      BY <1>6, <3>1, <3>2, <3>3, <3>4, <3>5, <3>6, FirebaseQuiet DEF FirebaseStep, Quiet
  <2>4. WhereRead(ProbeAccount) /\ WhereRead(Visitor)
    BY DEF WhereRead, ProbeAccount, Visitor
  <2> QED
    BY <1>1, <1>2, <2>1, <2>2, <2>3, <2>4, WhereReadStays
<1> QED
  BY <1>4, <1>5, <1>6

-----------------------------------------------------------------------------
AfterFunctions == {"config", "auth", "visitor", "escalate", "finish", "done", "closed"}
AfterEscalate == {"finish", "done", "closed"}

LEMMA RemoteConfigSays ==
  RemoteConfig => report' \subseteq report
                    \cup {NotAssessed("config"), ConfigSecret, NotAssessed("keyed surfaces")}
<1> SUFFICES ASSUME RemoteConfig
             PROVE  report' \subseteq report \cup {NotAssessed("config"), ConfigSecret,
                                                NotAssessed("keyed surfaces")}
  OBVIOUS
<1>1. PICK f : Say((IF ~target.key \/ ~target.appId \/ ~Fine(f) THEN {NotAssessed("config")}
                    ELSE IF target.config = "secret" THEN {ConfigSecret} ELSE {})
                   \cup IF target.key THEN {} ELSE {NotAssessed("keyed surfaces")})
  BY DEF RemoteConfig
<1> QED
  BY <1>1 DEF Say

\* The findings that measure access (firebaseAccess).
Measurements == {"firestore-read", "rtdb-read", "member-read", "write"}

\* Which step is taken where, and which one says that an account adds something.
LEMMA FirebaseOrder ==
  ASSUME Typed, At("firebase"), FirebaseStep
  PROVE  /\ Escalate \/ pc # "escalate"
         /\ pc' \in AfterEscalate => Escalate \/ pc \in AfterEscalate \/ pc = "auth"
         /\ pc \in AfterEscalate => pc' \in AfterEscalate
         /\ pc \notin AfterEscalate => pc' # "closed"
         /\ CloudFunctions \/ pc # "functions"
         /\ pc' \in AfterFunctions => CloudFunctions \/ pc \in AfterFunctions
         /\ Escalate \/ \A y \in report' \ report : y[1] # "member-read"
         /\ \/ Firestore \/ RealtimeDatabase \/ RemoveProbe \/ Escalate
            \/ \A y \in report' \ report : y[1] \notin Measurements
<1> USE DEF AfterEscalate, AfterFunctions, Say, NotAssessed, Found, Measurements
<1>1. CASE Firestore
  <2>1. pc = "firestore" /\ pc' = "rtdb"
    BY <1>1 DEF Firestore
  <2>2. PICK f : report' = report
                   \cup {FirestoreRead(n) : n \in Readable(Collections, f, "anyone")}
                   \cup {NotAssessed("firestore") : n \in Range(Collections)}
    BY <1>1, FirestoreDoes
  <2>3. \A y \in report' \ report : y[1] \in {"firestore-read", "not-assessed"}
    BY <2>2 DEF FirestoreRead
  <2> QED
    BY <1>1, <2>1, <2>3
<1>2. CASE RealtimeDatabase
  <2>1. pc = "rtdb" /\ pc' = "write"
    BY <1>2 DEF RealtimeDatabase
  <2>2. \A y \in report' \ report : y[1] \in {"rtdb-read", "not-assessed"}
    BY <1>2 DEF RealtimeDatabase, RtdbRead
  <2> QED
    BY <1>2, <2>1, <2>2
<1>3. CASE NoWrites \/ WritesDone \/ NoAccounts \/ KeepAccount
  BY <1>3 DEF NoWrites, WritesDone, NoAccounts, KeepAccount
<1>4. CASE CreateProbe
  BY <1>4 DEF CreateProbe
<1>5. CASE RemoveProbe
  <2>1. pc = "write" /\ pc' = "write"
    BY <1>5 DEF RemoveProbe
  <2>2. report' \subseteq report \cup {WriteAccepted(Head(todo))} \cup Residue(Head(todo))
    BY <1>5 DEF RemoveProbe
  <2>3. \A y \in report' \ report : y[1] \in {"write", "left-behind"}
    BY <2>2 DEF WriteAccepted, Residue
  <2> QED
    BY <1>5, <2>1, <2>3
<1>6. CASE Storage
  BY <1>6 DEF Storage, Bucket
<1>7. CASE CloudFunctions
  <2>1. pc = "functions" /\ pc' = "config"
    BY <1>7 DEF CloudFunctions
  <2>2. \A c \in DOMAIN target.functions :
          target.functions[c] \in {"public-function", "private-function"}
    BY FirebaseTarget DEF Range
  <2>3. \A y \in report' \ report :
          \/ y[1] \in {"not-assessed", "budget"}
          \/ \E c \in DOMAIN target.functions : y = FunctionFound(c)
    BY <1>7 DEF CloudFunctions
  <2>4. \A y \in report' \ report : y[1] \notin Measurements
    BY <2>2, <2>3 DEF FunctionFound
  <2> QED
    BY <1>7, <2>1, <2>4
<1>8. CASE RemoteConfig
  <2>1. pc = "config" /\ pc' = "auth"
    BY <1>8 DEF RemoteConfig
  <2>2. report' \subseteq report \cup {NotAssessed("config"), ConfigSecret,
                                     NotAssessed("keyed surfaces")}
    BY <1>8, RemoteConfigSays
  <2>3. \A y \in report' \ report : y[1] \in {"config-secret", "not-assessed"}
    <3>1. /\ NotAssessed("config")[1] = "not-assessed"
          /\ NotAssessed("keyed surfaces")[1] = "not-assessed"
          /\ ConfigSecret[1] = "config-secret"
      BY DEF ConfigSecret
    <3> HIDE DEF NotAssessed, Found, Say
    <3> QED
      BY <2>2, <3>1
  <2> QED
    BY <2>1, <2>3
<1>9. CASE SignIn
  BY <1>9 DEF SignIn, OpenSignup
<1>10. CASE AskVisitor
  BY <1>10 DEF AskVisitor
<1>11. CASE RemoveVisitor \/ Finish
  <2>1. \/ pc = "visitor" /\ pc' = "escalate"
        \/ pc = "finish" /\ pc' = "done"
    BY <1>11 DEF RemoveVisitor, Finish, Discards
  <2>2. PICK x : report' \subseteq report \cup {AnonymousSignin} \cup Residue(x)
    BY <1>11 DEF RemoveVisitor, Finish, Discards
  <2>3. \A y \in report' \ report : y[1] \in {"anonymous-signin", "left-behind"}
    BY <2>2 DEF AnonymousSignin, Residue
  <2> QED
    BY <2>1, <2>3
<1>12. CASE Escalate
  BY <1>12 DEF Escalate
<1> QED
  BY <1>1, <1>2, <1>3, <1>4, <1>5, <1>6, <1>7, <1>8, <1>9, <1>10, <1>11, <1>12
     DEF FirebaseStep

\* One reply about the project is all that a sweep hears.
SweepsEnd ==
  At("firebase") =>
    /\ pc \in {"plan", "firestore"} => faults = {}
    /\ (\E x \in faults : x[1] = "escalate") => pc \in AfterEscalate
    /\ \A x, y \in faults :
         /\ x[1] = y[1] /\ x[1] \in {"firestore", "escalate"}
         /\ x[3] = "throttled" /\ y[3] = "throttled"
         => x = y

\* What a sweep of names hears is heard in one step.
LEMMA SweepHearsOne ==
  ASSUME NEW T, NEW names \in Seq(T), NEW f, DOMAIN f \subseteq Tried(names, f), Suffer(f),
         \A x \in faults : x[1] # pc,
         NEW x \in faults', NEW y \in faults', x[1] = pc, y[1] = pc,
         x[3] = "throttled", y[3] = "throttled"
  PROVE  x = y
<1>1. x \in {<<pc, r, f[r]>> : r \in DOMAIN f} /\ y \in {<<pc, r, f[r]>> : r \in DOMAIN f}
  BY DEF Suffer
<1>2. PICK r \in DOMAIN f : x = <<pc, r, f[r]>>
  BY <1>1
<1>3. PICK s \in DOMAIN f : y = <<pc, s, f[s]>>
  BY <1>1
<1>4. f[r] = "throttled" /\ f[s] = "throttled"
  BY <1>2, <1>3
<1>5. r = s
  BY <1>4, SweepEnds
<1> QED
  BY <1>2, <1>3, <1>5

LEMMA SweepsEndKept ==
  ASSUME Typed, At("firebase"), SweepsEnd, FirebaseStep
  PROVE  SweepsEnd'
<1>1. target' = target /\ pc # "plan" /\ pc' \notin {"plan", "firestore"} /\ Fails
  BY FirebaseGrows, FirebaseFails DEF scan
<1>2. faults \subseteq faults' /\ \A x \in faults' \ faults : x[1] = pc
  BY <1>1, FailsNow
<1>3. (\E x \in faults' : x[1] = "escalate") => pc' \in AfterEscalate
  <2>1. SUFFICES ASSUME NEW x \in faults', x[1] = "escalate"
                 PROVE  pc' \in AfterEscalate
    OBVIOUS
  <2>2. CASE x \in faults
    BY <2>1, <2>2, FirebaseOrder DEF SweepsEnd
  <2>3. CASE pc = "escalate"
    BY <2>3, FirebaseOrder DEF Escalate, AfterEscalate
  <2> QED
    BY <1>2, <2>1, <2>2, <2>3
<1>4. ASSUME NEW x \in faults', NEW y \in faults', x[1] = y[1],
             x[1] \in {"firestore", "escalate"},
             x[3] = "throttled", y[3] = "throttled"
      PROVE  x = y
  <2>1. CASE x[1] # pc
    BY <1>2, <1>4, <2>1 DEF SweepsEnd
  <2>2. CASE x[1] = pc /\ pc = "firestore"
    <3>1. \A z \in faults : z[1] # pc
      BY <2>2 DEF SweepsEnd
    <3>2. PICK f : DOMAIN f \subseteq Tried(Collections, f) /\ Suffer(f)
      BY <2>2, FirestoreDoes, FirebaseGrows
    <3> QED
      BY <1>4, <2>2, <3>1, <3>2, CollectionsAreNames, SweepHearsOne
  <2>3. CASE x[1] = pc /\ pc = "escalate"
    <3> DEFINE names == IF session = "none" THEN <<>>
                        ELSE Only(target.names,
                                  {n \in Range(target.names) : ~Reported("firestore-read", n)})
    <3>1. \A z \in faults : z[1] # pc
      BY <2>3 DEF SweepsEnd, AfterEscalate
    <3>2. PICK f : DOMAIN f \subseteq Tried(names, f) /\ Suffer(f)
      BY <2>3, FirebaseOrder DEF Escalate
    <3>3. names \in Seq(Range(target.names))
      <4>1. /\ <<>> \in Seq(Range(target.names))
            /\ Only(target.names, {n \in Range(target.names) : ~Reported("firestore-read", n)})
                 \in Seq(Range(target.names))
        BY FirebaseTarget, OnlyKeeps
      <4> QED
        BY <4>1, Zenon
    <3> HIDE DEF names
    <3> QED
      BY <1>4, <2>3, <3>1, <3>2, <3>3, SweepHearsOne
  <2> QED
    BY <1>4, <2>1, <2>2, <2>3
<1> QED
  BY <1>1, <1>3, <1>4 DEF SweepsEnd

LEMMA SweepsEndOnce ==
  ASSUME Typed, SweepsEnd
  PROVE  TerminalEndsTheSweep
<1> SUFFICES ASSUME At("firebase"), NEW sweep \in {"firestore", "escalate"}
             PROVE  Cardinality({x \in faults : x[1] = sweep /\ x[3] = "throttled"}) <= 1
  BY DEF TerminalEndsTheSweep
<1> DEFINE F == {x \in faults : x[1] = sweep /\ x[3] = "throttled"}
<1>1. \A x, y \in F : x = y
  BY DEF SweepsEnd
<1>2. CASE F = {}
  BY <1>2, FS_EmptySet
<1>3. CASE F # {}
  <2>1. PICK x : F = {x}
    BY <1>1, <1>3
  <2>2. Cardinality({x}) = 1
    BY FS_Singleton
  <2> HIDE DEF F
  <2> QED
    BY <2>1, <2>2 DEF F
<1> QED
  BY <1>2, <1>3

-----------------------------------------------------------------------------
\* Before the first stage, after the last one, and at the end.
Ends == Begin \/ VerifyIntent \/ UNCHANGED vars

LEMMA EndsDo ==
  Ends =>
    /\ UNCHANGED <<target, opts, held, left, named, asked, todo, session, faults>>
    /\ report \subseteq report'
    /\ \A y \in report' \ report :
         y[1] \in {"not-assessed", "intent-violation", "intent-unverified"}
    /\ \/ pc = "plan" /\ pc' = FirstStage
       \/ pc = "done" /\ pc' = "closed"
       \/ pc' = pc /\ report' = report
<1> SUFFICES ASSUME Ends
             PROVE  /\ UNCHANGED <<target, opts, held, left, named, asked, todo, session, faults>>
                    /\ report \subseteq report'
                    /\ \A y \in report' \ report :
                         y[1] \in {"not-assessed", "intent-violation", "intent-unverified"}
                    /\ \/ pc = "plan" /\ pc' = FirstStage
                       \/ pc = "done" /\ pc' = "closed"
                       \/ pc' = pc /\ report' = report
  OBVIOUS
<1> USE DEF scan, footprint, work, Say
<1>1. CASE Begin
  BY <1>1 DEF Begin, NotMeasured, NotAssessed, Found
<1>2. CASE VerifyIntent
  <2>1. \E list : report' = report \cup
          ({Violation(e) : e \in {x \in opts.intent : Outcome(x, list) = "violated"}}
             \cup {Unverified(e) : e \in {x \in opts.intent : Outcome(x, list) = "unverified"}})
    BY <1>2 DEF VerifyIntent
  <2>2. \A y \in report' \ report :
          \E e \in opts.intent : y \in {Violation(e), Unverified(e)}
    BY <2>1
  <2> QED
    BY <1>2, <2>1, <2>2 DEF VerifyIntent, Violation, Unverified, Found
<1>3. CASE UNCHANGED vars
  BY <1>3 DEF vars
<1> QED
  BY <1>1, <1>2, <1>3 DEF Ends

LEMMA KindsOf ==
  Typed => target.kind \in {"firebase", "neon", "pocketbase", "application"}
BY TargetsAssumption DEF Typed

LEMMA NextIs ==
  [Next]_vars => \/ Ends
                 \/ At("firebase") /\ FirebaseStep
                 \/ At("neon") /\ NeonStep
                 \/ At("pocketbase") /\ PocketBaseStep
                 \/ At("application") /\ RoutesStep
BY DEF Next, Step, Done, Ends, At

LEMMA ReadsFirstAtEnds == ReadsFirst /\ Typed /\ Ends => ReadsFirst'
<1> SUFFICES ASSUME ReadsFirst, Typed, Ends PROVE ReadsFirst'
  OBVIOUS
<1>1. /\ UNCHANGED <<target, held, left, asked, todo>> /\ report \subseteq report'
      /\ pc' \in {"plan", "firestore"} => pc \in {"plan", "firestore"}
  BY EndsDo
<1>2. \A x : WhereRead(x) => WhereRead(x)'
  BY <1>1, WhereReadStays
<1> QED
  BY <1>1, <1>2 DEF ReadsFirst, At

LEMMA SweepsEndAtEnds == SweepsEnd /\ Typed /\ Ends => SweepsEnd'
<1> SUFFICES ASSUME SweepsEnd, Typed, Ends PROVE SweepsEnd'
  OBVIOUS
<1>1. /\ UNCHANGED <<target, faults>>
      /\ pc' \in {"plan", "firestore"} => pc \in {"plan", "firestore"}
      /\ pc \in AfterEscalate => pc' \in AfterEscalate
  BY EndsDo DEF AfterEscalate
<1> QED
  BY <1>1 DEF SweepsEnd, At

-----------------------------------------------------------------------------
\* What is asked before there is an account is reported as readable, or it is not.
GainsFirebase ==
  At("firebase") =>
    /\ pc \in {"plan", "firestore"} => \A y \in report : y[1] # "member-read"
    /\ \A n \in asked : Admits(target.store[n].read, "anyone") => Reported("firestore-read", n)
    /\ \A n \in asked : Reported("member-read", n) => target.store[n].read = "member"

\* What escalationFindings says was read was not reported as readable before.
LEMMA EscalateSays ==
  ASSUME Typed, At("firebase"), Escalate, NEW y \in report' \ report
  PROVE  \E n \in Range(target.names) :
           /\ y = MemberRead(n)
           /\ ~Reported("firestore-read", n) /\ Admits(target.store[n].read, "member")
<1> DEFINE S == {m \in Range(target.names) : ~Reported("firestore-read", m)}
           names == IF session = "none" THEN <<>> ELSE Only(target.names, S)
<1>1. PICK f : report' = report \cup {MemberRead(m) : m \in Readable(names, f, "member")}
  BY DEF Escalate, Say
<1>2. names \in Seq(Range(target.names)) /\ Range(names) \subseteq S
  <2>1. /\ <<>> \in Seq(Range(target.names)) /\ Range(<<>>) = {}
        /\ Only(target.names, S) \in Seq(Range(target.names))
        /\ Range(Only(target.names, S)) \subseteq S
    <3>1. Range(<<>>) = {}
      BY DEF Range
    <3> HIDE DEF S
    <3> QED
      BY <3>1, FirebaseTarget, OnlyKeeps
  <2> HIDE DEF S
  <2>2. names = <<>> \/ names = Only(target.names, S)
    BY Zenon
  <2> QED
    BY <2>1, <2>2, Zenon
<1> HIDE DEF names, S
<1>3. PICK n \in Readable(names, f, "member") : y = MemberRead(n)
  BY <1>1
<1>4. n \in Range(names) /\ Admits(target.store[n].read, "member")
  BY <1>2, <1>3, HeardAreNames DEF Readable
<1> QED
  BY <1>2, <1>3, <1>4 DEF S

LEMMA GainsFirebaseKept ==
  ASSUME Typed, At("firebase"), GainsFirebase, FirebaseStep
  PROVE  GainsFirebase'
<1>1. /\ target' = target /\ report \subseteq report' /\ pc' \notin {"plan", "firestore"}
  BY FirebaseGrows, FirebaseFails DEF scan
<1>2. /\ \A n \in asked : Admits(target.store[n].read, "anyone") => Reported("firestore-read", n)
      /\ \A n \in asked : Reported("member-read", n) => target.store[n].read = "member"
  BY DEF GainsFirebase
<1>3. CASE Firestore
  <2>1. PICK f \in Failures(Range(Collections)) :
          /\ asked' = Heard(Collections, f)
          /\ report' = report \cup {FirestoreRead(n) : n \in Readable(Collections, f, "anyone")}
                         \cup {NotAssessed("firestore") : n \in Range(Collections)}
    BY <1>3, FirestoreDoes
  <2>2. \A n \in asked' : Admits(target.store[n].read, "anyone") => Reported("firestore-read", n)'
    BY <2>1 DEF Readable, FirestoreRead, Reported
  <2>3. \A y \in report : y[1] # "member-read"
    BY <1>3 DEF Firestore, GainsFirebase
  <2>4. \A y \in report' : y[1] # "member-read"
    BY <2>1, <2>3 DEF FirestoreRead, NotAssessed, Found
  <2>5. \A n : ~Reported("member-read", n)'
    BY <2>4 DEF Reported, Found
  <2> QED
    BY <1>1, <2>2, <2>5 DEF GainsFirebase
<1>4. CASE ~Firestore
  <2>1. asked' = asked
    BY <1>4, FirebaseGrows
  <2>2. \A n \in asked : Admits(target.store[n].read, "anyone") => Reported("firestore-read", n)'
    BY <1>1, <1>2 DEF Reported
  <2>3. ASSUME NEW n \in asked, Found("member-read", n) \in report' \ report
        PROVE  target.store[n].read = "member"
    <3>1. Escalate
      BY <2>3, FirebaseOrder DEF Found
    <3>2. PICK m : /\ Found("member-read", n) = MemberRead(m)
                   /\ ~Reported("firestore-read", m) /\ Admits(target.store[m].read, "member")
      BY <2>3, <3>1, EscalateSays
    <3>3. m = n
      BY <3>2 DEF Found, MemberRead
    <3> QED
      BY <1>2, <2>3, <3>2, <3>3 DEF Admits
  <2>4. \A n \in asked : Reported("member-read", n)' => target.store[n].read = "member"
    BY <1>2, <2>3 DEF Reported
  <2> QED
    BY <1>1, <2>1, <2>2, <2>4 DEF GainsFirebase
<1> QED
  BY <1>3, <1>4

LEMMA GainsFirebaseAtEnds == GainsFirebase /\ Ends => GainsFirebase'
<1> SUFFICES ASSUME GainsFirebase, Ends PROVE GainsFirebase'
  OBVIOUS
<1>1. /\ UNCHANGED <<target, asked>> /\ report \subseteq report'
      /\ pc' \in {"plan", "firestore"} => pc \in {"plan", "firestore"}
      /\ \A y \in report' \ report : y[1] # "member-read"
  BY EndsDo
<1>2. \A n : Reported("member-read", n)' => Reported("member-read", n)
  BY <1>1 DEF Reported, Found
<1>3. \A n : Reported("firestore-read", n) => Reported("firestore-read", n)'
  BY <1>1 DEF Reported, Found
<1> QED
  BY <1>1, <1>2, <1>3 DEF GainsFirebase, At
-----------------------------------------------------------------------------
LEMMA RangesJoin ==
  ASSUME NEW S, NEW T, NEW s \in Seq(S), NEW t \in Seq(T)
  PROVE  Range(s \o t) = Range(s) \cup Range(t)
<1>1. s \in Seq(S \cup T) /\ t \in Seq(S \cup T)
  BY SeqMonotonic
<1> QED
  BY <1>1, RangeConcatenation

\* What functionCandidates leaves out is left out by a budget, which never leaves
\* out what the operator named unless that alone is too much.
LEMMA LeftOutByTheBudget ==
  ASSUME NEW S, NEW supplied \in Seq(S), NEW H, NEW harvested \in Seq(H),
         NEW n \in Range(supplied) \cup Range(harvested),
         n \notin Range(FunctionCandidates(supplied, harvested))
  PROVE  /\ Dropped(supplied, harvested)
         /\ n \in Range(supplied) => Len(supplied) > FunctionCap
<1> DEFINE rest == Rest(supplied, harvested)
           room == FunctionCap - Len(supplied)
<1>1. rest \in Seq(H) /\ Range(rest) = Range(harvested) \ Range(supplied)
  <2>1. /\ Only(harvested, Range(harvested) \ Range(supplied)) \in Seq(H)
        /\ Range(Only(harvested, Range(harvested) \ Range(supplied)))
             = Range(harvested) \cap (Range(harvested) \ Range(supplied))
    BY OnlyKeeps
  <2> QED
    BY <2>1 DEF Rest
<1> HIDE DEF rest
<1>2. FunctionCap \in Nat /\ Len(supplied) \in Nat /\ Len(rest) \in Nat /\ room \in Int
  BY <1>1, FirebaseAssumption
<1>3. Dropped(supplied, harvested) <=> Len(rest) > room
  BY <1>2 DEF Dropped, rest
<1>4. CASE Len(supplied) >= FunctionCap
  <2>1. FunctionCandidates(supplied, harvested) = First(supplied, FunctionCap)
    BY <1>4 DEF FunctionCandidates
  <2>2. Range(First(supplied, FunctionCap))
          = {supplied[i] : i \in {j \in DOMAIN supplied : j <= FunctionCap}}
    BY <1>2, FirstKeeps
  <2>3. CASE Len(supplied) > FunctionCap
    BY <1>2, <1>3, <2>3
  <2>4. CASE Len(supplied) = FunctionCap
    <3>1. n \notin Range(supplied)
      <4>1. ASSUME NEW i \in DOMAIN supplied PROVE n # supplied[i]
        <5>1. i <= FunctionCap
          BY <2>4, <4>1
        <5> QED
          BY <2>1, <2>2, <5>1
      <4> QED
        BY <4>1 DEF Range
    <3>2. n \in Range(rest)
      BY <1>1, <3>1
    <3>3. Len(rest) > 0
      BY <1>1, <3>2 DEF Range
    <3> QED
      BY <1>2, <1>3, <2>4, <3>1, <3>3
  <2> QED
    BY <1>2, <1>4, <2>3, <2>4
<1>5. CASE Len(supplied) < FunctionCap /\ Len(rest) <= room
  <2>1. FunctionCandidates(supplied, harvested) = supplied \o rest
    BY <1>2, <1>5 DEF FunctionCandidates, rest
  <2>2. Range(supplied \o rest) = Range(supplied) \cup Range(rest)
    BY <1>1, RangesJoin
  <2> QED
    BY <1>1, <2>1, <2>2
<1>6. CASE Len(supplied) < FunctionCap /\ Len(rest) > room
  <2> DEFINE g == [i \in 1..room |-> rest[((i - 1) * Len(rest)) \div room + 1]]
  <2>1. FunctionCandidates(supplied, harvested) = supplied \o g
    BY <1>2, <1>6 DEF FunctionCandidates, rest
  <2>2. g \in Seq({g[i] : i \in 1..room})
    <3>1. room \in Nat
      BY <1>2, <1>6
    <3>2. g \in [1..room -> {g[i] : i \in 1..room}]
      OBVIOUS
    <3> HIDE DEF room, g
    <3> QED
      BY <3>1, <3>2
  <2> HIDE DEF g
  <2>3. Range(supplied \o g) = Range(supplied) \cup Range(g)
    BY <2>2, RangesJoin
  <2> QED
    BY <1>3, <1>6, <2>1, <2>3
<1> QED
  BY <1>2, <1>4, <1>5, <1>6

FunctionsTold ==
  At("firebase") /\ pc \in AfterFunctions /\ opts.invoke /\ ~Failed("functions") =>
    \A c \in DOMAIN target.functions :
      /\ c[1] \in {"default-region", target.region}
      /\ c[2] \in Range(opts.supplied \o target.harvested)
      => \/ Reported(target.functions[c], c[2])
         \/ /\ Reported("budget", "functions")
            /\ c[2] \in Range(opts.supplied) => Len(opts.supplied) > FunctionCap

\* Once it is told it stays told.
LEMMA FunctionsStayTold ==
  ASSUME FunctionsTold, UNCHANGED <<target, opts>>, report \subseteq report',
         faults \subseteq faults',
         pc' \in AfterFunctions => pc \in AfterFunctions
  PROVE  FunctionsTold'
<1>1. Failed("functions") => Failed("functions")'
  BY DEF Failed
<1>2. \A id, of : Reported(id, of) => Reported(id, of)'
  BY DEF Reported
<1> QED
  BY <1>1, <1>2 DEF FunctionsTold, At

LEMMA CloudFunctionsTell ==
  ASSUME Typed, At("firebase"), CloudFunctions
  PROVE  FunctionsTold'
<1>1. PICK f :
        LET answered == IF opts.invoke
                         THEN (DOMAIN target.functions \cap Calls) \ DOMAIN f ELSE {}
        IN  /\ Suffer(f)
            /\ Say({FunctionFound(c) : c \in answered}
                     \cup (IF answered = {} THEN {NotAssessed("functions")} ELSE {})
                     \cup (IF opts.invoke /\ Dropped(opts.supplied, target.harvested)
                             THEN {Found("budget", "functions")} ELSE {}))
  BY DEF CloudFunctions
<1>2. UNCHANGED <<target, opts>> /\ pc = "functions"
  BY DEF CloudFunctions, scan
<1>3. SUFFICES ASSUME opts.invoke, ~Failed("functions")', NEW c \in DOMAIN target.functions,
                      c[1] \in {"default-region", target.region},
                      c[2] \in Range(opts.supplied \o target.harvested)
               PROVE  \/ Reported(target.functions[c], c[2])'
                      \/ /\ Reported("budget", "functions")'
                         /\ c[2] \in Range(opts.supplied) => Len(opts.supplied) > FunctionCap
  BY <1>2 DEF FunctionsTold
<1>4. DOMAIN f = {}
  <2>1. Suffer(f)
    BY <1>1
  <2> QED
    <3>1. \A r \in DOMAIN f : <<pc, r, f[r]>> \in faults'
      BY <2>1 DEF Suffer
    <3>2. \A x \in faults' : x[1] # "functions"
      BY <1>3 DEF Failed
    <3> QED
      BY <1>2, <3>1, <3>2
<1>5. /\ \A d \in DOMAIN target.functions \cap Calls : FunctionFound(d) \in report'
      /\ Dropped(opts.supplied, target.harvested) => Found("budget", "functions") \in report'
  BY <1>1, <1>3, <1>4 DEF Say
<1>6. c[2] \in Range(opts.supplied) \cup Range(target.harvested) /\ c = <<c[1], c[2]>>
  <2>1. Range(opts.supplied \o target.harvested)
          = Range(opts.supplied) \cup Range(target.harvested)
    BY FirebaseTarget, RangesJoin
  <2> QED
    BY <1>3, <2>1, FirebaseTarget
<1>7. CASE c[2] \in Range(FunctionCandidates(opts.supplied, target.harvested))
  <2>1. c \in Calls
    BY <1>3, <1>6, <1>7 DEF Calls, Regions
  <2> QED
    BY <1>2, <1>5, <2>1 DEF FunctionFound, Reported
<1>8. CASE c[2] \notin Range(FunctionCandidates(opts.supplied, target.harvested))
  BY <1>5, <1>6, <1>8, FirebaseTarget, LeftOutByTheBudget DEF Reported
<1> QED
  BY <1>7, <1>8

-----------------------------------------------------------------------------
\* Under -no-residue nothing is in hand but an account that is to be removed.
KeepsNothing ==
  At("firebase") /\ opts.noResidue /\ target.removable /\ faults = {} =>
    /\ left = {}
    /\ held \subseteq {ProbeAccount, Visitor}
    /\ Visitor \in held => pc = "visitor"
    /\ ProbeAccount \in held => session = "fresh" /\ pc \in {"visitor", "escalate", "finish"}

\* A request that fails is remembered.
LEMMA NothingFailed ==
  ASSUME NEW f, Suffer(f), faults' = {}
  PROVE  faults = {} /\ Fine(f) /\ \A r : ~IsLost(f, r)
BY DEF Suffer, Fine, IsLost

\* A step that creates and removes nothing.
LEMMA QuietKeepsNothing ==
  ASSUME KeepsNothing, Quiet,
         \/ pc' = pc /\ session' = session
         \/ pc \notin {"visitor", "escalate", "finish"}
         \/ pc = "escalate" /\ pc' = "finish" /\ session' = session
         \/ pc = "finish" /\ session # "fresh"
  PROVE  KeepsNothing'
BY DEF KeepsNothing, Quiet, At

LEMMA KeepsNothingKept ==
  ASSUME Typed, At("firebase"), KeepsNothing, FirebaseStep
  PROVE  KeepsNothing'
<1>1. UNCHANGED <<target, opts>>
  BY FirebaseFails DEF scan
<1>2. SUFFICES ASSUME opts.noResidue, target.removable, faults' = {},
                      CreateProbe \/ RemoveProbe \/ SignIn \/ AskVisitor
                        \/ RemoveVisitor \/ Finish
               PROVE  KeepsNothing'
  <2>1. CASE Firestore \/ RealtimeDatabase \/ NoWrites \/ WritesDone \/ NoAccounts
    BY <2>1, FirebaseQuiet, QuietKeepsNothing
       DEF Firestore, RealtimeDatabase, NoWrites, WritesDone, NoAccounts
  <2>2. CASE Storage \/ CloudFunctions \/ RemoteConfig
    BY <2>2, FirebaseQuiet, QuietKeepsNothing DEF Storage, CloudFunctions, RemoteConfig
  <2>3. CASE Escalate
    BY <2>3, FirebaseQuiet, QuietKeepsNothing DEF Escalate, work
  <2>4. CASE KeepAccount
    BY <2>4, FirebaseQuiet, QuietKeepsNothing DEF KeepAccount
  <2> QED
    BY <1>1, <2>1, <2>2, <2>3, <2>4 DEF FirebaseStep, KeepsNothing
<1>3. Visitor # ProbeAccount
  BY DEF Visitor, ProbeAccount
<1>4. faults = {} => /\ left = {} /\ held \subseteq {ProbeAccount, Visitor}
                     /\ Visitor \in held => pc = "visitor"
                     /\ ProbeAccount \in held =>
                          session = "fresh" /\ pc \in {"visitor", "escalate", "finish"}
  BY <1>2 DEF KeepsNothing
<1>5. ~CreateProbe
  BY <1>2 DEF CreateProbe, MayWrite
<1>6. CASE RemoveProbe
  <2>1. PICK f : Suffer(f)
    BY <1>6 DEF RemoveProbe
  <2>2. pc = "write" /\ held = {Head(todo)}
    BY <1>6 DEF RemoveProbe
  <2> QED
    BY <1>2, <1>4, <2>1, <2>2, NothingFailed
<1>7. CASE SignIn
  <2>1. PICK f : /\ Suffer(f)
                 /\ \/ /\ session' = IF target.account \/ ~opts.noResidue
                                       THEN "kept" ELSE "fresh"
                       /\ IF target.account THEN NothingCreated ELSE Creates(ProbeAccount)
                    \/ /\ ~IsLost(f, "signUp") => NothingCreated
    BY <1>7 DEF SignIn
  <2>2. pc = "auth" /\ pc' = "visitor"
    BY <1>7 DEF SignIn
  <2>3. faults = {} /\ ~IsLost(f, "signUp")
    BY <1>2, <2>1, NothingFailed
  <2>4. held = {} /\ left = {}
    BY <1>4, <2>2, <2>3
  <2>5. CASE NothingCreated
    BY <2>4, <2>5 DEF KeepsNothing, NothingCreated, footprint
  <2>6. CASE ~target.account /\ Creates(ProbeAccount) /\ session' = "fresh"
    BY <1>3, <2>2, <2>4, <2>6 DEF KeepsNothing, Creates
  <2> QED
    BY <1>2, <2>1, <2>3, <2>5, <2>6
<1>8. CASE AskVisitor
  <2>1. PICK f : /\ Suffer(f)
                 /\ \/ Creates(Visitor) /\ pc' = pc
                    \/ pc' = "escalate" /\ (~IsLost(f, "anonymous") => NothingCreated)
    BY <1>8 DEF AskVisitor
  <2>2. pc = "visitor" /\ Visitor \notin held /\ session' = session
    BY <1>8 DEF AskVisitor, work
  <2>3. faults = {} /\ ~IsLost(f, "anonymous")
    BY <1>2, <2>1, NothingFailed
  <2>4. CASE Creates(Visitor) /\ pc' = pc
    BY <1>3, <1>4, <2>2, <2>3, <2>4 DEF KeepsNothing, Creates
  <2>5. CASE pc' = "escalate" /\ NothingCreated
    BY <1>4, <2>2, <2>3, <2>5 DEF KeepsNothing, NothingCreated, footprint
  <2> QED
    BY <2>1, <2>3, <2>4, <2>5
<1>9. CASE RemoveVisitor
  <2>1. PICK f : Suffer(f) /\ (Fine(f) => Removes(Visitor))
    BY <1>2, <1>9 DEF RemoveVisitor, Discards
  <2>2. pc = "visitor" /\ pc' = "escalate" /\ session' = session
    BY <1>9 DEF RemoveVisitor, Discards, work
  <2>3. faults = {} /\ Removes(Visitor)
    BY <1>2, <2>1, NothingFailed
  <2> QED
    BY <1>3, <1>4, <2>2, <2>3 DEF KeepsNothing, Removes
<1>10. CASE Finish
  <2>1. PICK f : Suffer(f) /\ (Fine(f) => Removes(ProbeAccount))
    BY <1>2, <1>10 DEF Finish, Discards
  <2>2. pc = "finish" /\ pc' = "done" /\ session' = session
    BY <1>10 DEF Finish, Discards, work
  <2>3. faults = {} /\ Removes(ProbeAccount)
    BY <1>2, <2>1, NothingFailed
  <2> QED
    BY <1>3, <1>4, <2>2, <2>3 DEF KeepsNothing, Removes
<1> QED
  BY <1>2, <1>5, <1>6, <1>7, <1>8, <1>9, <1>10

\* Where the operator wants no residue a Neon scan and the routes create nothing.
CreatesNothing ==
  (At("neon") \/ At("application")) /\ opts.noResidue => held = {} /\ left = {}

LEMMA CreatesNothingKept ==
  ASSUME CreatesNothing,
         \/ At("neon") /\ NeonStep
         \/ At("application") /\ RoutesStep
  PROVE  CreatesNothing'
<1>1. CASE At("neon") /\ NeonStep
  <2>1. UNCHANGED <<target, opts>>
    BY <1>1, NeonFails DEF scan
  <2>2. CASE Enumeration \/ Reach \/ Compare \/ NoInserts
    BY <2>1, <2>2, NeonQuiet DEF Quiet, CreatesNothing, At
  <2>3. CASE Insert \/ ReportInserts
    BY <2>1, <2>3 DEF Insert, ReportInserts, Consent, CreatesNothing, At
  <2> QED
    BY <1>1, <2>2, <2>3 DEF NeonStep
<1>2. CASE At("application") /\ RoutesStep
  <2>1. UNCHANGED <<target, opts>>
    BY <1>2, RoutesFails DEF scan
  <2>2. CASE Inventory \/ Bypass \/ Identities \/ Families
    BY <2>1, <2>2, RoutesQuiet DEF Quiet, CreatesNothing, At
  <2>3. CASE Probe
    <3>1. opts.noResidue => left' = left
      BY <2>3 DEF Probe, AllowPOST
    <3> QED
      BY <2>1, <2>3, <3>1 DEF Probe, CreatesNothing, At
  <2> QED
    BY <1>2, <2>2, <2>3 DEF RoutesStep
<1> QED
  BY <1>1, <1>2

LEMMA NothingUnwanted ==
  ASSUME Typed, KeepsNothing, CreatesNothing
  PROVE  NothingStaysUnwanted
BY KindsOf DEF KeepsNothing, CreatesNothing, NothingStaysUnwanted, At, Visitor, ProbeAccount

LEMMA FootprintAtEnds ==
  ASSUME Ends, KeepsNothing, CreatesNothing, FunctionsTold
  PROVE  KeepsNothing' /\ CreatesNothing' /\ FunctionsTold'
<1>1. /\ UNCHANGED <<target, opts, held, left, session, faults>> /\ report \subseteq report'
      /\ pc' = pc \/ pc \in {"plan", "done"}
      /\ \/ pc' = pc
         \/ pc = "plan" /\ pc' = FirstStage
         \/ pc = "done" /\ pc' = "closed"
  BY EndsDo
<1>2. KeepsNothing' /\ CreatesNothing'
  <2>1. CASE pc' = pc
    BY <1>1, <2>1, Zenon DEF KeepsNothing, CreatesNothing, At
  <2>2. CASE pc \in {"plan", "done"}
    <3>1. pc \notin {"visitor", "escalate", "finish"} /\ pc # "visitor"
      BY <2>2
    <3>2. At("firebase") /\ opts.noResidue /\ target.removable /\ faults = {}
            => left = {} /\ held = {}
      BY <3>1 DEF KeepsNothing
    <3> QED
      BY <1>1, <3>2 DEF KeepsNothing, CreatesNothing, At
  <2> QED
    BY <1>1, <2>1, <2>2
<1>3. At("firebase") /\ pc' \in AfterFunctions => pc \in AfterFunctions
  <2>1. At("firebase") => FirstStage = "firestore"
    BY DEF FirstStage, At
  <2> QED
    BY <1>1, <2>1, Zenon DEF AfterFunctions
<1>4. CASE At("firebase")
  BY <1>1, <1>2, <1>3, <1>4, FunctionsStayTold
<1>5. CASE ~At("firebase")
  <2>1. ~At("firebase")'
    BY <1>1, <1>5 DEF At
  <2> QED
    BY <1>2, <2>1 DEF FunctionsTold
<1> QED
  BY <1>2, <1>4, <1>5

-----------------------------------------------------------------------------
(***************************************************************************)
(* What the scan measured is compared with what the project intends: a     *)
(* finite number of facts, whichever workload measured them.               *)
(***************************************************************************)
Names == Range(Collections) \cup Range(target.names) \cup {Root}
Things == {Document(n) : n \in Names} \cup {Key(n) : n \in Names}

MeasuresNames ==
  At("firebase") =>
    /\ Range(todo) \subseteq Things
    /\ \A y \in report :
         /\ y[1] \in {"firestore-read", "rtdb-read", "member-read"} => y[2] \in Names
         /\ y[1] = "write" => y[2] \in Things

LEMMA MeasuresNamesKept ==
  ASSUME Typed, At("firebase"), ReadsFirst, MeasuresNames, FirebaseStep
  PROVE  MeasuresNames'
<1>1. UNCHANGED <<target, opts>>
  BY FirebaseFails DEF scan
<1>2. Names' = Names /\ Things' = Things
  BY <1>1 DEF Names, Things, Collections
<1>3. todo \in Seq(Range(todo)) /\ Range(todo) \subseteq Things
  BY DEF ReadsFirst, MeasuresNames
<1>4. SUFFICES /\ Range(todo') \subseteq Things
               /\ \A y \in report' \ report :
                    /\ y[1] \in {"firestore-read", "rtdb-read", "member-read"} => y[2] \in Names
                    /\ y[1] = "write" => y[2] \in Things
  BY <1>1, <1>2 DEF MeasuresNames, At
<1>5. CASE Firestore
  <2>1. PICK f \in Failures(Range(Collections)) :
          /\ todo' \in Seq({Document(n) : n \in Readable(Collections, f, "anyone")})
          /\ report' = report \cup {FirestoreRead(n) : n \in Readable(Collections, f, "anyone")}
                         \cup {NotAssessed("firestore") : n \in Range(Collections)}
    BY <1>5, FirestoreDoes
  <2>2. Readable(Collections, f, "anyone") \subseteq Names
    BY CollectionsAreNames, HeardAreNames DEF Readable, Names
  <2>3. Range(todo') \subseteq Things
    BY <2>1, <2>2, RangeOfSeq DEF Things
  <2>4. \A y \in report' \ report :
          \/ \E n \in Names : y = FirestoreRead(n)
          \/ y = NotAssessed("firestore")
    BY <2>1, <2>2
  <2> QED
    BY <2>3, <2>4 DEF FirestoreRead, NotAssessed, Found
<1>6. CASE RealtimeDatabase
  <2>1. PICK N : /\ N \subseteq Range(target.names)
                 /\ todo' \in Seq(Range(todo) \cup {Key(n) : n \in N})
                 /\ report' \subseteq report \cup {RtdbRead(n) : n \in N}
                                \cup {RtdbRead(Root), NotAssessed("rtdb")}
    BY <1>3, <1>6, RealtimeDatabaseDoes
  <2>2. N \subseteq Names /\ Root \in Names
    BY <2>1 DEF Names
  <2>3. Range(todo') \subseteq Things
    BY <1>3, <2>1, <2>2, RangeOfSeq DEF Things
  <2>4. \A y \in report' \ report :
          \/ \E n \in Names : y = RtdbRead(n)
          \/ y = NotAssessed("rtdb")
    BY <2>1, <2>2
  <2> QED
    BY <2>3, <2>4 DEF RtdbRead, NotAssessed, Found
<1>7. CASE CreateProbe \/ RemoveProbe
  <2>1. todo # <<>> /\ todo' \in {todo, Tail(todo)}
    BY <1>7 DEF CreateProbe, RemoveProbe, OneTry
  <2>2. Range(todo') \subseteq Things /\ Head(todo) \in Things
    BY <1>3, <2>1, TailKeeps
  <2>3. report' \subseteq report \cup {WriteAccepted(Head(todo))} \cup Residue(Head(todo))
    BY <1>7 DEF CreateProbe, RemoveProbe, Say
  <2>4. \A y \in report' \ report :
          y \in {WriteAccepted(Head(todo)), Found("left-behind", Head(todo))}
    BY <2>3 DEF Residue
  <2> QED
    BY <2>2, <2>4 DEF WriteAccepted, Found
<1>8. CASE Escalate
  <2>1. todo' = todo
    BY <1>8 DEF Escalate, work
  <2>2. \A y \in report' \ report : \E n \in Names : y = MemberRead(n)
    BY <1>8, EscalateSays DEF Names
  <2> QED
    BY <1>3, <2>1, <2>2 DEF MemberRead, Found
<1>9. CASE ~(Firestore \/ RealtimeDatabase \/ CreateProbe \/ RemoveProbe \/ Escalate)
  BY <1>3, <1>9, FirebaseGrows, FirebaseOrder DEF Measurements
<1> QED
  BY <1>5, <1>6, <1>7, <1>8, <1>9

LEMMA MeasuresNamesAtEnds == MeasuresNames /\ Ends => MeasuresNames'
<1> SUFFICES ASSUME MeasuresNames, Ends PROVE MeasuresNames'
  OBVIOUS
<1>1. /\ UNCHANGED <<target, opts, todo>>
      /\ \A y \in report' \ report :
           y[1] \notin {"firestore-read", "rtdb-read", "member-read", "write"}
  BY EndsDo
<1>2. Names' = Names /\ Things' = Things
  BY <1>1 DEF Names, Things, Collections
<1> QED
  BY <1>1, <1>2 DEF MeasuresNames, At

LEMMA ImageIsFinite ==
  ASSUME NEW S, IsFiniteSet(S), NEW h, h = [x \in S |-> h[x]]
  PROVE  IsFiniteSet(Range(h))
<1>1. h \in Surjection(S, Range(h))
  BY DEF Surjection, Range
<1> QED
  BY <1>1, FS_Surjection

LEMMA ListIsFinite ==
  ASSUME NEW T, NEW s \in Seq(T)
  PROVE  IsFiniteSet(Range(s))
<1>1. IsFiniteSet(1..Len(s))
  BY FS_Interval
<1>2. s \in [1..Len(s) -> T]
  OBVIOUS
<1>3. s = [i \in 1..Len(s) |-> s[i]]
  BY <1>2
<1> QED
  BY <1>1, <1>3, ImageIsFinite

LEMMA NamesAreFinite ==
  ASSUME Typed, At("firebase")
  PROVE  IsFiniteSet(Names) /\ IsFiniteSet(Things)
<1>1. IsFiniteSet(Range(Collections)) /\ IsFiniteSet(Range(target.names)) /\ IsFiniteSet({Root})
  <2>1. IsFiniteSet(Range(Collections))
    BY ListIsFinite, CollectionsAreNames
  <2>2. IsFiniteSet(Range(target.names))
    BY ListIsFinite, FirebaseTarget
  <2>3. IsFiniteSet({Root})
    BY FS_Singleton
  <2> QED
    BY <2>1, <2>2, <2>3
<1>2. IsFiniteSet(Names)
  BY <1>1, FS_Union DEF Names
<1> DEFINE d == [n \in Names |-> Document(n)]
           k == [n \in Names |-> Key(n)]
<1>3. Things = Range(d) \cup Range(k)
  BY DEF Things, Range
<1>4. d = [n \in Names |-> d[n]] /\ k = [n \in Names |-> k[n]]
  OBVIOUS
<1> HIDE DEF d, k
<1>5. IsFiniteSet(Range(d)) /\ IsFiniteSet(Range(k))
  BY <1>2, <1>4, ImageIsFinite
<1> QED
  BY <1>2, <1>3, <1>5, FS_Union

\* The routes that were asked are a list.
RoutesAreListed == At("application") => todo \in Seq(Range(todo))

LEMMA FactsAreFinite ==
  ASSUME Typed, MeasuresNames, RoutesAreListed
  PROVE  IsFiniteSet(Facts)
<1>1. CASE At("firebase")
  <2> DEFINE documents == [n \in Names |->
               Fact(<<"document", n>>, "read", "anonymous", "unknown", TRUE)]
             keys == [n \in Names |->
               Fact(<<"key", n>>, "read", "anonymous", "unknown", TRUE)]
             members == [n \in Names |->
               Fact(<<"document", n>>, "read", "authenticated", "unknown", TRUE)]
             writes == [x \in Things |-> Fact(x, "write", "anonymous", "unknown", TRUE)]
  <2>1. \A y \in report :
          /\ y[1] \in {"firestore-read", "rtdb-read", "member-read"} => y[2] \in Names
          /\ y[1] = "write" => y[2] \in Things
    BY <1>1 DEF MeasuresNames
  <2>2. Readings("firestore-read", "document", "anonymous") \subseteq Range(documents)
    BY <2>1 DEF Readings, Range
  <2>3. Readings("rtdb-read", "key", "anonymous") \subseteq Range(keys)
    BY <2>1 DEF Readings, Range
  <2>4. Readings("member-read", "document", "authenticated") \subseteq Range(members)
    BY <2>1 DEF Readings, Range
  <2>5. {Fact(x[2], "write", "anonymous", "unknown", TRUE) : x \in {y \in report : y[1] = "write"}}
          \subseteq Range(writes)
    BY <2>1 DEF Range
  <2>6. /\ documents = [n \in Names |-> documents[n]] /\ keys = [n \in Names |-> keys[n]]
        /\ members = [n \in Names |-> members[n]] /\ writes = [x \in Things |-> writes[x]]
    OBVIOUS
  <2> HIDE DEF documents, keys, members, writes
  <2>7. /\ IsFiniteSet(Range(documents)) /\ IsFiniteSet(Range(keys))
        /\ IsFiniteSet(Range(members)) /\ IsFiniteSet(Range(writes))
    BY <1>1, <2>6, NamesAreFinite, ImageIsFinite
  <2>8. IsFiniteSet(Range(documents) \cup Range(keys) \cup Range(members) \cup Range(writes))
    BY <2>7, FS_Union
  <2>9. FirebaseAccess \subseteq
          Range(documents) \cup Range(keys) \cup Range(members) \cup Range(writes)
    BY <2>2, <2>3, <2>4, <2>5 DEF FirebaseAccess
  <2>10. Facts = FirebaseAccess
    BY <1>1 DEF Facts, At
  <2> QED
    BY <2>8, <2>9, <2>10, FS_Subset
<1>2. CASE At("application")
  <2> DEFINE h == [r \in Range(todo) |->
               Fact(PathOf(r), "read", "anonymous", "unknown", Got(r, "GET").code = 200)]
  <2>1. RouteAccess \subseteq Range(h)
    BY DEF RouteAccess, Range
  <2>2. h = [r \in Range(todo) |-> h[r]]
    OBVIOUS
  <2> HIDE DEF h
  <2>3. IsFiniteSet(Range(todo))
    BY <1>2, ListIsFinite DEF RoutesAreListed
  <2>4. IsFiniteSet(Range(h))
    BY <2>2, <2>3, ImageIsFinite
  <2>5. Facts = RouteAccess
    BY <1>2 DEF Facts, At
  <2> QED
    BY <2>1, <2>4, <2>5, FS_Subset
<1>3. CASE ~At("firebase") /\ ~At("application")
  <2>1. Facts = {}
    BY <1>3 DEF Facts, At
  <2> QED
    BY <2>1, FS_EmptySet
<1> QED
  BY <1>1, <1>2, <1>3

LEMMA FactsAreMeasured ==
  Facts \subseteq Measured({x.of : x \in Facts}, {x.operation : x \in Facts},
                           {x.subject : x \in Facts})
<1>1. \A x \in Facts : \E of, operation, subject : \E allowed \in BOOLEAN :
        x = Fact(of, operation, subject, "unknown", allowed)
  <2>1. \A x \in FirebaseAccess : \E of, operation, subject :
          x = Fact(of, operation, subject, "unknown", TRUE)
    <3> SUFFICES ASSUME NEW x \in FirebaseAccess
                 PROVE  \E of, operation, subject :
                          x = Fact(of, operation, subject, "unknown", TRUE)
      OBVIOUS
    <3>1. ASSUME NEW id, NEW service, NEW subject, x \in Readings(id, service, subject)
          PROVE  \E of, operation, who : x = Fact(of, operation, who, "unknown", TRUE)
      <4>1. PICK z : x = Fact(<<service, z[2]>>, "read", subject, "unknown", TRUE)
        BY <3>1 DEF Readings
      <4> QED
        BY <4>1, Zenon
    <3>2. ASSUME x \in {Fact(z[2], "write", "anonymous", "unknown", TRUE) :
                          z \in {y \in report : y[1] = "write"}}
          PROVE  \E of, operation, who : x = Fact(of, operation, who, "unknown", TRUE)
      <4>1. PICK z : x = Fact(z[2], "write", "anonymous", "unknown", TRUE)
        BY <3>2, Zenon
      <4> QED
        BY <4>1, Zenon
    <3> QED
      BY <3>1, <3>2, Zenon DEF FirebaseAccess
  <2>2. \A x \in RouteAccess : \E of : \E allowed \in BOOLEAN :
          x = Fact(of, "read", "anonymous", "unknown", allowed)
    <3> SUFFICES ASSUME NEW x \in RouteAccess
                 PROVE  \E of : \E allowed \in BOOLEAN :
                          x = Fact(of, "read", "anonymous", "unknown", allowed)
      OBVIOUS
    <3>1. PICK r : x = Fact(PathOf(r), "read", "anonymous", "unknown", Got(r, "GET").code = 200)
      BY DEF RouteAccess
    <3> DEFINE allowed == Got(r, "GET").code = 200
    <3>2. allowed \in BOOLEAN
      OBVIOUS
    <3>3. x = Fact(PathOf(r), "read", "anonymous", "unknown", allowed)
      BY <3>1
    <3> HIDE DEF allowed
    <3> QED
      BY <3>2, <3>3
  <2>3. Facts \in {FirebaseAccess, RouteAccess, {}}
    BY DEF Facts
  <2> SUFFICES ASSUME NEW x \in Facts
               PROVE  \E of, operation, subject : \E allowed \in BOOLEAN :
                        x = Fact(of, operation, subject, "unknown", allowed)
    OBVIOUS
  <2>4. CASE x \in FirebaseAccess
    <3>1. PICK of, operation, subject : x = Fact(of, operation, subject, "unknown", TRUE)
      BY <2>1, <2>4
    <3> QED
      BY <3>1, Zenon
  <2>5. CASE x \in RouteAccess
    BY <2>2, <2>5, Zenon
  <2> QED
    BY <2>3, <2>4, <2>5
<1> SUFFICES ASSUME NEW x \in Facts
             PROVE  x \in Measured({y.of : y \in Facts}, {y.operation : y \in Facts},
                                   {y.subject : y \in Facts})
  OBVIOUS
<1>2. PICK of, operation, subject : \E allowed \in BOOLEAN :
        x = Fact(of, operation, subject, "unknown", allowed)
  BY <1>1
<1>3. PICK allowed \in BOOLEAN : x = Fact(of, operation, subject, "unknown", allowed)
  BY <1>2
<1>4. /\ x = [of |-> of, operation |-> operation, subject |-> subject,
              scope |-> "unknown", allowed |-> allowed]
      /\ of = x.of /\ operation = x.operation /\ subject = x.subject
  BY <1>3 DEF Fact
<1> QED
  BY <1>4 DEF Measured, Scopes

\* The comparison does not change what it compares.
LEMMA FactsStay ==
  ASSUME UNCHANGED <<target, opts, todo, faults>>,
         \A y : y[1] \in {"firestore-read", "rtdb-read", "member-read", "write"}
                  => (y \in report' <=> y \in report)
  PROVE  Facts' = Facts
<1>1. FirebaseAccess' = FirebaseAccess
  <2>1. \A id : id \in {"firestore-read", "rtdb-read", "member-read", "write"} =>
          {y \in report' : y[1] = id} = {y \in report : y[1] = id}
    OBVIOUS
  <2> QED
    BY <2>1 DEF FirebaseAccess, Readings
<1>2. \A r : Got(r, "GET")' = Got(r, "GET")
  <2>1. \A code, body : Answer(code, body)' = Answer(code, body)
    BY DEF Answer, Snippet
  <2>2. NoAnswer' = NoAnswer /\ NotNow' = NotNow
    BY <2>1 DEF NoAnswer, NotNow
  <2>3. \A r : Failure(r, "GET")' = Failure(r, "GET")
    BY DEF Failure
  <2>4. \A r : Served(r, "anyone")' = Served(r, "anyone")
    <3>1. target' = target
      OBVIOUS
    <3> QED
      BY <3>1 DEF Served, Missing, Answer, Snippet
  <2> QED
    BY <2>2, <2>3, <2>4 DEF Got
<1>3. RouteAccess' = RouteAccess
  BY <1>2 DEF RouteAccess
<1> QED
  BY <1>1, <1>3 DEF Facts

LEMMA IntentIsVerified ==
  ASSUME Typed, MeasuresNames, RoutesAreListed, VerifyIntent
  PROVE  DeniedWhereverAsked'
<1>1. /\ UNCHANGED <<target, opts, todo, faults>>
      /\ report \subseteq report'
      /\ \A y \in report' \ report :
           y[1] \in {"not-assessed", "intent-violation", "intent-unverified"}
  BY EndsDo DEF Ends
<1>2. Facts' = Facts
  BY <1>1, FactsStay
<1> DEFINE F == {x \in Facts : \E e \in opts.intent : About(x, e)}
           A == {x.of : x \in Facts}
           B == {x.operation : x \in Facts}
           C == {x.subject : x \in Facts}
<1>3. PICK list \in Orders(F) :
        Say({Violation(e) : e \in {x \in opts.intent : Outcome(x, list) = "violated"}}
              \cup {Unverified(e) : e \in {x \in opts.intent : Outcome(x, list) = "unverified"}})
  BY DEF VerifyIntent
<1>4. F \in SUBSET Measured(A, B, C)
  BY FactsAreMeasured
<1>5. IsFiniteSet(F)
  BY FactsAreFinite, FS_Subset
<1>6. SUFFICES ASSUME NEW e \in opts.intent,
                      ~Reported("intent-violation", e)', ~Reported("intent-unverified", e)'
               PROVE  /\ \E x \in Facts : About(x, e)
                      /\ ~e.allowed => \A x \in Facts : About(x, e) => ~x.allowed
  BY <1>1, <1>2 DEF DeniedWhereverAsked
<1>7. Outcome(e, list) \notin {"unverified", "violated"}
  BY <1>3, <1>6 DEF Say, Violation, Unverified, Reported
<1>8. e.allowed \in BOOLEAN
  BY OptionsAssumption DEF Typed, Expectation
<1> HIDE DEF F, A, B, C
<1>9. /\ \E x \in F : About(x, e)
      /\ ~e.allowed => \A x \in F : About(x, e) => ~x.allowed
  BY <1>3, <1>4, <1>5, <1>7, <1>8, DenialIsWhole
<1> QED
  BY <1>9 DEF F

-----------------------------------------------------------------------------
(***************************************************************************)
(* Neon: the reads come before the write, and what is not known is said.   *)
(***************************************************************************)
Early == {"plan", "enumerate", "reach", "compare"}
Compared == {"insert", "done", "closed"}

NeonTold ==
  At("neon") =>
    /\ opts.bearer \/ pc \in {"plan", "reach", "done", "closed"}
    /\ pc \in Early \cup Compared
    /\ pc \in Early => held = {} /\ left = {}
    /\ pc \in {"plan", "enumerate", "reach"} => ~Reported("not-discriminating", "relations")
    /\ opts.bearer /\ pc \notin {"plan", "enumerate"} =>
         /\ asked \subseteq Range(target.order)
         /\ target.seeds \subseteq asked
         /\ Token = "accepted" /\ faults = {} => target.hints \subseteq asked
    /\ \A n \in DOMAIN target.tables : Reported("member-read", n) => Table(n).read = "rows"
    /\ pc \in Compared /\ Token = "accepted" /\ faults = {} =>
         \A n \in asked : Exists(n) /\ Table(n).read = "rows" => Reported("member-read", n)
    /\ pc \in Compared /\ Token = "refused" => Declared("escalation")
    /\ pc \in {"compare"} \cup Compared /\ ~Failed("reach") =>
         (Reported("not-discriminating", "relations") <=> Token # "accepted")

LEMMA NeonTarget ==
  ASSUME Typed, At("neon")
  PROVE  /\ target.token \in {"accepted", "refused"}
         /\ target.order \in Seq(Range(target.order))
         /\ target.seeds # {} /\ target.seeds \subseteq Range(target.order)
         /\ target.hints \subseteq Range(target.order)
         /\ \A n \in DOMAIN target.tables :
              target.tables[n].read \in {"rows", "empty", "denied"}
         /\ Control \notin DOMAIN target.tables
BY TargetsAssumption DEF Typed, At, IsList

LEMMA SortedKeeps ==
  ASSUME Typed, At("neon"), NEW names, names \subseteq Range(target.order)
  PROVE  Sorted(names) \in Seq(Range(target.order)) /\ Range(Sorted(names)) = names
<1>1. /\ Only(target.order, names) \in Seq(Range(target.order))
      /\ Range(Only(target.order, names)) = Range(target.order) \cap names
  BY NeonTarget, OnlyKeeps
<1> QED
  BY <1>1 DEF Sorted

LEMMA EnumerationTells ==
  ASSUME Typed, At("neon"), NeonTold, Enumeration
  PROVE  NeonTold'
<1>1. PICK f \in One("hints") :
        LET hinted == IF Token = "accepted" /\ Fine(f) THEN target.hints ELSE {}
            names  == Handed(target.seeds, hinted)
        IN  /\ Suffer(f)
            /\ asked' = names
            /\ Say(IF hinted = {} THEN {NotAssessed("relations")}
                   ELSE {Found("relation", n) : n \in hinted})
  BY DEF Enumeration
<1>2. /\ UNCHANGED <<target, opts, held, left>> /\ pc = "enumerate" /\ pc' = "reach"
  BY DEF Enumeration, scan, footprint, StageAfter
<1>3. opts.bearer
  BY <1>2 DEF NeonTold
<1>4. /\ target.seeds \subseteq asked' /\ asked' \subseteq target.seeds \cup target.hints
      /\ Token = "accepted" /\ Fine(f) => target.hints \subseteq asked'
  BY <1>1 DEF Handed
<1>5. faults' = {} => Fine(f)
  BY <1>1, NothingFailed
<1>6. \A y \in report' \ report : y[1] \in {"not-assessed", "relation"}
  BY <1>1 DEF Say, NotAssessed, Found
<1>7. \A n : /\ Reported("member-read", n)' => Reported("member-read", n)
             /\ Reported("not-discriminating", n)' => Reported("not-discriminating", n)
  BY <1>6 DEF Reported, Found
<1>8. Token' = Token
  BY <1>2 DEF Token
<1> QED
  BY <1>2, <1>3, <1>4, <1>5, <1>7, <1>8, NeonTarget
     DEF NeonTold, Early, Compared, Table, At

LEMMA RelationsKeep ==
  ASSUME Typed, At("neon"), NeonTold, pc \in {"reach", "compare"}
  PROVE  \E S : /\ Relations \in Seq(S)
                /\ Range(Relations) = IF opts.bearer THEN asked ELSE target.seeds
BY NeonTarget, SortedKeeps DEF Relations, NeonTold

\* Without a failure the stage tells a token that is accepted from one that is not.
LEMMA ReachSays ==
  ASSUME Typed, At("neon"), NeonTold, Reach, ~Failed("reach")'
  PROVE  Reported("not-discriminating", "relations")' <=> Token # "accepted"
<1> DEFINE sample == Range(First(Relations, ReachSample))
<1>1. PICK f : /\ Suffer(f)
               /\ Say(IF Discriminating(Status(Control, f), {Status(n, f) : n \in sample})
                        THEN {} ELSE {Blind})
  BY DEF Reach
<1>2. pc = "reach"
  BY DEF Reach
<1>3. DOMAIN f = {}
  <2>1. \A r \in DOMAIN f : <<pc, r, f[r]>> \in faults'
    BY <1>1 DEF Suffer
  <2>2. \A x \in faults' : x[1] # "reach"
    BY DEF Failed
  <2> QED
    BY <1>2, <2>1, <2>2
<1>4. ~Reported("not-discriminating", "relations")
  BY <1>2 DEF NeonTold
<1>5. Reported("not-discriminating", "relations")' <=>
        ~Discriminating(Status(Control, f), {Status(n, f) : n \in sample})
  BY <1>1, <1>4 DEF Say, Reported, Blind, Found
<1>6. Token \in {"none", "accepted", "refused"}
  BY NeonTarget DEF Token
<1>7. CASE Token = "accepted"
  BY <1>3, <1>5, <1>7, NeonTarget DEF Status, Discriminating, Exists
<1>8. CASE Token = "none"
  BY <1>3, <1>5, <1>8 DEF Status, Discriminating
<1>9. CASE Token = "refused"
  BY <1>3, <1>5, <1>9 DEF Status, Discriminating
<1> QED
  BY <1>6, <1>7, <1>8, <1>9

LEMMA ReachTells ==
  ASSUME Typed, At("neon"), NeonTold, Reach
  PROVE  NeonTold'
<1>1. /\ UNCHANGED <<target, opts, held, left, asked>> /\ pc = "reach"
      /\ pc' = IF opts.bearer THEN "compare" ELSE "done"
      /\ faults \subseteq faults'
  BY SufferGrows DEF Reach, scan, footprint, work, StageAfter
<1>2. report \subseteq report' /\ report' \subseteq report \cup {Blind}
  BY DEF Reach, Say
<1>3. \A n : Reported("member-read", n)' <=> Reported("member-read", n)
  BY <1>2 DEF Reported, Found, Blind
<1>4. Token' = Token
  BY <1>1 DEF Token
<1>5. ~opts.bearer => Token = "none"
  BY DEF Token
<1> QED
  BY <1>1, <1>3, <1>4, <1>5, ReachSays DEF NeonTold, Early, Compared, Table, At

\* What the readers of the tables say, as long as nothing was written.
LEMMA CompareSays ==
  ASSUME Typed, At("neon"), NeonTold, Compare
  PROVE  /\ report \subseteq report'
         /\ \A y \in report' \ report :
              \/ y = NotAssessed("escalation")
              \/ \E n : y = AnyAccountReads(n) /\ Exists(n) /\ Table(n).read = "rows"
         /\ Token = "accepted" /\ faults' = {} =>
              \A n \in asked : Exists(n) /\ Table(n).read = "rows" =>
                Reported("member-read", n)'
         /\ Token = "refused" => Declared("escalation")'
<1> DEFINE names == Range(Relations)
<1>1. PICK f : LET returned == {n \in names : Returned(n, f)}
                   refused  == {n \in names \ returned : Refusal(n, f)}
               IN  /\ Suffer(f)
                   /\ Say({AnyAccountReads(n) : n \in returned}
                            \cup IF SilenceIsRefusal(returned, refused, names)
                                   THEN {NotAssessed("escalation")} ELSE {})
  BY DEF Compare
<1> DEFINE returned == {n \in names : Returned(n, f)}
           refused == {n \in names \ returned : Refusal(n, f)}
<1>2. pc = "compare" /\ opts.bearer /\ held = {} /\ left = {}
  BY DEF Compare, NeonTold, Early
<1>3. names = asked
  BY <1>2, RelationsKeep
<1>4. asked # {}
  BY <1>2, NeonTarget DEF NeonTold
<1>5. Token \in {"accepted", "refused"}
  BY <1>2, NeonTarget DEF Token
<1>6. \A n : Returned(n, f) => Token = "accepted" /\ Exists(n) /\ Table(n).read = "rows"
  <2> SUFFICES ASSUME NEW n, Returned(n, f)
               PROVE  Token = "accepted" /\ Exists(n) /\ Table(n).read = "rows"
    OBVIOUS
  <2>1. Status(n, f) = 200 /\ Table(n).read # "empty"
    BY <1>2 DEF Returned
  <2>2. Token = "accepted" /\ Exists(n) /\ Table(n).read # "denied"
    BY <1>5, <2>1 DEF Status
  <2> QED
    BY <2>1, <2>2, NeonTarget DEF Exists, Table
<1>7. \A n : Token = "refused" => Refusal(n, f)
  BY DEF Refusal, Status
<1>8. Token = "refused" => SilenceIsRefusal(returned, refused, names)
  BY <1>3, <1>4, <1>6, <1>7 DEF SilenceIsRefusal
<1>9. faults' = {} => DOMAIN f = {}
  BY <1>1, NothingFailed DEF Fine
<1>10. \A n \in asked : Token = "accepted" /\ faults' = {} /\ Exists(n) /\ Table(n).read = "rows"
         => n \in returned
  <2> SUFFICES ASSUME NEW n \in asked, Token = "accepted", faults' = {}, Exists(n),
                      Table(n).read = "rows"
               PROVE  n \in returned
    BY Zenon
  <2>1. Status(n, f) = 200
    BY <1>9 DEF Status
  <2>2. Returned(n, f)
    BY <2>1 DEF Returned
  <2> QED
    BY <1>3, <2>2
<1> HIDE DEF returned, refused, names
<1>11. report' = report \cup ({AnyAccountReads(n) : n \in returned}
                     \cup IF SilenceIsRefusal(returned, refused, names)
                            THEN {NotAssessed("escalation")} ELSE {})
  BY <1>1 DEF Say, returned, refused
<1>12. \A n \in returned : Exists(n) /\ Table(n).read = "rows"
  BY <1>6 DEF returned
<1>13. \A n \in returned : Reported("member-read", n)'
  BY <1>11 DEF Reported, AnyAccountReads
<1>14. Token = "refused" => Declared("escalation")'
  BY <1>8, <1>11 DEF Declared
<1> QED
  BY <1>10, <1>11, <1>12, <1>13, <1>14

LEMMA CompareTells ==
  ASSUME Typed, At("neon"), NeonTold, Compare
  PROVE  NeonTold'
<1>1. /\ UNCHANGED <<target, opts, held, left, asked>> /\ pc = "compare" /\ pc' = "insert"
      /\ faults \subseteq faults'
  BY SufferGrows DEF Compare, scan, footprint, work, StageAfter
<1>2. \A y \in report' \ report :
        \/ y = NotAssessed("escalation")
        \/ \E n : y = AnyAccountReads(n) /\ Exists(n) /\ Table(n).read = "rows"
  BY CompareSays
<1>3. ASSUME NEW n, Reported("member-read", n)', ~Reported("member-read", n)
      PROVE  Exists(n) /\ Table(n).read = "rows"
  <2>1. Found("member-read", n) \in report' \ report
    BY <1>3 DEF Reported
  <2>2. Found("member-read", n) # NotAssessed("escalation")
    BY DEF Found, NotAssessed
  <2>3. PICK m : /\ Found("member-read", n) = AnyAccountReads(m)
                 /\ Exists(m) /\ Table(m).read = "rows"
    BY <1>2, <2>1, <2>2
  <2>4. m = n
    BY <2>3 DEF Found, AnyAccountReads
  <2> QED
    BY <2>3, <2>4
<1>4. Reported("not-discriminating", "relations")' <=> Reported("not-discriminating", "relations")
  <2>1. report \subseteq report'
    BY CompareSays
  <2>2. \A y \in report' \ report : y[1] \in {"not-assessed", "member-read"}
    BY <1>2 DEF Found, NotAssessed, AnyAccountReads
  <2> QED
    BY <2>1, <2>2 DEF Reported, Found
<1>5. Failed("reach") => Failed("reach")'
  BY <1>1 DEF Failed
<1>6. /\ Token' = Token
      /\ \A n : Exists(n)' = Exists(n) /\ Table(n)' = Table(n)
  BY <1>1 DEF Token, Exists, Table
<1>7. /\ opts.bearer
      /\ asked \subseteq Range(target.order) /\ target.seeds \subseteq asked
      /\ Token = "accepted" /\ faults = {} => target.hints \subseteq asked
      /\ \A n \in DOMAIN target.tables : Reported("member-read", n) => Table(n).read = "rows"
      /\ ~Failed("reach") => (Reported("not-discriminating", "relations") <=> Token # "accepted")
  BY <1>1 DEF NeonTold, Early, Compared
<1>8. /\ Token = "accepted" /\ faults' = {} =>
           \A n \in asked : Exists(n) /\ Table(n).read = "rows" => Reported("member-read", n)'
      /\ Token = "refused" => Declared("escalation")'
  BY CompareSays
<1> QED
  BY <1>1, <1>3, <1>4, <1>5, <1>6, <1>7, <1>8 DEF NeonTold, Early, Compared, At

\* After the reads nothing is said that undoes what they said.
LEMMA LaterTells ==
  ASSUME At("neon"), NeonTold, pc \in Compared, pc' \in Compared,
         UNCHANGED <<target, opts, asked>>, opts.bearer \/ pc' \in {"done", "closed"},
         report \subseteq report', faults \subseteq faults',
         \A y \in report' \ report : y[1] \notin {"member-read", "not-discriminating"}
  PROVE  NeonTold'
<1>1. /\ \A n : Reported("member-read", n)' <=> Reported("member-read", n)
      /\ Reported("not-discriminating", "relations")'
           <=> Reported("not-discriminating", "relations")
      /\ Declared("escalation") => Declared("escalation")'
  BY DEF Reported, Declared, Found
<1>2. Failed("reach") => Failed("reach")'
  BY DEF Failed
<1>3. /\ Token' = Token
      /\ \A n : Exists(n)' = Exists(n) /\ Table(n)' = Table(n)
  BY DEF Token, Exists, Table
<1> QED
  BY <1>1, <1>2, <1>3 DEF NeonTold, Early, Compared, At

LEMMA NeonToldKept ==
  ASSUME Typed, At("neon"), NeonTold, NeonStep
  PROVE  NeonTold'
<1>1. CASE NoInserts
  <2>1. /\ pc = "insert" /\ pc' = "done" /\ UNCHANGED <<target, opts, asked, faults>>
        /\ report' = report \cup {NotAssessed("write")}
    BY <1>1 DEF NoInserts, scan, work, StageAfter, Say
  <2> QED
    BY <2>1, LaterTells DEF Compared, NotAssessed, Found
<1>2. CASE Insert
  <2>1. /\ pc = "insert" /\ pc' = "insert" /\ UNCHANGED <<target, opts, asked>>
        /\ faults \subseteq faults'
    BY <1>2, SufferGrows DEF Insert, scan
  <2>2. report \subseteq report' /\ report' \subseteq report \cup {Inserted(Head(todo))}
    BY <1>2 DEF Insert, Say
  <2>3. opts.bearer
    BY <2>1 DEF NeonTold
  <2> QED
    BY <2>1, <2>2, <2>3, LaterTells DEF Compared, Inserted, Found
<1>3. CASE ReportInserts
  <2>1. /\ pc = "insert" /\ pc' = "done" /\ UNCHANGED <<target, opts, asked, faults>>
    BY <1>3 DEF ReportInserts, scan, work, StageAfter
  <2>2. PICK rows : report' = report \cup UNION {RowSays(n) : n \in rows}
    BY <1>3 DEF ReportInserts, Say
  <2>3. \A y \in report' \ report : \E n \in rows : y \in RowSays(n)
    BY <2>2
  <2>4. \A y \in report' \ report : y[1] \in {"write", "left-behind"}
    BY <2>3 DEF RowSays, Inserted, Found
  <2>5. report \subseteq report' /\ faults \subseteq faults'
    BY <2>1, <2>2
  <2> QED
    BY <2>1, <2>4, <2>5, LaterTells DEF Compared
<1> QED
  BY <1>1, <1>2, <1>3, EnumerationTells, ReachTells, CompareTells DEF NeonStep

LEMMA NeonToldAtEnds ==
  ASSUME Typed, NeonTold, Ends
  PROVE  NeonTold'
<1>1. /\ UNCHANGED <<target, opts, held, left, asked, faults>> /\ report \subseteq report'
      /\ \A y \in report' \ report :
           y[1] \in {"not-assessed", "intent-violation", "intent-unverified"}
      /\ \/ pc = "plan" /\ pc' = FirstStage
         \/ pc = "done" /\ pc' = "closed"
         \/ pc' = pc /\ report' = report
  BY EndsDo
<1>2. CASE ~At("neon")
  BY <1>1, <1>2 DEF NeonTold, At
<1>3. CASE At("neon") /\ pc = "plan" /\ pc' = FirstStage
  <2>1. FirstStage = IF opts.bearer THEN "enumerate" ELSE "reach"
    BY <1>3 DEF FirstStage, At
  <2>2. /\ \A n : Reported("member-read", n)' <=> Reported("member-read", n)
        /\ Reported("not-discriminating", "relations")'
             <=> Reported("not-discriminating", "relations")
    BY <1>1 DEF Reported, Found
  <2> QED
    BY <1>1, <1>3, <2>1, <2>2 DEF NeonTold, Early, Compared, Table, At
<1>4. CASE At("neon") /\ pc = "done" /\ pc' = "closed"
  BY <1>1, <1>4, LaterTells DEF Compared
<1>5. CASE At("neon") /\ pc' = pc /\ report' = report
  BY <1>1, <1>5 DEF NeonTold, Table, Token, Exists, Reported, Declared, Failed, At
<1> QED
  BY <1>1, <1>2, <1>3, <1>4, <1>5

-----------------------------------------------------------------------------
(***************************************************************************)
(* PocketBase: a gain is what a stranger does not have.                    *)
(***************************************************************************)
GainsPocketBase ==
  At("pocketbase") /\ ~Failed("gain") =>
    \A n \in PocketBaseNames : Reported("gain", n) => target.rules[n] # "anyone"

LEMMA GainSays ==
  ASSUME Gain, ~Failed("gain")', NEW n \in PocketBaseNames,
         Found("gain", n) \in report' \ report
  PROVE  target.rules[n] # "anyone"
<1>1. PICK f : /\ Suffer(f)
               /\ Say({EscalationGain(m) : m \in {k \in PocketBaseNames : Gains(k, f)}})
  BY DEF Gain
<1>2. pc = "gain"
  BY DEF Gain
<1>3. DOMAIN f = {}
  <2>1. \A r \in DOMAIN f : <<pc, r, f[r]>> \in faults'
    BY <1>1 DEF Suffer
  <2>2. \A x \in faults' : x[1] # "gain"
    BY DEF Failed
  <2> QED
    BY <1>2, <2>1, <2>2
<1>4. PICK m \in PocketBaseNames : Found("gain", n) = EscalationGain(m) /\ Gains(m, f)
  BY <1>1 DEF Say
<1>5. m = n
  BY <1>4 DEF Found, EscalationGain
<1>6. Rows(n, "member") > Rows(n, "anyone")
  BY <1>3, <1>4, <1>5 DEF Gains, Sample
<1> QED
  BY <1>6 DEF Rows

LEMMA GainsPocketBaseKept ==
  ASSUME At("pocketbase"), GainsPocketBase, PocketBaseStep
  PROVE  GainsPocketBase'
<1>1. UNCHANGED <<target, opts>> /\ faults \subseteq faults'
  BY PocketBaseFails, FailsNow DEF scan
<1>2. Failed("gain") => Failed("gain")'
  BY <1>1 DEF Failed
<1>3. CASE Gain
  <2>1. ASSUME ~Failed("gain")', NEW n \in PocketBaseNames, Reported("gain", n)'
        PROVE  target.rules[n] # "anyone"
    <3>1. CASE Reported("gain", n)
      BY <1>2, <2>1, <3>1 DEF GainsPocketBase
    <3>2. CASE ~Reported("gain", n)
      BY <1>3, <2>1, <3>2, GainSays DEF Reported
    <3> QED
      BY <3>1, <3>2
  <2> QED
    BY <1>1, <2>1 DEF GainsPocketBase, PocketBaseNames
<1>4. CASE ~Gain
  <2>1. \A y \in report' \ report : y[1] # "gain"
    <3> USE DEF Say, NotAssessed, NoSession, Found
    <3>1. CASE CollectionStage
      BY <3>1 DEF CollectionStage, Exposed
    <3>2. CASE NoConsent
      BY <3>2 DEF NoConsent
    <3>3. CASE SignUp
      BY <3>3 DEF SignUp
    <3>4. CASE SignInMember
      BY <3>4 DEF SignInMember
    <3>5. CASE RemoveMember
      BY <3>5 DEF RemoveMember
    <3>6. CASE Verify
      BY <3>6 DEF Verify, StillThere
    <3> QED
      BY <1>4, <3>1, <3>2, <3>3, <3>4, <3>5, <3>6 DEF PocketBaseStep
  <2>2. \A n : Reported("gain", n)' => Reported("gain", n)
    BY <2>1 DEF Reported, Found
  <2> QED
    BY <1>1, <1>2, <2>2 DEF GainsPocketBase, PocketBaseNames
<1> QED
  BY <1>3, <1>4

LEMMA GainsPocketBaseAtEnds == GainsPocketBase /\ Ends => GainsPocketBase'
<1> SUFFICES ASSUME GainsPocketBase, Ends PROVE GainsPocketBase'
  OBVIOUS
<1>1. /\ UNCHANGED <<target, faults>>
      /\ \A y \in report' \ report : y[1] # "gain"
  BY EndsDo
<1>2. \A n : Reported("gain", n)' => Reported("gain", n)
  BY <1>1 DEF Reported, Found
<1> QED
  BY <1>1, <1>2 DEF GainsPocketBase, PocketBaseNames, Failed, At
-----------------------------------------------------------------------------
(***************************************************************************)
(* Routes: a budget that is shared by turns.                               *)
(***************************************************************************)
LEMMA RoundCounts ==
  ASSUME NEW T, NEW refs \in Seq(T), NEW i \in DOMAIN refs
  PROVE  /\ Round(refs, i) \in Nat
         /\ IsFiniteSet({j \in 1..i : Origin(refs[j]) = Origin(refs[i])})
<1>1. IsFiniteSet(1..i)
  BY FS_Interval
<1>2. IsFiniteSet({j \in 1..i : Origin(refs[j]) = Origin(refs[i])})
  BY <1>1, FS_Subset
<1> QED
  BY <1>2, FS_CardinalityType DEF Round

LEMMA RoundIsNumber ==
  ASSUME NEW T, NEW refs \in Seq(T), NEW i \in DOMAIN refs
  PROVE  Round(refs, i) \in Nat
BY RoundCounts

\* Of one origin the later route comes in a later round.
LEMMA RoundsRise ==
  ASSUME NEW T, NEW refs \in Seq(T), NEW i \in DOMAIN refs, NEW j \in DOMAIN refs,
         i < j, Origin(refs[i]) = Origin(refs[j])
  PROVE  Round(refs, i) < Round(refs, j)
<1> DEFINE A == {k \in 1..i : Origin(refs[k]) = Origin(refs[i])}
           B == {k \in 1..j : Origin(refs[k]) = Origin(refs[j])}
<1>1. A \subseteq B /\ j \in B /\ j \notin A
  OBVIOUS
<1>2. IsFiniteSet(B) /\ Round(refs, i) = Cardinality(A) /\ Round(refs, j) = Cardinality(B)
  BY RoundCounts DEF Round
<1> HIDE DEF A, B
<1>3. Cardinality(A) <= Cardinality(B) /\ Cardinality(A) # Cardinality(B)
  BY <1>1, <1>2, FS_Subset
<1> QED
  BY <1>2, <1>3, RoundIsNumber

\* Who is sooner has an earlier turn.
LEMMA TurnsFollow ==
  ASSUME NEW T, NEW refs \in Seq(T), NEW i \in DOMAIN refs, NEW j \in DOMAIN refs,
         Sooner(refs, i, j)
  PROVE  Turn(refs, i) < Turn(refs, j) /\ Turn(refs, i) \in Nat /\ Turn(refs, j) \in Nat
<1> DEFINE A == {k \in DOMAIN refs : k = i \/ Sooner(refs, k, i)}
           B == {k \in DOMAIN refs : k = j \/ Sooner(refs, k, j)}
<1>1. \A k \in DOMAIN refs : Round(refs, k) \in Nat /\ k \in Nat
  BY RoundIsNumber
<1>2. A \subseteq B
  BY <1>1 DEF Sooner
<1>3. j \in B /\ j \notin A
  BY <1>1 DEF Sooner
<1>4. IsFiniteSet(DOMAIN refs)
  BY FS_Interval
<1>5. IsFiniteSet(A) /\ IsFiniteSet(B)
  BY <1>4, FS_Subset
<1>6. Turn(refs, i) = Cardinality(A) /\ Turn(refs, j) = Cardinality(B)
  BY DEF Turn
<1> HIDE DEF A, B
<1>7. Cardinality(A) <= Cardinality(B) /\ Cardinality(A) # Cardinality(B)
  BY <1>2, <1>3, <1>5, FS_Subset
<1> QED
  BY <1>5, <1>6, <1>7, FS_CardinalityType

\* The routes of one origin that a budget keeps.
KeptOf(refs, max, o) == {r \in FairTargets(refs, max) : Origin(r) = o}

\* No more of them than rounds that were begun.
LEMMA RoundsBound ==
  ASSUME NEW T, NEW refs \in Seq(T), NEW max \in Nat, NEW o, NEW n \in Nat,
         \A j \in DOMAIN refs : Turn(refs, j) <= max => Round(refs, j) <= n
  PROVE  IsFiniteSet(KeptOf(refs, max, o)) /\ Cardinality(KeptOf(refs, max, o)) <= n
<1> DEFINE I == {j \in DOMAIN refs : Turn(refs, j) <= max /\ Origin(refs[j]) = o}
           rounds == [j \in I |-> Round(refs, j)]
           kept == [j \in I |-> refs[j]]
           K == KeptOf(refs, max, o)
<1>1. \A j \in I : Round(refs, j) \in 1..n
  <2> SUFFICES ASSUME NEW j \in I PROVE Round(refs, j) \in 1..n
    OBVIOUS
  <2>1. Round(refs, j) \in Nat /\ Round(refs, j) <= n
    BY RoundIsNumber
  <2>2. Round(refs, j) # 0
    <3>1. j \in {k \in 1..j : Origin(refs[k]) = Origin(refs[j])}
      OBVIOUS
    <3>2. IsFiniteSet({k \in 1..j : Origin(refs[k]) = Origin(refs[j])})
      BY RoundCounts
    <3> QED
      BY <3>1, <3>2, FS_EmptySet DEF Round
  <2> QED
    BY <2>1, <2>2
<1>2. \A i, j \in I : Round(refs, i) = Round(refs, j) => i = j
  <2> SUFFICES ASSUME NEW i \in I, NEW j \in I, Round(refs, i) = Round(refs, j), i # j
               PROVE  FALSE
    OBVIOUS
  <2>1. i \in DOMAIN refs /\ j \in DOMAIN refs /\ Origin(refs[i]) = Origin(refs[j])
    OBVIOUS
  <2>2. Round(refs, i) \in Nat /\ Round(refs, j) \in Nat
    BY <2>1, RoundIsNumber
  <2>3. i < j \/ j < i
    BY <2>1
  <2> HIDE DEF I
  <2> QED
    BY <2>1, <2>2, <2>3, RoundsRise
<1>3. rounds \in Injection(I, 1..n)
  <2> HIDE DEF I
  <2> QED
    BY <1>1, <1>2 DEF Injection, IsInjective
<1>4. IsFiniteSet(I) /\ Cardinality(I) <= n
  <2>1. IsFiniteSet(1..n) /\ Cardinality(1..n) = n
    BY FS_Interval
  <2> HIDE DEF I, rounds
  <2> QED
    BY <1>3, <2>1, FS_Injection
<1>5. kept \in Surjection(I, K)
  <2>1. K = {refs[j] : j \in I}
    BY DEF KeptOf, FairTargets
  <2> HIDE DEF I, K
  <2> QED
    BY <2>1 DEF Surjection
<1>6. IsFiniteSet(K) /\ Cardinality(K) <= Cardinality(I)
  <2> HIDE DEF I, kept, K
  <2> QED
    BY <1>4, <1>5, FS_Surjection
<1> HIDE DEF I
<1> QED
  BY <1>4, <1>6, FS_CardinalityType

\* What precedes the first route of its origin that is left out is kept.
LEMMA KeptBefore ==
  ASSUME NEW T, NEW refs \in Seq(T), Distinct(refs), NEW max \in Nat, NEW i \in DOMAIN refs,
         \A j \in 1..(i - 1) : Origin(refs[j]) = Origin(refs[i]) => Turn(refs, j) <= max,
         IsFiniteSet(KeptOf(refs, max, Origin(refs[i])))
  PROVE  Round(refs, i) <= Cardinality(KeptOf(refs, max, Origin(refs[i]))) + 1
<1> DEFINE J == {j \in 1..(i - 1) : Origin(refs[j]) = Origin(refs[i])}
           A == {j \in 1..i : Origin(refs[j]) = Origin(refs[i])}
           K == KeptOf(refs, max, Origin(refs[i]))
           kept == [j \in J |-> refs[j]]
<1>1. A = J \cup {i} /\ i \notin J
  OBVIOUS
<1>2. IsFiniteSet(J)
  <2>1. IsFiniteSet(1..(i - 1))
    BY FS_Interval
  <2> QED
    BY <2>1, FS_Subset
<1>3. Round(refs, i) = Cardinality(J) + 1
  <2>1. Round(refs, i) = Cardinality(A)
    BY DEF Round
  <2> HIDE DEF J, A
  <2> QED
    BY <1>1, <1>2, <2>1, FS_AddElement
<1>4. kept \in Injection(J, K)
  <2>1. \A j \in J : j \in DOMAIN refs /\ refs[j] \in K
    BY DEF KeptOf, FairTargets
  <2>2. \A j, k \in J : refs[j] = refs[k] => j = k
    BY <2>1 DEF Distinct
  <2> HIDE DEF J, K
  <2> QED
    BY <2>1, <2>2 DEF Injection, IsInjective
<1>5. Cardinality(J) <= Cardinality(K)
  <2> HIDE DEF J, kept
  <2> QED
    BY <1>4, FS_Injection
<1> HIDE DEF J
<1> QED
  BY <1>2, <1>3, <1>5, FS_CardinalityType

\* No origin is two routes ahead of one that has more (fairTargets).
LEMMA TurnsAreFair ==
  ASSUME NEW T, NEW refs \in Seq(T), Distinct(refs), NEW max \in Nat,
         NEW r \in Range(refs) \ FairTargets(refs, max), NEW o
  PROVE  Cardinality(KeptOf(refs, max, o)) <= Cardinality(KeptOf(refs, max, Origin(r))) + 1
<1> DEFINE Out == {j \in DOMAIN refs : Origin(refs[j]) = Origin(r) /\ ~(Turn(refs, j) <= max)}
<1>1. Out # {}
  BY DEF Range, FairTargets
<1>2. PICK i \in Out : \A j \in Out : i <= j
  <2>1. Out \in SUBSET Nat
    OBVIOUS
  <2> HIDE DEF Out
  <2> QED
    BY <1>1, <2>1, LeastExists
<1>3. i \in DOMAIN refs /\ Origin(refs[i]) = Origin(r) /\ ~(Turn(refs, i) <= max)
  OBVIOUS
<1>4. \A j \in 1..(i - 1) : Origin(refs[j]) = Origin(refs[i]) => Turn(refs, j) <= max
  <2> SUFFICES ASSUME NEW j \in 1..(i - 1), Origin(refs[j]) = Origin(refs[i]),
                      ~(Turn(refs, j) <= max)
               PROVE  FALSE
    OBVIOUS
  <2>1. j \in Out /\ ~(i <= j)
    BY <1>3
  <2> HIDE DEF Out
  <2> QED
    BY <1>2, <2>1
<1>5. \A j \in DOMAIN refs : Turn(refs, j) <= max => Round(refs, j) <= Round(refs, i)
  <2> SUFFICES ASSUME NEW j \in DOMAIN refs, Turn(refs, j) <= max,
                      ~(Round(refs, j) <= Round(refs, i))
               PROVE  FALSE
    OBVIOUS
  <2>1. Round(refs, j) \in Nat /\ Round(refs, i) \in Nat
    BY <1>3, RoundIsNumber
  <2>2. Sooner(refs, i, j)
    BY <2>1 DEF Sooner
  <2>3. /\ Turn(refs, i) < Turn(refs, j)
        /\ Turn(refs, i) \in Nat /\ Turn(refs, j) \in Nat
    BY <1>3, <2>2, TurnsFollow
  <2> HIDE DEF Out
  <2> QED
    BY <1>3, <2>3
<1>6. Round(refs, i) \in Nat
  BY <1>3, RoundIsNumber
<1> HIDE DEF Out
<1>7. /\ Cardinality(KeptOf(refs, max, o)) <= Round(refs, i)
      /\ IsFiniteSet(KeptOf(refs, max, o))
  BY <1>5, <1>6, RoundsBound
<1>8. IsFiniteSet(KeptOf(refs, max, Origin(refs[i])))
  BY <1>5, <1>6, RoundsBound
<1>9. Round(refs, i) <= Cardinality(KeptOf(refs, max, Origin(refs[i]))) + 1
  BY <1>3, <1>4, <1>8, KeptBefore
<1> QED
  BY <1>3, <1>6, <1>7, <1>8, <1>9, FS_CardinalityType

-----------------------------------------------------------------------------
\* The stages of an application, in the order in which they follow each other.
BeforeBypass == {"plan", "inventory", "routes", "bypass"}
BeforeFamilies == BeforeBypass \cup {"identities", "families"}

\* The inventory settles what is asked; what it leaves out it says.
RoutesPicked ==
  At("application") =>
    /\ todo \in Seq(Range(todo))
    /\ pc \in {"plan", "inventory"} => todo = <<>> /\ asked = {}
    /\ Range(todo) \subseteq asked
    /\ \A r \in asked : Origin(r) \in Scope
    /\ \A r \in asked \ Range(todo) : Reported("budget", "-max-routes")
    /\ NoOriginIsStarved

\* What a stage says is so when it has run, and nobody says it before.
RoutesTold ==
  At("application") =>
    /\ pc \in BeforeFamilies \cup {"done", "closed"}
    /\ pc \in BeforeBypass => \A y \in report : y[1] # "bypass"
    /\ pc \in BeforeBypass \cup {"identities"} => \A y \in report : y[1] # "cross-identity"
    /\ BypassReachesTheRecord
    /\ SharedPagesBeginAlike
    /\ pc \in {"done", "closed"} =>
         \A r \in Range(todo) \cap DOMAIN target.served :
           /\ target.served[r].anyone = "record" /\ target.served[r].secret
           /\ Made(r) \notin DOMAIN target.long
           => Reported("exposure", r) \/ Failure(r, "GET") # {}

LEMMA ApplicationTarget ==
  ASSUME Typed, At("application")
  PROVE  /\ target.bundles \in Seq(Range(target.bundles))
         /\ target.order \in Seq(Range(target.order)) /\ Distinct(target.order)
         /\ (UNION Range(target.bundles)) \cup target.har \cup target.spec
              \subseteq Range(target.order)
         /\ \A r \in DOMAIN target.served : \A caller \in {"anyone", "a", "b"} :
              target.served[r][caller] \in {"record", "own", "empty", "refused", "hidden"}
         /\ \A body \in DOMAIN target.long : body[1] \in {"record", "own", "home", "index"}
         /\ opts.routes \in Nat
BY TargetsAssumption, OptionsAssumption DEF Typed, At, IsList

LEMMA InTurnKeeps ==
  ASSUME Typed, At("application"), NEW refs, refs \subseteq Range(target.order)
  PROVE  /\ InTurn(refs) \in Seq(Range(target.order))
         /\ InTurn(refs) \in Seq(Range(InTurn(refs)))
         /\ Range(InTurn(refs)) = refs
         /\ Distinct(InTurn(refs))
         /\ IsFiniteSet(refs)
<1>1. target.order \in Seq(Range(target.order)) /\ Distinct(target.order)
  BY ApplicationTarget
<1>2. /\ InTurn(refs) \in Seq(Range(target.order))
      /\ Range(InTurn(refs)) = Range(target.order) \cap refs
      /\ Distinct(InTurn(refs))
  BY <1>1, OnlyKeeps DEF InTurn, Distinct
<1>3. Range(InTurn(refs)) = refs
  BY <1>2
<1>4. IsFiniteSet(Range(InTurn(refs)))
  BY <1>2, ListIsFinite
<1>5. InTurn(refs) \in Seq(Range(InTurn(refs)))
  BY <1>2, ListOf
<1> QED
  BY <1>2, <1>3, <1>4, <1>5

LEMMA BundlesName ==
  ASSUME Typed, At("application"), NEW f
  PROVE  FromBundles(f) \subseteq UNION Range(target.bundles)
<1>1. target.bundles \in Seq(Range(target.bundles))
  BY ApplicationTarget
<1>2. Len(target.bundles) \in Nat /\ DOMAIN target.bundles = 1..Len(target.bundles)
  BY <1>1
<1>3. opts.bundles \in Nat
  BY OptionsAssumption DEF Typed
<1>4. \A j \in 1..Lesser(Len(target.bundles), opts.bundles) : j \in DOMAIN target.bundles
  BY <1>2, <1>3 DEF Lesser
<1> QED
  BY <1>4 DEF FromBundles, Range

LEMMA InventoryDoes ==
  ASSUME Typed, At("application"), Inventory
  PROVE  \E refs :
           /\ refs \subseteq Range(target.order)
           /\ \A r \in refs : Origin(r) \in Scope
           /\ asked' = refs
           /\ todo' = InTurn(FairTargets(InTurn(refs), opts.routes))
           /\ report \subseteq report'
           /\ Cut("-max-routes", FairTargets(InTurn(refs), opts.routes), refs) \subseteq report'
           /\ \A y \in report' \ report :
                y[1] \in {"specification", "not-assessed", "budget"}
<1>1. PICK f :
        LET refs  == InScope(FromBundles(f) \cup target.har) \cup Published(f)
            picks == FairTargets(InTurn(refs), opts.routes)
        IN  /\ asked' = refs
            /\ todo' = InTurn(picks)
            /\ Say({Found("specification", Origin(r)) : r \in Published(f)}
                     \cup (IF target.badHar THEN {NotAssessed("har")} ELSE {})
                     \cup Cut("-max-routes", picks, refs))
  BY DEF Inventory
<1> DEFINE refs == InScope(FromBundles(f) \cup target.har) \cup Published(f)
           picks == FairTargets(InTurn(refs), opts.routes)
<1>2. refs \subseteq Range(target.order)
  <2>1. FromBundles(f) \subseteq UNION Range(target.bundles)
    BY BundlesName
  <2>2. (UNION Range(target.bundles)) \cup target.har \cup target.spec
          \subseteq Range(target.order)
    BY ApplicationTarget
  <2>3. Published(f) \subseteq target.spec
    BY DEF Published
  <2>4. InScope(FromBundles(f) \cup target.har) \subseteq FromBundles(f) \cup target.har
    BY DEF InScope
  <2> QED
    BY <2>1, <2>2, <2>3, <2>4
<1>3. \A r \in refs : Origin(r) \in Scope
  BY DEF InScope, Published
<1>4. \A y \in Cut("-max-routes", picks, refs) : y[1] = "budget"
  <2>1. Found("budget", "-max-routes")[1] = "budget"
    BY DEF Found
  <2> HIDE DEF refs, picks
  <2> QED
    BY <2>1 DEF Cut
<1>5. \A y \in {Found("specification", Origin(r)) : r \in Published(f)} : y[1] = "specification"
  BY DEF Found
<1>6. \A y \in (IF target.badHar THEN {NotAssessed("har")} ELSE {}) : y[1] = "not-assessed"
  BY DEF Found, NotAssessed
<1>7. report' = report \cup ({Found("specification", Origin(r)) : r \in Published(f)}
                     \cup (IF target.badHar THEN {NotAssessed("har")} ELSE {})
                     \cup Cut("-max-routes", picks, refs))
  BY <1>1, Zenon DEF Say
<1>8. asked' = refs /\ todo' = InTurn(picks)
  BY <1>1
<1> HIDE DEF refs
<1> WITNESS refs
<1>9. \A y \in report' \ report : y[1] \in {"specification", "not-assessed", "budget"}
  <2> HIDE DEF picks
  <2> QED
    BY <1>4, <1>5, <1>6, <1>7
<1>10. report \subseteq report' /\ Cut("-max-routes", picks, refs) \subseteq report'
  <2> HIDE DEF picks
  <2> QED
    BY <1>7
<1> QED
  BY <1>2, <1>3, <1>8, <1>9, <1>10

LEMMA RoutesPickedAtFirst ==
  ASSUME Typed, At("application"), Inventory
  PROVE  RoutesPicked'
<1>1. PICK refs :
        /\ refs \subseteq Range(target.order)
        /\ \A r \in refs : Origin(r) \in Scope
        /\ asked' = refs
        /\ todo' = InTurn(FairTargets(InTurn(refs), opts.routes))
        /\ Cut("-max-routes", FairTargets(InTurn(refs), opts.routes), refs) \subseteq report'
  BY InventoryDoes
<1>2. UNCHANGED <<target, opts>> /\ pc' = "routes"
  BY DEF Inventory, scan
<1> DEFINE list == InTurn(refs)
           picks == FairTargets(list, opts.routes)
<1>3. /\ list \in Seq(Range(target.order)) /\ Range(list) = refs /\ Distinct(list)
      /\ IsFiniteSet(refs)
  BY <1>1, InTurnKeeps
<1>4. picks \subseteq refs
  BY <1>3 DEF FairTargets, Range
<1>5. todo' \in Seq(Range(todo')) /\ Range(todo') = picks
  <2>1. picks \subseteq Range(target.order)
    BY <1>1, <1>4
  <2> HIDE DEF picks
  <2>2. InTurn(picks) \in Seq(Range(InTurn(picks))) /\ Range(InTurn(picks)) = picks
    BY <2>1, InTurnKeeps
  <2> QED
    BY <1>1, <2>2 DEF picks
<1>6. ASSUME NEW r \in refs \ picks PROVE Reported("budget", "-max-routes")'
  <2>1. IsFiniteSet(picks) /\ Cardinality(picks) <= Cardinality(refs)
        /\ Cardinality(picks) # Cardinality(refs)
    <3> HIDE DEF picks
    <3> QED
      BY <1>3, <1>4, <1>6, FS_Subset
  <2>2. Cardinality(picks) \in Nat /\ Cardinality(refs) \in Nat
    BY <1>3, <2>1, FS_CardinalityType
  <2>3. Cut("-max-routes", picks, refs) = {Found("budget", "-max-routes")}
    <3> HIDE DEF picks
    <3> QED
      BY <2>1, <2>2 DEF Cut
  <2> QED
    BY <1>1, <2>3 DEF Reported
<1>7. NoOriginIsStarved'
  <2>1. opts.routes \in Nat
    BY ApplicationTarget
  <2>2. \A r \in refs \ picks : \A o :
          Cardinality(KeptOf(list, opts.routes, o))
            <= Cardinality(KeptOf(list, opts.routes, Origin(r))) + 1
    <3> HIDE DEF list
    <3> QED
      BY <1>3, <2>1, TurnsAreFair
  <2>3. Range(todo') = FairTargets(list, opts.routes) /\ asked' = refs
    BY <1>1, <1>5
  <2> HIDE DEF list, picks
  <2>4. ASSUME NEW r \in asked' \ Range(todo'), NEW o
        PROVE  Cardinality({x \in Range(todo') : Origin(x) = o})
                 <= Cardinality({x \in Range(todo') : Origin(x) = Origin(r)}) + 1
    <3>1. Cardinality(KeptOf(list, opts.routes, o))
            <= Cardinality(KeptOf(list, opts.routes, Origin(r))) + 1
      BY <2>2, <2>3, <2>4 DEF picks
    <3> QED
      BY <2>3, <3>1, Zenon DEF KeptOf
  <2> QED
    BY <2>4, Zenon DEF NoOriginIsStarved
<1>8. Scope' = Scope
  BY <1>2 DEF Scope
<1> HIDE DEF list, picks
<1> QED
  BY <1>1, <1>2, <1>4, <1>5, <1>6, <1>7, <1>8 DEF RoutesPicked

LEMMA RoutesPickedStays ==
  ASSUME RoutesPicked, UNCHANGED <<target, opts, asked, todo>>, report \subseteq report',
         pc' \in {"plan", "inventory"} => pc \in {"plan", "inventory"}
  PROVE  RoutesPicked'
<1>1. CASE ~At("application")
  BY <1>1 DEF RoutesPicked, At
<1>2. CASE At("application")
  <2>1. NoOriginIsStarved' /\ Scope' = Scope
    BY <1>2 DEF RoutesPicked, NoOriginIsStarved, Scope, At
  <2>2. Reported("budget", "-max-routes") => Reported("budget", "-max-routes")'
    BY DEF Reported
  <2> QED
    BY <1>2, <2>1, <2>2 DEF RoutesPicked, At
<1> QED
  BY <1>1, <1>2

LEMMA RoutesGrow ==
  RoutesStep =>
    /\ UNCHANGED <<target, opts>> /\ report \subseteq report' /\ faults \subseteq faults'
    /\ Inventory \/ UNCHANGED <<asked, todo>>
    /\ Inventory \/ pc \notin {"plan", "inventory"}
    /\ pc' \notin {"plan", "inventory", "closed"}
<1> SUFFICES ASSUME RoutesStep
             PROVE  /\ UNCHANGED <<target, opts>> /\ report \subseteq report' /\ faults \subseteq faults'
                    /\ Inventory \/ UNCHANGED <<asked, todo>>
                    /\ Inventory \/ pc \notin {"plan", "inventory"}
                    /\ pc' \notin {"plan", "inventory", "closed"}
  OBVIOUS
<1>1. UNCHANGED <<target, opts>> /\ faults \subseteq faults'
  BY RoutesFails, FailsNow DEF scan
<1> USE DEF work, Say
<1>2. CASE Inventory
  BY <1>1, <1>2 DEF Inventory
<1>3. CASE Probe
  BY <1>1, <1>3 DEF Probe
<1>4. CASE Bypass
  BY <1>1, <1>4 DEF Bypass
<1>5. CASE Identities
  BY <1>1, <1>5 DEF Identities
<1>6. CASE Families
  BY <1>1, <1>6 DEF Families
<1> QED
  BY <1>2, <1>3, <1>4, <1>5, <1>6 DEF RoutesStep

LEMMA RoutesPickedKept ==
  ASSUME Typed, At("application"), RoutesPicked, RoutesStep
  PROVE  RoutesPicked'
<1>1. CASE Inventory
  BY <1>1, RoutesPickedAtFirst
<1>2. CASE ~Inventory
  BY <1>2, RoutesGrow, RoutesPickedStays
<1> QED
  BY <1>1, <1>2

LEMMA RoutesPickedAtEnds ==
  ASSUME Typed, RoutesPicked, Ends
  PROVE  RoutesPicked'
<1>1. CASE At("application")
  BY <1>1, EndsDo, RoutesPickedStays
<1>2. CASE ~At("application")
  BY <1>2, EndsDo DEF RoutesPicked, At
<1> QED
  BY <1>1, <1>2
-----------------------------------------------------------------------------
\* A reply that counts was received, and what a control was not compared with
\* was not received.
LEMMA Replied ==
  ASSUME NEW f, NEW r, NEW reply, Reply(f, r, reply).code \in {200, 401, 403, 404}
  PROVE  Reply(f, r, reply) = reply
BY DEF Reply, NoAnswer, NotNow, Answer

LEMMA NotReplied ==
  ASSUME NEW f, NEW r, NEW reply, Reply(f, r, reply) # reply
  PROVE  r \in DOMAIN f
BY DEF Reply, IsLost, Refuses

LEMMA RefusalWasServed ==
  ASSUME NEW r, Refused(Got(r, "GET"))
  PROVE  Got(r, "GET") = Served(r, "anyone")
BY DEF Refused, Got, NoAnswer, NotNow, Answer

LEMMA BypassIsReal ==
  ASSUME NEW f, NEW r, NEW v \in Variants \ {"method"}, Bypasses(f, r, v), Suffer(f), pc = "bypass"
  PROVE  \/ r \in DOMAIN target.served /\ v \in target.served[r].loose
         \/ \E x \in faults' : x[1] = "bypass" /\ x[2][1] = <<Origin(r)>>
<1> SUFFICES ASSUME ~(r \in DOMAIN target.served /\ v \in target.served[r].loose)
             PROVE  \E x \in faults' : x[1] = "bypass" /\ x[2][1] = <<Origin(r)>>
  OBVIOUS
<1> DEFINE got == Reply(f, <<r, v>>, Varied(r, v))
<1>1. /\ Refused(Got(r, "GET"))
      /\ got # CatchAll(f, Origin(r))
      /\ got.code = 200
      /\ got \notin OwnControl(f, r, v)
  BY DEF Bypasses
<1>2. got = Varied(r, v)
  BY <1>1, Replied
<1>3. \A what : <<<<Origin(r)>>, what>> \in DOMAIN f
        => \E x \in faults' : x[1] = "bypass" /\ x[2][1] = <<Origin(r)>>
  <2> SUFFICES ASSUME NEW what, <<<<Origin(r)>>, what>> \in DOMAIN f
               PROVE  \E x \in faults' : x[1] = "bypass" /\ x[2][1] = <<Origin(r)>>
    OBVIOUS
  <2> DEFINE x == <<"bypass", <<<<Origin(r)>>, what>>, f[<<<<Origin(r)>>, what>>]>>
  <2>1. x \in faults'
    BY DEF Suffer
  <2>2. x[1] = "bypass" /\ x[2][1] = <<Origin(r)>>
    OBVIOUS
  <2> QED
    BY <2>1, <2>2
<1> HIDE DEF got
<1>4. CASE v = "rewrite"
  <2>1. Varied(r, v) = Answer(200, <<"home">>)
    BY <1>4 DEF Varied
  <2>2. RootOf(f, Origin(r)) # Answer(200, <<"home">>)
    BY <1>1, <1>2, <1>4, <2>1 DEF OwnControl
  <2> QED
    BY <1>3, <2>2, NotReplied DEF RootOf
<1>5. CASE v = "forwarded"
  <2>1. Varied(r, v) = Served(r, "anyone")
    BY <1>5 DEF Varied
  <2>2. Got(r, "GET") = Served(r, "anyone")
    BY <1>1, RefusalWasServed
  <2> QED
    BY <1>1, <1>2, <1>5, <2>1, <2>2 DEF OwnControl
<1>6. CASE v = "spelling"
  <2>1. Varied(r, v) = Missing(Origin(r))
    BY <1>6 DEF Varied
  <2>2. CatchAll(f, Origin(r)) # Missing(Origin(r))
    BY <1>1, <1>2, <2>1
  <2> QED
    BY <1>3, <2>2, NotReplied DEF CatchAll
<1> QED
  BY <1>4, <1>5, <1>6 DEF Variants

\* What a reported route serves, as SharedPagesBeginAlike has it.
Shared(r) ==
  LET s == target.served[r] IN
  /\ s.anyone \in {"refused", "hidden"}
  /\ {s.a, s.b} \subseteq {"record", "own"}
  /\ \/ s.a = "record" /\ s.b = "record"
     \/ OneHead({Body(r, "a"), Body(r, "b")})

\* Two bodies of which the same is kept are one, or both long and begin alike.
LEMMA KeptAlike ==
  ASSUME Typed, At("application"), NEW x, NEW y, Snippet(x) = Snippet(y),
         x[1] \in {"record", "own"}, y[1] \in {"record", "own"}
  PROVE  x = y \/ OneHead({x, y})
<1>1. x \notin DOMAIN target.long => Snippet(x)[1] # "head"
  BY DEF Snippet
<1>2. y \notin DOMAIN target.long => Snippet(y)[1] # "head"
  BY DEF Snippet
<1>3. x \in DOMAIN target.long => Snippet(x) = <<"head", target.long[x]>>
  BY DEF Snippet
<1>4. y \in DOMAIN target.long => Snippet(y) = <<"head", target.long[y]>>
  BY DEF Snippet
<1>5. x \in DOMAIN target.long <=> y \in DOMAIN target.long
  BY <1>1, <1>2, <1>3, <1>4
<1>6. CASE x \notin DOMAIN target.long
  BY <1>5, <1>6 DEF Snippet
<1>7. CASE x \in DOMAIN target.long
  <2>1. target.long[x] = target.long[y]
    BY <1>3, <1>4, <1>5, <1>7
  <2> QED
    BY <1>5, <1>7, <2>1 DEF OneHead
<1> QED
  BY <1>6, <1>7

LEMMA CrossIdentityIsReal ==
  ASSUME Typed, At("application"), NEW f, NEW r, Got(r, "GET").code # 200,
         Failure(r, "GET") = {},
         CrossIdentity(Got(r, "GET"), Reply(f, <<r, "a">>, Served(r, "a")),
                       Reply(f, <<r, "b">>, Served(r, "b")))
  PROVE  Shared(r)
<1>1. Got(r, "GET") = Served(r, "anyone")
  BY DEF Got
<1>2. /\ Reply(f, <<r, "a">>, Served(r, "a")).code = 200
      /\ Reply(f, <<r, "a">>, Served(r, "a")).body # <<"empty">>
      /\ Reply(f, <<r, "b">>, Served(r, "b")) = Reply(f, <<r, "a">>, Served(r, "a"))
  BY DEF CrossIdentity
<1>3. /\ Served(r, "a").code = 200 /\ Served(r, "a").body # <<"empty">>
      /\ Served(r, "b") = Served(r, "a")
  BY <1>2, Replied
<1>4. r \in DOMAIN target.served
  BY <1>1, <1>3 DEF Served
<1> DEFINE s == target.served[r]
           Serves(caller, w, reply) ==
             \/ /\ w \in {"record", "own", "empty"} /\ reply.code = 200
                /\ w = "record" => reply.body = Snippet(<<"record", r>>)
                /\ w = "own" => reply.body = Snippet(<<"own", r, caller>>)
                /\ w = "empty" => reply.body = Snippet(<<"empty">>)
             \/ w \in {"refused", "hidden"} /\ reply.code # 200
<1>5. /\ s["anyone"] \in {"record", "own", "empty", "refused", "hidden"}
      /\ s["a"] \in {"record", "own", "empty", "refused", "hidden"}
      /\ s["b"] \in {"record", "own", "empty", "refused", "hidden"}
  BY <1>4, ApplicationTarget
<1>6. /\ Serves("anyone", s["anyone"], Served(r, "anyone"))
      /\ Serves("a", s["a"], Served(r, "a"))
      /\ Serves("b", s["b"], Served(r, "b"))
  <2>1. Serves("anyone", s["anyone"], Served(r, "anyone"))
    BY <1>4, <1>5 DEF Served, Answer
  <2>2. Serves("a", s["a"], Served(r, "a"))
    BY <1>4, <1>5 DEF Served, Answer
  <2>3. Serves("b", s["b"], Served(r, "b"))
    BY <1>4, <1>5 DEF Served, Answer
  <2> QED
    BY <2>1, <2>2, <2>3
<1> HIDE DEF s
<1>7. s["anyone"] \in {"refused", "hidden"}
  BY <1>1, <1>5, <1>6
<1>8. <<"empty">> \notin DOMAIN target.long
  BY ApplicationTarget
<1>9. s["a"] \in {"record", "own", "empty"} /\ s["b"] \in {"record", "own", "empty"}
  BY <1>3, <1>6
<1>10. Snippet(<<"empty">>) = <<"empty">>
  BY <1>8 DEF Snippet
<1>11. s["a"] \in {"record", "own"} /\ s["b"] \in {"record", "own"}
  BY <1>3, <1>6, <1>9, <1>10
<1>12. /\ Served(r, "a").body = Snippet(Body(r, "a"))
       /\ Served(r, "b").body = Snippet(Body(r, "b"))
  <2>1. /\ Body(r, "a") = IF s["a"] = "record" THEN <<"record", r>> ELSE <<"own", r, "a">>
        /\ Body(r, "b") = IF s["b"] = "record" THEN <<"record", r>> ELSE <<"own", r, "b">>
    BY DEF Body, Made, s
  <2> QED
    BY <1>6, <1>11, <2>1
<1>13. Body(r, "a") = Body(r, "b") \/ OneHead({Body(r, "a"), Body(r, "b")})
  <2>1. Body(r, "a")[1] \in {"record", "own"} /\ Body(r, "b")[1] \in {"record", "own"}
    BY DEF Body, Made
  <2> QED
    BY <1>3, <1>12, <2>1, KeptAlike
<1>14. Body(r, "a") = Body(r, "b") => s["a"] = "record" /\ s["b"] = "record"
  BY <1>11 DEF Body, Made, s
<1> QED
  BY <1>7, <1>11, <1>13, <1>14 DEF Shared, s

LEMMA FailureGrows ==
  ASSUME NEW r, faults \subseteq faults'
  PROVE  Failure(r, "GET") \subseteq Failure(r, "GET")'
BY DEF Failure

\* What was said stays so as long as nothing more is said of its kind.
LEMMA BypassStays ==
  ASSUME BypassReachesTheRecord, UNCHANGED <<target, todo>>, faults \subseteq faults',
         \A y \in report' \ report : y[1] # "bypass"
  PROVE  BypassReachesTheRecord'
<1>1. \A x : Reported("bypass", x)' => Reported("bypass", x)
  BY DEF Reported, Found
<1> QED
  BY <1>1 DEF BypassReachesTheRecord, At

LEMMA CrossIdentityStays ==
  ASSUME SharedPagesBeginAlike, UNCHANGED <<target, todo>>, faults \subseteq faults',
         \A y \in report' \ report : y[1] # "cross-identity"
  PROVE  SharedPagesBeginAlike'
<1>1. \A x : Reported("cross-identity", x)' => Reported("cross-identity", x)
  BY DEF Reported, Found
<1>2. \A r : Failure(r, "GET")' = {} => Failure(r, "GET") = {}
  BY FailureGrows
<1> QED
  BY <1>1, <1>2 DEF SharedPagesBeginAlike, At, OneHead, Body

LEMMA InventoryTells ==
  ASSUME Typed, At("application"), RoutesTold, Inventory
  PROVE  RoutesTold'
<1>1. /\ pc = "inventory" /\ pc' = "routes" /\ target' = target
  BY DEF Inventory, scan
<1>2. \A y \in report' \ report : y[1] \in {"specification", "not-assessed", "budget"}
  BY InventoryDoes
<1>3. \A y \in report : y[1] \notin {"bypass", "cross-identity"}
  BY <1>1 DEF RoutesTold, BeforeBypass
<1>4. \A y \in report' : y[1] \notin {"bypass", "cross-identity"}
  BY <1>2, <1>3
<1>5. \A x : ~Reported("bypass", x)' /\ ~Reported("cross-identity", x)'
  BY <1>4 DEF Reported, Found
<1>6. BypassReachesTheRecord' /\ SharedPagesBeginAlike'
  BY <1>5 DEF BypassReachesTheRecord, SharedPagesBeginAlike
<1> QED
  BY <1>1, <1>4, <1>6 DEF RoutesTold, BeforeBypass, BeforeFamilies

LEMMA ProbeTells ==
  ASSUME At("application"), RoutesTold, Probe
  PROVE  RoutesTold'
<1>1. /\ pc = "routes" /\ pc' = "bypass" /\ UNCHANGED <<target, todo, report>>
      /\ faults \subseteq faults'
  BY RoutesGrow DEF Probe, scan, work, RoutesStep
<1>2. BypassReachesTheRecord' /\ SharedPagesBeginAlike'
  BY <1>1, BypassStays, CrossIdentityStays DEF RoutesTold
<1> QED
  BY <1>1, <1>2 DEF RoutesTold, BeforeBypass, BeforeFamilies

LEMMA BypassSays ==
  ASSUME Bypass, NEW y \in report' \ report
  PROVE  \/ y[1] = "budget"
         \/ \E f, r, v : Suffer(f) /\ Bypasses(f, r, v) /\ y = Found("bypass", <<r, v>>)
<1>1. PICK picks, f :
        /\ Suffer(f)
        /\ Say({Found("bypass", x) : x \in
                  {z \in picks \X Variants : Bypasses(f, z[1], z[2])}}
                 \cup Cut("-max-bypass-routes", picks, RefusedRoutes))
  BY DEF Bypass
<1>2. \A z \in Cut("-max-bypass-routes", picks, RefusedRoutes) : z[1] = "budget"
  <2>1. Found("budget", "-max-bypass-routes")[1] = "budget"
    BY DEF Found
  <2> QED
    BY <2>1 DEF Cut
<1>3. CASE y \in Cut("-max-bypass-routes", picks, RefusedRoutes)
  BY <1>2, <1>3
<1>4. CASE y \notin Cut("-max-bypass-routes", picks, RefusedRoutes)
  <2>1. PICK z \in picks \X Variants : Bypasses(f, z[1], z[2]) /\ y = Found("bypass", z)
    BY <1>1, <1>4 DEF Say
  <2>2. z = <<z[1], z[2]>>
    OBVIOUS
  <2> QED
    BY <1>1, <2>1, <2>2
<1> QED
  BY <1>3, <1>4

LEMMA BypassTells ==
  ASSUME At("application"), RoutesTold, Bypass
  PROVE  RoutesTold'
<1>1. /\ pc = "bypass" /\ pc' = "identities" /\ UNCHANGED <<target, todo>>
      /\ faults \subseteq faults'
  BY RoutesGrow DEF Bypass, scan, work, RoutesStep
<1>2. \A y \in report' \ report : y[1] \in {"budget", "bypass"}
  <2> SUFFICES ASSUME NEW y \in report' \ report PROVE y[1] \in {"budget", "bypass"}
    OBVIOUS
  <2> QED
    BY BypassSays DEF Found
<1>3. SharedPagesBeginAlike'
  BY <1>1, <1>2, CrossIdentityStays DEF RoutesTold
<1>4. ASSUME NEW r, NEW v \in Variants \ {"method"}, Reported("bypass", <<r, v>>)'
      PROVE  \/ r \in DOMAIN target.served /\ v \in target.served[r].loose
             \/ \E x \in faults' : x[1] = "bypass" /\ x[2][1] = <<Origin(r)>>
  <2>1. Found("bypass", <<r, v>>) \notin report
    BY <1>1 DEF RoutesTold, BeforeBypass, Found
  <2>2. Found("bypass", <<r, v>>) \in report' \ report
    BY <1>4, <2>1 DEF Reported
  <2>3. \/ Found("bypass", <<r, v>>)[1] = "budget"
        \/ \E f, s, u : Suffer(f) /\ Bypasses(f, s, u)
                          /\ Found("bypass", <<r, v>>) = Found("bypass", <<s, u>>)
    BY <2>2, BypassSays
  <2>4. \A s, u : Found("bypass", <<r, v>>) = Found("bypass", <<s, u>>) => r = s /\ v = u
    BY DEF Found
  <2>5. Found("bypass", <<r, v>>)[1] # "budget"
    BY DEF Found
  <2>6. PICK f : Suffer(f) /\ Bypasses(f, r, v)
    BY <2>3, <2>4, <2>5
  <2> QED
    BY <1>1, <2>6, BypassIsReal
<1>5. BypassReachesTheRecord'
  BY <1>1, <1>4 DEF BypassReachesTheRecord
<1>6. \A y \in report' : y[1] # "cross-identity"
  BY <1>1, <1>2 DEF RoutesTold, BeforeBypass
<1> QED
  BY <1>1, <1>3, <1>5, <1>6 DEF RoutesTold, BeforeBypass, BeforeFamilies

LEMMA IdentitiesTell ==
  ASSUME Typed, At("application"), RoutesTold, Identities
  PROVE  RoutesTold'
<1>1. /\ pc = "identities" /\ pc' = "families" /\ UNCHANGED <<target, todo>>
      /\ faults \subseteq faults'
  BY RoutesGrow DEF Identities, scan, work, RoutesStep
<1> DEFINE routes == IF opts.principals THEN {r \in Range(todo) : Got(r, "GET").code # 200}
                     ELSE {}
           SameTwice(f, x) ==
             CrossIdentity(Got(x, "GET"), Reply(f, <<x, "a">>, Served(x, "a")),
                           Reply(f, <<x, "b">>, Served(x, "b")))
<1>2. PICK f : Say({Found("cross-identity", r) : r \in {x \in routes : SameTwice(f, x)}})
  BY DEF Identities
<1>3. \A y \in report' \ report : \E x \in routes : y = Found("cross-identity", x) /\ SameTwice(f, x)
  <2> HIDE DEF routes, SameTwice
  <2> QED
    BY <1>2 DEF Say
<1>4. \A y \in report' \ report : y[1] = "cross-identity"
  <2>1. \A x : Found("cross-identity", x)[1] = "cross-identity"
    BY DEF Found
  <2> HIDE DEF routes, SameTwice
  <2> QED
    BY <1>3, <2>1
<1>5. BypassReachesTheRecord'
  BY <1>1, <1>4, BypassStays DEF RoutesTold
<1>6. ASSUME NEW r, Reported("cross-identity", r)', Failure(r, "GET")' = {}
      PROVE  Shared(r)
  <2>1. Found("cross-identity", r) \notin report
    BY <1>1 DEF RoutesTold, Found
  <2>2. PICK x \in routes : Found("cross-identity", r) = Found("cross-identity", x) /\ SameTwice(f, x)
    BY <1>3, <1>6, <2>1 DEF Reported
  <2>3. x = r
    BY <2>2 DEF Found
  <2>4. Failure(r, "GET") = {}
    BY <1>1, <1>6, FailureGrows
  <2> QED
    BY <2>2, <2>3, <2>4, CrossIdentityIsReal
<1>7. SharedPagesBeginAlike'
  BY <1>1, <1>6 DEF SharedPagesBeginAlike, Shared, OneHead, Body
<1> QED
  BY <1>1, <1>5, <1>7 DEF RoutesTold, BeforeBypass, BeforeFamilies

LEMMA FamiliesTell ==
  ASSUME At("application"), RoutesTold, Families
  PROVE  RoutesTold'
<1>1. /\ pc = "families" /\ pc' = "done" /\ UNCHANGED <<target, todo, faults>>
  BY DEF Families, scan, work
<1>2. report' = report
        \cup {Found("exposure", r) : r \in {x \in Range(todo) : Exposes(x)}}
        \cup {Found("inconsistent", x) :
                x \in {y \in Range(todo) \X Methods :
                         Inconsistent(y[1], y[2]) /\ (y[2] = "POST" => AllowPOST)}}
  BY DEF Families, Say
<1>3. \A y \in report' \ report : y[1] \in {"exposure", "inconsistent"}
  BY <1>2 DEF Found
<1>4. BypassReachesTheRecord' /\ SharedPagesBeginAlike'
  BY <1>1, <1>3, BypassStays, CrossIdentityStays DEF RoutesTold
<1>5. ASSUME NEW r \in Range(todo) \cap DOMAIN target.served,
             target.served[r].anyone = "record", target.served[r].secret,
             Made(r) \notin DOMAIN target.long, Failure(r, "GET") = {}
      PROVE  Reported("exposure", r)'
  <2>1. Got(r, "GET") = Answer(200, <<"record", r>>)
    BY <1>5 DEF Got, Served
  <2>2. Exposes(r)
    BY <1>5, <2>1 DEF Exposes, Answer, Snippet, Made
  <2> QED
    BY <1>2, <2>2 DEF Reported
<1>6. \A r : Failure(r, "GET")' = Failure(r, "GET")
  BY <1>1 DEF Failure
<1> QED
  BY <1>1, <1>4, <1>5, <1>6 DEF RoutesTold, BeforeBypass, BeforeFamilies

LEMMA RoutesToldKept ==
  ASSUME Typed, At("application"), RoutesTold, RoutesStep
  PROVE  RoutesTold'
BY InventoryTells, ProbeTells, BypassTells, IdentitiesTell, FamiliesTell DEF RoutesStep

LEMMA RoutesToldAtEnds ==
  ASSUME Typed, RoutesTold, Ends
  PROVE  RoutesTold'
<1>1. CASE ~At("application")
  BY <1>1, EndsDo DEF RoutesTold, At
<1>2. CASE At("application")
  <2>1. /\ UNCHANGED <<target, todo, faults>>
        /\ report \subseteq report'
        /\ \A y \in report' \ report :
             y[1] \in {"not-assessed", "intent-violation", "intent-unverified"}
        /\ \/ pc = "plan" /\ pc' = FirstStage
           \/ pc = "done" /\ pc' = "closed"
           \/ pc' = pc /\ report' = report
    BY EndsDo
  <2>2. FirstStage = "inventory"
    BY <1>2 DEF FirstStage, At
  <2>3. BypassReachesTheRecord' /\ SharedPagesBeginAlike'
    BY <1>2, <2>1, BypassStays, CrossIdentityStays DEF RoutesTold
  <2>4. \A r : /\ Failure(r, "GET")' = Failure(r, "GET")
               /\ Reported("exposure", r) => Reported("exposure", r)'
    BY <2>1 DEF Failure, Reported
  <2>5. /\ pc' \in BeforeBypass => \A y \in report' : y[1] # "bypass"
        /\ pc' \in BeforeBypass \cup {"identities"} => \A y \in report' : y[1] # "cross-identity"
    BY <1>2, <2>1, <2>2 DEF RoutesTold, BeforeBypass
  <2>6. pc' \in BeforeFamilies \cup {"done", "closed"}
    BY <1>2, <2>1, <2>2 DEF RoutesTold, BeforeBypass, BeforeFamilies
  <2>7. pc' \in {"done", "closed"} => pc \in {"done", "closed"}
    BY <2>1, <2>2
  <2> QED
    BY <1>2, <2>1, <2>3, <2>4, <2>5, <2>6, <2>7 DEF RoutesTold, At
<1> QED
  BY <1>1, <1>2

-----------------------------------------------------------------------------
(***************************************************************************)
(* All of it at once: what each kind of target needs is kept by its own    *)
(* steps, and says nothing of the others.                                  *)
(***************************************************************************)
OfFirebase ==
  /\ ReadsFirst
  /\ SweepsEnd
  /\ GainsFirebase
  /\ FunctionsTold
  /\ KeepsNothing
  /\ MeasuresNames

OfRoutes ==
  /\ RoutesPicked
  /\ RoutesTold

\* The strengthening of what is proved of the workloads beyond module Footprint.
Holds ==
  /\ Typed
  /\ OfFirebase
  /\ CreatesNothing
  /\ NeonTold
  /\ GainsPocketBase
  /\ OfRoutes
  /\ DeniedWhereverAsked

\* Only the comparison with the intent closes a workload.
LEMMA OnlyVerifyIntentCloses ==
  FirebaseStep \/ NeonStep \/ PocketBaseStep \/ RoutesStep => pc' # "closed"
<1>1. FirebaseStep => pc' # "closed"
  <2> SUFFICES ASSUME FirebaseStep PROVE pc' # "closed"
    OBVIOUS
  <2>1. CASE Firestore \/ RealtimeDatabase \/ NoWrites \/ WritesDone \/ Storage
    BY <2>1 DEF Firestore, RealtimeDatabase, NoWrites, WritesDone, Storage
  <2>2. CASE CreateProbe \/ RemoveProbe
    BY <2>2 DEF CreateProbe, RemoveProbe
  <2>3. CASE CloudFunctions \/ RemoteConfig \/ SignIn \/ NoAccounts \/ Escalate \/ KeepAccount
    BY <2>3 DEF CloudFunctions, RemoteConfig, SignIn, NoAccounts, Escalate, KeepAccount
  <2>4. CASE AskVisitor
    BY <2>4 DEF AskVisitor
  <2>5. CASE RemoveVisitor \/ Finish
    BY <2>5 DEF RemoveVisitor, Finish, Discards
  <2> QED
    BY <2>1, <2>2, <2>3, <2>4, <2>5 DEF FirebaseStep
<1>2. NeonStep => pc' # "closed"
  BY DEF NeonStep, Enumeration, Reach, Compare, NoInserts, Insert, ReportInserts, StageAfter
<1>3. PocketBaseStep => pc' # "closed"
  BY DEF PocketBaseStep, CollectionStage, NoConsent, SignUp, SignInMember, Gain,
         RemoveMember, Verify
<1>4. RoutesStep => pc' # "closed"
  BY RoutesGrow
<1> QED
  BY <1>1, <1>2, <1>3, <1>4

LEMMA DeniedWhereverAskedKept ==
  ASSUME Typed, MeasuresNames, RoutesPicked, DeniedWhereverAsked, [Next]_vars
  PROVE  DeniedWhereverAsked'
<1>1. CASE VerifyIntent
  BY <1>1, IntentIsVerified DEF RoutesPicked, RoutesAreListed
<1>2. CASE UNCHANGED vars
  <2>1. UNCHANGED <<target, opts, pc, todo, faults, report>>
    BY <1>2 DEF vars, scan, work
  <2>2. Facts' = Facts
    BY <2>1, FactsStay
  <2> QED
    BY <2>1, <2>2 DEF DeniedWhereverAsked, Reported
<1>3. CASE Begin
  <2>1. pc' # "closed"
    BY <1>3, KindsOf DEF Begin, FirstStage
  <2> QED
    BY <2>1 DEF DeniedWhereverAsked
<1>4. CASE FirebaseStep \/ NeonStep \/ PocketBaseStep \/ RoutesStep
  BY <1>4, OnlyVerifyIntentCloses DEF DeniedWhereverAsked
<1> QED
  BY <1>1, <1>2, <1>3, <1>4, NextIs DEF Ends

LEMMA FunctionsToldKept ==
  ASSUME Typed, At("firebase"), FunctionsTold, FirebaseStep
  PROVE  FunctionsTold'
<1>1. CASE CloudFunctions
  BY <1>1, CloudFunctionsTell
<1>2. CASE ~CloudFunctions
  <2>1. UNCHANGED <<target, opts>> /\ faults \subseteq faults'
    BY FirebaseFails, FailsNow DEF scan
  <2> QED
    BY <1>2, <2>1, FirebaseGrows, FirebaseOrder, FunctionsStayTold
<1> QED
  BY <1>1, <1>2

LEMMA OfFirebaseKept ==
  ASSUME Typed, OfFirebase, At("firebase"), FirebaseStep
  PROVE  OfFirebase'
BY ReadsFirstKept, SweepsEndKept, GainsFirebaseKept, FunctionsToldKept, KeepsNothingKept,
   MeasuresNamesKept DEF OfFirebase

\* Of another kind of target they say nothing.
LEMMA Elsewhere ==
  ASSUME target' = target
  PROVE  /\ ~At("firebase") => OfFirebase'
         /\ At("firebase") \/ At("pocketbase") => CreatesNothing'
         /\ ~At("neon") => NeonTold'
         /\ ~At("pocketbase") => GainsPocketBase'
         /\ ~At("application") => OfRoutes'
<1>1. \A kind : At(kind)' <=> At(kind)
  BY DEF At
<1>2. ~At("firebase") => OfFirebase'
  BY <1>1 DEF OfFirebase, ReadsFirst, SweepsEnd, GainsFirebase, FunctionsTold, KeepsNothing,
              MeasuresNames
<1>3. At("firebase") \/ At("pocketbase") => CreatesNothing'
  BY DEF CreatesNothing, At
<1>4. ~At("neon") => NeonTold'
  BY <1>1 DEF NeonTold
<1>5. ~At("pocketbase") => GainsPocketBase'
  BY <1>1 DEF GainsPocketBase
<1>6. ~At("application") => OfRoutes'
  BY <1>1 DEF OfRoutes, RoutesPicked, RoutesTold
<1> QED
  BY <1>2, <1>3, <1>4, <1>5, <1>6

LEMMA HoldsAtEnds ==
  ASSUME Holds, Ends
  PROVE  OfFirebase' /\ CreatesNothing' /\ NeonTold' /\ GainsPocketBase' /\ OfRoutes'
<1>1. Typed /\ OfFirebase /\ CreatesNothing /\ NeonTold /\ GainsPocketBase /\ OfRoutes
  BY DEF Holds
<1>2. OfFirebase' /\ CreatesNothing'
  BY <1>1, ReadsFirstAtEnds, SweepsEndAtEnds, GainsFirebaseAtEnds, FootprintAtEnds,
     MeasuresNamesAtEnds DEF OfFirebase
<1>3. NeonTold' /\ GainsPocketBase'
  BY <1>1, NeonToldAtEnds, GainsPocketBaseAtEnds
<1>4. OfRoutes'
  BY <1>1, RoutesPickedAtEnds, RoutesToldAtEnds DEF OfRoutes
<1> QED
  BY <1>2, <1>3, <1>4

LEMMA HoldsKept == Holds /\ [Next]_vars => Holds'
<1> SUFFICES ASSUME Holds, [Next]_vars PROVE Holds'
  OBVIOUS
<1>1. /\ Typed /\ OfFirebase /\ CreatesNothing /\ NeonTold /\ GainsPocketBase /\ OfRoutes
      /\ DeniedWhereverAsked
  BY DEF Holds
<1>2. Typed'
  BY <1>1, TypedKept
<1>3. DeniedWhereverAsked'
  BY <1>1, DeniedWhereverAskedKept DEF OfFirebase, OfRoutes
<1>4. target' = target
  BY StepFails DEF scan
<1>5. OfFirebase' /\ CreatesNothing' /\ NeonTold' /\ GainsPocketBase' /\ OfRoutes'
  <2>1. CASE Ends
    BY <2>1, HoldsAtEnds
  <2>2. CASE At("firebase") /\ FirebaseStep
    <3>1. ~At("neon") /\ ~At("pocketbase") /\ ~At("application")
      BY <2>2 DEF At
    <3> QED
      BY <1>1, <1>4, <2>2, <3>1, OfFirebaseKept, Elsewhere
  <2>3. CASE At("neon") /\ NeonStep
    <3>1. ~At("firebase") /\ ~At("pocketbase") /\ ~At("application")
      BY <2>3 DEF At
    <3>2. NeonTold'
      BY <1>1, <2>3, NeonToldKept
    <3>3. CreatesNothing'
      BY <1>1, <2>3, CreatesNothingKept
    <3> QED
      BY <1>4, <3>1, <3>2, <3>3, Elsewhere
  <2>4. CASE At("pocketbase") /\ PocketBaseStep
    <3>1. ~At("firebase") /\ ~At("neon") /\ ~At("application")
      BY <2>4 DEF At
    <3> QED
      BY <1>1, <1>4, <2>4, <3>1, GainsPocketBaseKept, Elsewhere
  <2>5. CASE At("application") /\ RoutesStep
    <3>1. ~At("firebase") /\ ~At("neon") /\ ~At("pocketbase")
      BY <2>5 DEF At
    <3>2. OfRoutes'
      BY <1>1, <2>5, RoutesPickedKept, RoutesToldKept DEF OfRoutes
    <3> QED
      BY <1>1, <1>4, <2>5, <3>1, <3>2, CreatesNothingKept, Elsewhere
  <2> QED
    BY <2>1, <2>2, <2>3, <2>4, <2>5, NextIs
<1> QED
  BY <1>2, <1>3, <1>5 DEF Holds

LEMMA HoldsAtFirst == Init => Holds
<1> SUFFICES ASSUME Init PROVE Holds
  OBVIOUS
<1>1. Typed
  BY TypedAtFirst
<1>2. /\ pc = "plan" /\ held = {} /\ left = {} /\ faults = {} /\ report = {}
      /\ asked = {} /\ todo = <<>> /\ session = "none"
  BY DEF Init
<1>3. todo \in Seq(Range(todo)) /\ Range(todo) = {}
  BY <1>2 DEF Range
<1>4. OfFirebase
  <2>1. ReadsFirst /\ SweepsEnd
    BY <1>2, <1>3 DEF ReadsFirst, SweepsEnd
  <2>2. GainsFirebase /\ FunctionsTold
    BY <1>2 DEF GainsFirebase, FunctionsTold, AfterFunctions
  <2>3. KeepsNothing /\ MeasuresNames
    BY <1>2, <1>3 DEF KeepsNothing, MeasuresNames
  <2> QED
    BY <2>1, <2>2, <2>3 DEF OfFirebase
<1>5. CreatesNothing /\ GainsPocketBase
  BY <1>2 DEF CreatesNothing, GainsPocketBase, Reported
<1>6. NeonTold
  BY <1>2 DEF NeonTold, Early, Compared, Reported
<1>7. OfRoutes
  <2>1. RoutesPicked
    BY <1>2, <1>3 DEF RoutesPicked, NoOriginIsStarved
  <2>2. BypassReachesTheRecord /\ SharedPagesBeginAlike
    BY <1>3 DEF BypassReachesTheRecord, SharedPagesBeginAlike
  <2>3. RoutesTold
    BY <1>2, <2>2 DEF RoutesTold, BeforeBypass, BeforeFamilies
  <2> QED
    BY <2>1, <2>3 DEF OfRoutes
<1>8. DeniedWhereverAsked
  BY <1>2 DEF DeniedWhereverAsked
<1> QED
  BY <1>1, <1>4, <1>5, <1>6, <1>7, <1>8 DEF Holds

THEOREM WorkloadsHold == Spec => []Holds
BY HoldsAtFirst, HoldsKept, PTL DEF Spec

\* What the workloads do to a target is within the operator's word: consent,
\* -no-residue, scope, names that answered, and the first reply about the
\* whole project.
THEOREM TargetsStaySpared == Spec => []TargetsAreSpared
<1>1. Holds /\ TypeOK /\ NothingWithoutConsent => TargetsAreSpared
  <2> SUFFICES ASSUME Holds, TypeOK, NothingWithoutConsent PROVE TargetsAreSpared
    OBVIOUS
  <2>1. Typed /\ OfFirebase /\ CreatesNothing /\ OfRoutes
    BY DEF Holds
  <2>2. NothingStaysUnwanted
    BY <2>1, NothingUnwanted DEF OfFirebase
  <2>3. WritesGoWhereReadsDid
    BY <2>1 DEF OfFirebase, ReadsFirst, WhereRead, WritesGoWhereReadsDid
  <2>4. TerminalEndsTheSweep
    BY <2>1, SweepsEndOnce DEF OfFirebase
  <2>5. ScopeIsTheOperators
    BY <2>1 DEF OfRoutes, RoutesPicked, ScopeIsTheOperators
  <2> QED
    BY <2>2, <2>3, <2>4, <2>5 DEF TargetsAreSpared
<1> QED
  BY <1>1, WorkloadsHold, TypesAreKept, ConsentToCreate, PTL

\* What a workload says is so: a gain, a row, a way past a refusal, an expectation
\* that was met; and what it calls another account's record is one record, or two
\* that begin alike and are longer than what is compared.
THEOREM ClaimsStayReal == Spec => []ClaimsAreReal
<1>1. Holds => ClaimsAreReal
  <2> SUFFICES ASSUME Holds PROVE ClaimsAreReal
    OBVIOUS
  <2>1. OfFirebase /\ NeonTold /\ GainsPocketBase /\ OfRoutes /\ DeniedWhereverAsked
    BY DEF Holds
  <2>2. GainIsReal
    BY <2>1 DEF OfFirebase, GainsFirebase, GainsPocketBase, GainIsReal
  <2>3. NoRowOfItsOwn
    BY <2>1 DEF NeonTold, NoRowOfItsOwn
  <2>4. BypassReachesTheRecord
    BY <2>1 DEF OfRoutes, RoutesTold, BypassReachesTheRecord
  <2>5. SharedPagesBeginAlike
    BY <2>1 DEF OfRoutes, RoutesTold, SharedPagesBeginAlike
  <2> QED
    BY <2>1, <2>2, <2>3, <2>4, <2>5 DEF ClaimsAreReal
<1> QED
  BY <1>1, WorkloadsHold, PTL

\* What a workload does not establish it owns up to: what a budget cut, what was
\* volunteered, a token nobody accepts, a target that answers alike to all; an
\* open route with a record too long to be kept whole is the exception.
THEOREM GapsStayDeclared == Spec => []GapsAreDeclared
<1>1. Holds => GapsAreDeclared
  <2> SUFFICES ASSUME Holds PROVE GapsAreDeclared
    OBVIOUS
  <2>1. OfFirebase /\ NeonTold /\ OfRoutes
    BY DEF Holds
  <2>2. FunctionsAreReportedOrDeclared
    BY <2>1 DEF OfFirebase, FunctionsTold, FunctionsAreReportedOrDeclared, Ended,
                AfterFunctions
  <2>3. ASSUME Ended("neon")
        PROVE  At("neon") /\ pc \in Compared /\ pc \notin {"plan", "enumerate"}
    BY <2>3 DEF Ended, Compared
  <2>4. VolunteeredNamesAreTested
    <3>1. Token = "accepted" => opts.bearer
      BY DEF Token
    <3> QED
      BY <2>1, <2>3, <3>1 DEF NeonTold, VolunteeredNamesAreTested
  <2>5. RefusedTokenIsDeclared /\ BlindnessIsSaid
    BY <2>1, <2>3 DEF NeonTold, RefusedTokenIsDeclared, BlindnessIsSaid
  <2>6. NoOriginIsStarved
    BY <2>1 DEF OfRoutes, RoutesPicked, NoOriginIsStarved
  <2>7. OpenRoutesAreReportedOrDeclared
    BY <2>1 DEF OfRoutes, RoutesPicked, RoutesTold, OpenRoutesAreReportedOrDeclared, Ended
  <2> QED
    BY <2>2, <2>4, <2>5, <2>6, <2>7 DEF GapsAreDeclared
<1> QED
  BY <1>1, WorkloadsHold, PTL
=============================================================================
