--------------------------- MODULE TransportProofs ---------------------------
(***************************************************************************)
(* Proofs about Transport, for every number of workers, of retries and     *)
(* every pair of budgets.                                                  *)
(***************************************************************************)
EXTENDS Transport, FiniteSetTheorems, TLAPS

\* The flags, apart from the rest of the type: no arithmetic is involved.
LEMMA FlagsStep == FlagsTyped /\ [Next]_vars => FlagsTyped'
<1> SUFFICES ASSUME FlagsTyped, [Next]_vars PROVE FlagsTyped'
  OBVIOUS
<1> USE DEF FlagsTyped
<1>1. CASE Cancel
  BY <1>1, Zenon DEF Cancel, counters
<1>2. ASSUME NEW w \in Workers, Call(w) \/ BadRequest(w) \/ Receive(w)
      PROVE FlagsTyped'
  BY <1>2, Zenon DEF Call, BadRequest, Receive, counters
<1>3. ASSUME NEW w \in Workers, Send(w) \/ Record(w) PROVE FlagsTyped'
  BY <1>3, Zenon DEF Send, Record, RefusalAdd, RefusalCheck, OpenBreaker,
     UsefulAdd, ResetRefusals, Accept, AuthLoad, AuthAdd, KeyStore, KeyOpen,
     counters
<1>4. ASSUME NEW w \in Workers, After(w) PROVE FlagsTyped'
  BY <1>4, Zenon DEF After, StopHere, OutOfAttempts, TryAgain, Backoff,
     counters
<1>5. CASE UNCHANGED vars
  BY <1>5, Zenon DEF vars, counters
<1> QED BY <1>1, <1>2, <1>3, <1>4, <1>5 DEF Next, Advance

\* TypeOK is not inductive by itself: a worker leaves its backoff by one more
\* attempt, and only the way it got there says that one is left.  It got
\* there with an answer in hand: the wait is for a 429 or a 5xx.
RetryLeft == \A w \in Workers :
               pc[w] = "backoff" =>
                 attempt[w] < Retries /\ answer[w] = "refused"

Typed == NumbersTyped /\ LocalsTyped /\ RetryLeft

LEMMA NumbersAndLocalsStep == Typed /\ [Next]_vars => Typed'
<1> SUFFICES ASSUME Typed, [Next]_vars PROVE Typed'
  OBVIOUS
<1> USE BudgetAssumption
    DEF Typed, NumbersTyped, LocalsTyped, RetryLeft, PCs, Answers
<1>1. CASE Cancel
  BY <1>1 DEF Cancel, counters, history
<1>2. ASSUME NEW w \in Workers, Call(w) PROVE Typed'
  BY <1>2 DEF Call, Goto, counters
<1>3. ASSUME NEW w \in Workers, BadRequest(w) \/ Send(w) PROVE Typed'
  BY <1>3 DEF BadRequest, Send, Goto, counters, history
<1>4. ASSUME NEW w \in Workers, Receive(w) PROVE Typed'
  BY <1>4 DEF Receive, Goto, counters
<1>5. ASSUME NEW w \in Workers, Record(w) PROVE Typed'
  <2>1. CASE RefusalAdd(w) \/ RefusalCheck(w) \/ OpenBreaker(w)
    BY <2>1 DEF RefusalAdd, RefusalCheck, OpenBreaker, Goto, counters, history
  <2>2. CASE UsefulAdd(w) \/ ResetRefusals(w) \/ Accept(w)
    BY <2>2 DEF UsefulAdd, ResetRefusals, Accept, Goto, counters, history
  <2>3. CASE AuthLoad(w) \/ AuthAdd(w) \/ KeyStore(w) \/ KeyOpen(w)
    BY <2>3 DEF AuthLoad, AuthAdd, KeyStore, KeyOpen, Goto, counters, history
  <2> QED BY <1>5, <2>1, <2>2, <2>3 DEF Record
<1>6. ASSUME NEW w \in Workers, After(w) PROVE Typed'
  <2>0. UNCHANGED <<cancelled, answer, n, calls, refusedSeen, rejectedSeen,
                    late>>
    BY <1>6 DEF After
  <2>1. CASE StopHere(w)
    BY <2>0, <2>1 DEF StopHere, Return, Goto, counters
  <2>4. CASE OutOfAttempts(w)
    BY <2>0, <2>4 DEF OutOfAttempts, Return, Goto
  <2>2. CASE TryAgain(w)
    BY <2>0, <2>2 DEF TryAgain, LastAttempt, Goto, counters
  <2>3. CASE Backoff(w)
    BY <2>0, <2>3 DEF Backoff, Return, Goto, counters
  <2> QED BY <1>6, <2>1, <2>2, <2>3, <2>4 DEF After
<1>7. CASE UNCHANGED vars
  BY <1>7 DEF vars, counters, history
<1> QED BY <1>1, <1>2, <1>3, <1>4, <1>5, <1>6, <1>7 DEF Next, Advance

\* Every counter of client.counters and every local of Do keeps its type; in
\* particular no attempt is made beyond Options.Retries.
THEOREM TypeCorrect == Spec => []TypeOK
<1>1. Init => Typed
  BY BudgetAssumption DEF Init, Typed, RetryLeft, NumbersTyped, LocalsTyped,
     PCs, Answers
<1>2. Init => FlagsTyped
  BY Zenon DEF Init, FlagsTyped
<1>3. Typed /\ FlagsTyped => TypeOK
  BY Zenon DEF Typed, TypeOK
<1> QED BY <1>1, <1>2, <1>3, FlagsStep, NumbersAndLocalsStep, PTL DEF Spec

-----------------------------------------------------------------------------
(***************************************************************************)
(* The overshoot.  Inductive form: a worker that has sent after the        *)
(* breaker opened cannot reach another send, because Do re-reads gaveUp on *)
(* the only way back to one.                                               *)
(***************************************************************************)
LateIsStuck == \A w \in Workers :
                 late[w] # 0 => /\ gaveUp /\ late[w] = 1
                                /\ pc[w] \notin {"pace", "backoff"}

LEMMA LateIsStuckStep == Typed /\ LateIsStuck /\ [Next]_vars => LateIsStuck'
<1> SUFFICES ASSUME Typed, LateIsStuck, [Next]_vars, NEW v \in Workers,
                    late'[v] # 0
             PROVE  /\ gaveUp' /\ late'[v] = 1
                    /\ pc'[v] \notin {"pace", "backoff"}
  BY DEF LateIsStuck
<1> USE DEF Typed, LocalsTyped, LateIsStuck, PCs, Answers
<1>1. CASE Cancel
  BY <1>1 DEF Cancel, counters, history
<1>2. ASSUME NEW w \in Workers, Call(w) \/ BadRequest(w) \/ Receive(w)
      PROVE /\ gaveUp' /\ late'[v] = 1 /\ pc'[v] \notin {"pace", "backoff"}
  BY <1>2 DEF Call, BadRequest, Receive, Goto, counters, history, IsRefusal
<1>3. ASSUME NEW w \in Workers, Send(w)
      PROVE /\ gaveUp' /\ late'[v] = 1 /\ pc'[v] \notin {"pace", "backoff"}
  BY <1>3 DEF Send, Goto
<1>4. ASSUME NEW w \in Workers, Record(w)
      PROVE /\ gaveUp' /\ late'[v] = 1 /\ pc'[v] \notin {"pace", "backoff"}
  <2>1. CASE RefusalAdd(w) \/ RefusalCheck(w) \/ OpenBreaker(w)
    BY <2>1 DEF RefusalAdd, RefusalCheck, OpenBreaker, Goto, counters, history
  <2>2. CASE UsefulAdd(w) \/ ResetRefusals(w) \/ Accept(w)
    BY <2>2 DEF UsefulAdd, ResetRefusals, Accept, Goto, counters, history
  <2>3. CASE AuthLoad(w) \/ AuthAdd(w) \/ KeyStore(w) \/ KeyOpen(w)
    BY <2>3 DEF AuthLoad, AuthAdd, KeyStore, KeyOpen, Goto, counters, history
  <2> QED BY <1>4, <2>1, <2>2, <2>3 DEF Record
<1>5. ASSUME NEW w \in Workers, After(w)
      PROVE /\ gaveUp' /\ late'[v] = 1 /\ pc'[v] \notin {"pace", "backoff"}
  BY <1>5 DEF After, StopHere, OutOfAttempts, TryAgain, Backoff, Return, Goto,
     counters
<1>6. CASE UNCHANGED vars
  BY <1>6 DEF vars, counters, history
<1> QED BY <1>1, <1>2, <1>3, <1>4, <1>5, <1>6 DEF Next, Advance

\* For every number of workers and of retries: once the breaker is open each
\* worker sends at most one more request.
THEOREM OvershootBound == Spec => []StopsWithinOneRequest
<1>1. Init => Typed /\ LateIsStuck
  BY BudgetAssumption DEF Init, Typed, RetryLeft, NumbersTyped, LocalsTyped,
     PCs, Answers, LateIsStuck
<1>2. Typed /\ LateIsStuck => StopsWithinOneRequest
  BY DEF Typed, LocalsTyped, LateIsStuck, StopsWithinOneRequest
<1> QED
  BY <1>1, <1>2, NumbersAndLocalsStep, LateIsStuckStep, PTL DEF Spec

-----------------------------------------------------------------------------
LEMMA FailedStep ==
  Typed /\ FailedCountsUnanswered /\ [Next]_vars => FailedCountsUnanswered'
<1> SUFFICES ASSUME Typed, FailedCountsUnanswered, [Next]_vars
             PROVE  FailedCountsUnanswered'
  OBVIOUS
<1> USE DEF Typed, NumbersTyped, RetryLeft, FailedCountsUnanswered
<1>1. CASE Cancel
  BY <1>1 DEF Cancel, counters, history
<1>2. ASSUME NEW w \in Workers, 
             Call(w) \/ BadRequest(w) \/ Send(w) \/ Receive(w)
      PROVE FailedCountsUnanswered'
  BY <1>2 DEF Call, BadRequest, Send, Receive, counters, history
<1>3. ASSUME NEW w \in Workers, Record(w) PROVE FailedCountsUnanswered'
  BY <1>3 DEF Record, RefusalAdd, RefusalCheck, OpenBreaker,
     UsefulAdd, ResetRefusals, Accept, AuthLoad, AuthAdd, KeyStore, KeyOpen,
     counters, history
<1>4. ASSUME NEW w \in Workers, After(w) PROVE FailedCountsUnanswered'
  <2>1. CASE StopHere(w) \/ OutOfAttempts(w)
    BY <2>1 DEF StopHere, OutOfAttempts, Return, counters
  <2>2. CASE TryAgain(w)
    BY <2>2 DEF TryAgain, counters
  <2>3. CASE Backoff(w)
    BY <2>3 DEF Backoff, Return, counters
  <2> QED BY <1>4, <2>1, <2>2, <2>3 DEF After
<1>5. CASE UNCHANGED vars
  BY <1>5 DEF vars, counters, history
<1> QED BY <1>1, <1>2, <1>3, <1>4, <1>5 DEF Next, Advance

\* The two numbers Stats prints: failed never overstates, and understates only
\* once the breaker is open.
THEOREM FailedCounts == Spec => []FailedCountsUnanswered
<1>1. Init => Typed /\ FailedCountsUnanswered
  BY BudgetAssumption DEF Init, Typed, RetryLeft, NumbersTyped, LocalsTyped,
     PCs, Answers, FailedCountsUnanswered
<1> QED BY <1>1, NumbersAndLocalsStep, FailedStep, PTL DEF Spec

-----------------------------------------------------------------------------
(***************************************************************************)
(* The breaker opens only on evidence.  A refused attempt is seen before   *)
(* it is counted, so what record has counted and what is still on its way  *)
(* to refusals.Add never exceed what was seen; the same for a 401 and      *)
(* authRejects.Add.                                                        *)
(***************************************************************************)
PendingRefusals == {w \in Workers : pc[w] = "refusalAdd"}

RefusalEvidence ==
  /\ refusals + Cardinality(PendingRefusals) <= refusedSeen
  /\ \A w \in Workers : /\ n[w] <= refusedSeen
                        /\ pc[w] = "open" => n[w] >= RefusalBudget

LEMMA PendingFinite == /\ IsFiniteSet(PendingRefusals)
                       /\ Cardinality(PendingRefusals) \in Nat
<1>1. PendingRefusals \subseteq Workers
  BY DEF PendingRefusals
<1> QED BY <1>1, WorkersAssumption, FS_Subset, FS_CardinalityType

LEMMA RefusalEvidenceStep ==
  Typed /\ RefusalEvidence /\ [Next]_vars => RefusalEvidence'
<1> SUFFICES ASSUME Typed, RefusalEvidence, [Next]_vars
             PROVE  RefusalEvidence'
  OBVIOUS
<1> USE DEF Typed, NumbersTyped, LocalsTyped, PCs, Answers
<1>0. /\ IsFiniteSet(PendingRefusals) /\ Cardinality(PendingRefusals) \in Nat
  BY PendingFinite
<1>1. \* whatever touches neither side of the inequality
      ASSUME PendingRefusals' = PendingRefusals,
             UNCHANGED <<refusals, refusedSeen, n>>,
             \A v \in Workers : pc'[v] = "open" =>
               pc[v] = "open" \/ n[v] >= RefusalBudget
      PROVE  RefusalEvidence'
  <2>1. Cardinality(PendingRefusals') = Cardinality(PendingRefusals)
    BY <1>1
  <2> QED BY <1>1, <2>1 DEF RefusalEvidence
<1>2. CASE Cancel \/ UNCHANGED vars
  <2>1. UNCHANGED <<refusals, refusedSeen, n, pc>>
    BY <1>2 DEF Cancel, vars, counters, history
  <2> QED BY <1>1, <2>1 DEF PendingRefusals
<1>3. ASSUME NEW w \in Workers, Call(w) \/ BadRequest(w) \/ Send(w)
      PROVE  RefusalEvidence'
  <2>1. UNCHANGED <<refusals, refusedSeen, n>>
    BY <1>3 DEF Call, BadRequest, Send, counters, history
  <2>2. \/ pc' = pc
        \/ \E l \in {"pace", "idle", "flight"} :
             pc[w] # "refusalAdd" /\ pc' = [pc EXCEPT ![w] = l]
    BY <1>3 DEF Call, BadRequest, Send, Goto
  <2> QED BY <1>1, <2>1, <2>2 DEF PendingRefusals
<1>4. ASSUME NEW w \in Workers, Receive(w) PROVE RefusalEvidence'
  <2> PICK a \in Answers :
         /\ pc' = [pc EXCEPT ![w] = IF IsRefusal(a) THEN "refusalAdd"
                                                    ELSE "useful"]
         /\ refusedSeen' = IF IsRefusal(a) THEN refusedSeen + 1
                                           ELSE refusedSeen
    BY <1>4 DEF Receive, Goto
  <2>0. pc[w] = "flight" /\ UNCHANGED <<refusals, n>>
    BY <1>4 DEF Receive, counters
  <2>1. CASE IsRefusal(a)
    <3>1. PendingRefusals' = PendingRefusals \cup {w} /\ w \notin PendingRefusals
      BY <2>0, <2>1 DEF PendingRefusals
    <3>2. Cardinality(PendingRefusals') = Cardinality(PendingRefusals) + 1
      BY <1>0, <3>1, FS_AddElement
    <3>3. \A v \in Workers : pc'[v] = "open" => pc[v] = "open"
      BY <2>0, <2>1
    <3> QED BY <1>0, <2>0, <2>1, <3>2, <3>3 DEF RefusalEvidence
  <2>2. CASE ~IsRefusal(a)
    <3>1. PendingRefusals' = PendingRefusals
      BY <2>0, <2>2 DEF PendingRefusals
    <3> QED BY <1>1, <2>0, <2>2, <3>1
  <2> QED BY <2>1, <2>2
<1>5. ASSUME NEW w \in Workers, RefusalAdd(w) PROVE RefusalEvidence'
  <2>0. /\ pc[w] = "refusalAdd" /\ refusals' = refusals + 1
        /\ n' = [n EXCEPT ![w] = refusals + 1]
        /\ pc' = [pc EXCEPT ![w] = "refusalCheck"]
        /\ UNCHANGED refusedSeen
    BY <1>5 DEF RefusalAdd, Goto, history
  <2>1. PendingRefusals' = PendingRefusals \ {w} /\ w \in PendingRefusals
    BY <2>0 DEF PendingRefusals
  <2>2. Cardinality(PendingRefusals') = Cardinality(PendingRefusals) - 1
    BY <1>0, <2>1, FS_RemoveElement
  <2>3. Cardinality(PendingRefusals') \in Nat
    BY <1>0, <2>1, FS_RemoveElement, FS_CardinalityType
  <2> QED BY <1>0, <2>0, <2>2, <2>3 DEF RefusalEvidence
<1>6. ASSUME NEW w \in Workers, ResetRefusals(w) PROVE RefusalEvidence'
  <2>0. /\ pc[w] = "reset" /\ refusals' = 0 /\ UNCHANGED <<refusedSeen, n>>
        /\ \E l \in {"authLoad", "accept"} : pc' = [pc EXCEPT ![w] = l]
    BY <1>6 DEF ResetRefusals, Goto, history
  <2>1. PendingRefusals' = PendingRefusals
    BY <2>0 DEF PendingRefusals
  <2>2. \A v \in Workers : pc'[v] = "open" => pc[v] = "open"
    BY <2>0
  <2>3. Cardinality(PendingRefusals') = Cardinality(PendingRefusals)
    BY <2>1
  <2> QED BY <1>0, <2>0, <2>2, <2>3 DEF RefusalEvidence
<1>7. ASSUME NEW w \in Workers, RefusalCheck(w) PROVE RefusalEvidence'
  <2>0. /\ pc[w] = "refusalCheck" /\ UNCHANGED <<refusals, refusedSeen, n>>
        /\ pc' = [pc EXCEPT ![w] =
             IF useful = 0 /\ n[w] >= RefusalBudget THEN "open" ELSE "after"]
    BY <1>7 DEF RefusalCheck, Goto, counters, history
  <2> QED BY <1>1, <2>0 DEF PendingRefusals
<1>8. ASSUME NEW w \in Workers,
             \/ OpenBreaker(w) \/ UsefulAdd(w) \/ AuthLoad(w) \/ AuthAdd(w)
             \/ KeyStore(w) \/ KeyOpen(w) \/ Accept(w) \/ After(w)
      PROVE  RefusalEvidence'
  <2>1. UNCHANGED <<refusals, refusedSeen, n>>
    BY <1>8 DEF OpenBreaker, UsefulAdd, AuthLoad, AuthAdd, KeyStore, KeyOpen,
       Accept, After, StopHere, OutOfAttempts, TryAgain, Backoff, counters,
       history
  <2>2. \E l \in {"after", "reset", "authAdd", "idle", "keyStore", "keyOpen",
                  "pace", "backoff"} :
          pc[w] # "refusalAdd" /\ pc' = [pc EXCEPT ![w] = l]
    BY <1>8 DEF OpenBreaker, UsefulAdd, AuthLoad, AuthAdd, KeyStore, KeyOpen,
       Accept, After, StopHere, OutOfAttempts, TryAgain, Backoff, Return, Goto
  <2> QED BY <1>1, <2>1, <2>2 DEF PendingRefusals
<1> QED
  BY <1>2, <1>3, <1>4, <1>5, <1>6, <1>7, <1>8 DEF Next, Advance, Record

\* Workers holding a 401 that authRejects does not count yet.
PendingRejects ==
  {w \in Workers : /\ pc[w] \in {"useful", "reset", "authLoad", "authAdd"}
                   /\ answer[w] = "unauthorized"}

RejectEvidence ==
  /\ authRejects + Cardinality(PendingRejects) <= rejectedSeen
  /\ \A w \in Workers :
       /\ pc[w] \in {"authLoad", "authAdd"} => answer[w] = "unauthorized"
       /\ pc[w] = "keyStore" => rejectedSeen >= AuthBudget
       /\ pc[w] = "keyOpen" => keyRejected

LEMMA RejectsFinite == /\ IsFiniteSet(PendingRejects)
                       /\ Cardinality(PendingRejects) \in Nat
<1>1. PendingRejects \subseteq Workers
  BY DEF PendingRejects
<1> QED BY <1>1, WorkersAssumption, FS_Subset, FS_CardinalityType

LEMMA RejectEvidenceStep ==
  Typed /\ RejectEvidence /\ [Next]_vars => RejectEvidence'
<1> SUFFICES ASSUME Typed, RejectEvidence, [Next]_vars
             PROVE  RejectEvidence'
  OBVIOUS
<1> USE BudgetAssumption DEF Typed, NumbersTyped, LocalsTyped, PCs, Answers
<1>0. /\ IsFiniteSet(PendingRejects) /\ Cardinality(PendingRejects) \in Nat
  BY RejectsFinite
<1>1. \* a worker may be on its way to noteAuth and leave it, none may join
      ASSUME PendingRejects' \subseteq PendingRejects,
             UNCHANGED <<authRejects, rejectedSeen>>,
             keyRejected => keyRejected',
             \A v \in Workers :
               /\ pc'[v] \in {"authLoad", "authAdd"} =>
                    answer'[v] = "unauthorized"
               /\ pc'[v] = "keyStore" => pc[v] = "keyStore"
               /\ pc'[v] = "keyOpen" => pc[v] = "keyOpen" \/ keyRejected'
      PROVE  RejectEvidence'
  <2>1. /\ Cardinality(PendingRejects') <= Cardinality(PendingRejects)
        /\ Cardinality(PendingRejects') \in Nat
    BY <1>0, <1>1, FS_Subset, FS_CardinalityType
  <2> QED BY <1>0, <1>1, <2>1 DEF RejectEvidence
<1>2. CASE Cancel \/ UNCHANGED vars
  <2>1. UNCHANGED <<authRejects, rejectedSeen, keyRejected, pc, answer>>
    BY <1>2 DEF Cancel, vars, counters, history
  <2> QED BY <1>1, <2>1 DEF PendingRejects, RejectEvidence
<1>3. ASSUME NEW w \in Workers, Call(w) \/ BadRequest(w) \/ Send(w)
      PROVE  RejectEvidence'
  <2>1. UNCHANGED <<authRejects, rejectedSeen, keyRejected>>
    BY <1>3 DEF Call, BadRequest, Send, counters, history
  <2>2. \/ pc' = pc /\ answer' = answer
        \/ /\ \E l \in {"pace", "idle", "flight"} : pc' = [pc EXCEPT ![w] = l]
           /\ \/ answer' = answer
              \/ answer' = [answer EXCEPT ![w] = "error"]
    BY <1>3 DEF Call, BadRequest, Send, Goto
  <2> QED BY <1>1, <2>1, <2>2 DEF PendingRejects, RejectEvidence
<1>4. ASSUME NEW w \in Workers, Receive(w) PROVE RejectEvidence'
  <2> PICK a \in Answers :
         /\ answer' = [answer EXCEPT ![w] = a]
         /\ pc' = [pc EXCEPT ![w] = IF IsRefusal(a) THEN "refusalAdd"
                                                    ELSE "useful"]
         /\ rejectedSeen' = IF a = "unauthorized" THEN rejectedSeen + 1
                                                  ELSE rejectedSeen
    BY <1>4 DEF Receive, Goto
  <2>0. pc[w] = "flight" /\ UNCHANGED <<authRejects, keyRejected>>
    BY <1>4 DEF Receive, counters
  <2>1. CASE a = "unauthorized"
    <3>1. PendingRejects' = PendingRejects \cup {w} /\ w \notin PendingRejects
      BY <2>0, <2>1 DEF PendingRejects, IsRefusal
    <3>2. Cardinality(PendingRejects') = Cardinality(PendingRejects) + 1
      BY <1>0, <3>1, FS_AddElement
    <3> QED BY <1>0, <2>0, <2>1, <3>2 DEF RejectEvidence, IsRefusal
  <2>2. CASE a # "unauthorized"
    <3>1. PendingRejects' = PendingRejects
      BY <2>0, <2>2 DEF PendingRejects, IsRefusal
    <3> QED BY <1>1, <2>0, <2>2, <3>1 DEF RejectEvidence, IsRefusal
  <2> QED BY <2>1, <2>2
<1>5. ASSUME NEW w \in Workers, AuthAdd(w) PROVE RejectEvidence'
  <2>0. /\ pc[w] = "authAdd" /\ answer[w] = "unauthorized"
        /\ authRejects' = authRejects + 1
        /\ pc' = [pc EXCEPT ![w] =
             IF authRejects + 1 >= AuthBudget THEN "keyStore" ELSE "idle"]
        /\ UNCHANGED <<rejectedSeen, keyRejected, answer>>
    BY <1>5 DEF AuthAdd, Goto, history, RejectEvidence
  <2>1. PendingRejects' = PendingRejects \ {w} /\ w \in PendingRejects
    BY <2>0 DEF PendingRejects
  <2>2. /\ Cardinality(PendingRejects') = Cardinality(PendingRejects) - 1
        /\ Cardinality(PendingRejects') \in Nat
    BY <1>0, <2>1, FS_RemoveElement, FS_CardinalityType
  <2> QED BY <1>0, <2>0, <2>2 DEF RejectEvidence
<1>6. ASSUME NEW w \in Workers, UsefulAdd(w) \/ ResetRefusals(w) \/ AuthLoad(w)
      PROVE  RejectEvidence'
  <2>0. UNCHANGED <<authRejects, rejectedSeen, keyRejected, answer>>
    BY <1>6 DEF UsefulAdd, ResetRefusals, AuthLoad, counters, history
  <2>1. \/ pc[w] = "useful" /\ pc' = [pc EXCEPT ![w] = "reset"]
        \/ /\ pc[w] = "reset" /\ answer[w] = "unauthorized"
           /\ pc' = [pc EXCEPT ![w] = "authLoad"]
        \/ /\ pc[w] = "reset" /\ answer[w] # "unauthorized"
           /\ pc' = [pc EXCEPT ![w] = "accept"]
        \/ /\ pc[w] = "authLoad"
           /\ \E l \in {"authAdd", "idle"} : pc' = [pc EXCEPT ![w] = l]
    BY <1>6 DEF UsefulAdd, ResetRefusals, AuthLoad, Goto
  <2> QED BY <1>1, <2>0, <2>1 DEF PendingRejects, RejectEvidence
<1>7. ASSUME NEW w \in Workers, KeyStore(w) PROVE RejectEvidence'
  <2>0. /\ UNCHANGED <<authRejects, rejectedSeen, answer>> /\ keyRejected'
        /\ pc[w] = "keyStore" /\ pc' = [pc EXCEPT ![w] = "keyOpen"]
    BY <1>7, Zenon DEF KeyStore, Goto, history
  <2> QED BY <1>1, <2>0 DEF PendingRejects, RejectEvidence
<1>8. ASSUME NEW w \in Workers,
             \/ OpenBreaker(w) \/ RefusalAdd(w) \/ RefusalCheck(w)
             \/ KeyOpen(w) \/ Accept(w) \/ After(w)
      PROVE  RejectEvidence'
  <2>1. UNCHANGED <<authRejects, rejectedSeen, keyRejected, answer>>
    BY <1>8 DEF OpenBreaker, RefusalAdd, RefusalCheck, KeyOpen, Accept, After,
       StopHere, OutOfAttempts, TryAgain, Backoff, counters, history
  <2>2. \E l \in {"after", "refusalCheck", "open", "idle", "pace", "backoff"} :
          pc' = [pc EXCEPT ![w] = l]
    BY <1>8 DEF OpenBreaker, RefusalAdd, RefusalCheck, KeyOpen, Accept, After,
       StopHere, OutOfAttempts, TryAgain, Backoff, Return, Goto
  <2> QED BY <1>1, <2>1, <2>2 DEF PendingRejects, RejectEvidence
<1> QED
  BY <1>2, <1>3, <1>4, <1>5, <1>6, <1>7, <1>8 DEF Next, Advance, Record

-----------------------------------------------------------------------------
\* Every step of the transport is a step of Breaker or leaves it as it was.
LEMMA BreakerStep ==
  Typed /\ RefusalEvidence /\ RejectEvidence /\ [Next]_vars => [B!Next]_B!vars
<1> SUFFICES ASSUME Typed, RefusalEvidence, RejectEvidence, [Next]_vars
             PROVE  [B!Next]_B!vars
  OBVIOUS
<1> USE BudgetAssumption DEF Typed, NumbersTyped, LocalsTyped, B!vars, B!Next
<1>1. ASSUME NEW w \in Workers, Receive(w) PROVE [B!Next]_B!vars
  <2> PICK a \in Answers :
         /\ refusedSeen' = IF IsRefusal(a) THEN refusedSeen + 1
                                           ELSE refusedSeen
         /\ rejectedSeen' = IF a = "unauthorized" THEN rejectedSeen + 1
                                                  ELSE rejectedSeen
    BY <1>1 DEF Receive
  <2>1. UNCHANGED <<gaveUp, keyRejected>>
    BY <1>1 DEF Receive, counters
  <2> QED BY <2>1 DEF B!Refused, B!Rejected, IsRefusal
<1>2. ASSUME NEW w \in Workers, OpenBreaker(w) PROVE [B!Next]_B!vars
  <2>1. n[w] >= RefusalBudget /\ n[w] <= refusedSeen
    BY <1>2 DEF OpenBreaker, RefusalEvidence
  <2>2. refusedSeen >= RefusalBudget
    BY <2>1
  <2>3. gaveUp' = TRUE /\ UNCHANGED <<refusedSeen, rejectedSeen, keyRejected>>
    BY <1>2 DEF OpenBreaker, history
  <2> QED BY <2>2, <2>3, Zenon DEF B!OpenForRefusals
<1>3. ASSUME NEW w \in Workers, KeyStore(w) PROVE [B!Next]_B!vars
  <2>1. rejectedSeen >= AuthBudget
    BY <1>3 DEF KeyStore, RejectEvidence
  <2>2. keyRejected' = TRUE /\ UNCHANGED <<refusedSeen, rejectedSeen, gaveUp>>
    BY <1>3 DEF KeyStore, history
  <2> QED BY <2>1, <2>2, Zenon DEF B!BlameCredential
<1>4. ASSUME NEW w \in Workers, KeyOpen(w) PROVE [B!Next]_B!vars
  <2>1. keyRejected
    BY <1>4 DEF KeyOpen, RejectEvidence
  <2>2. gaveUp' = TRUE /\ UNCHANGED <<refusedSeen, rejectedSeen, keyRejected>>
    BY <1>4 DEF KeyOpen, history
  <2> QED BY <2>1, <2>2, Zenon DEF B!OpenForCredential
<1>5. ASSUME NEW w \in Workers,
             \/ Call(w) \/ BadRequest(w) \/ Send(w) \/ RefusalAdd(w)
             \/ RefusalCheck(w) \/ UsefulAdd(w) \/ ResetRefusals(w)
             \/ AuthLoad(w) \/ AuthAdd(w) \/ Accept(w) \/ After(w)
      PROVE  UNCHANGED B!vars
  BY <1>5 DEF Call, BadRequest, Send, RefusalAdd, RefusalCheck, UsefulAdd,
     ResetRefusals, AuthLoad, AuthAdd, Accept, After, StopHere, OutOfAttempts,
     TryAgain, Backoff, counters, history
<1>6. CASE Cancel \/ UNCHANGED vars
  BY <1>6 DEF Cancel, vars, counters, history
<1> QED
  BY <1>1, <1>2, <1>3, <1>4, <1>5, <1>6 DEF Next, Advance, Record

\* The transport implements Breaker: the breaker opens only after
\* RefusalBudget refused attempts or AuthBudget answers of 401, each counted
\* once however the workers interleave, and it stays open.
THEOREM ImplementsBreaker == Spec => BreakerSpec
<1>1. Init => Typed /\ RefusalEvidence /\ RejectEvidence
  <2> SUFFICES ASSUME Init PROVE Typed /\ RefusalEvidence /\ RejectEvidence
    OBVIOUS
  <2>1. PendingRefusals = {} /\ PendingRejects = {}
    BY DEF Init, PendingRefusals, PendingRejects
  <2>2. Cardinality(PendingRefusals) = 0 /\ Cardinality(PendingRejects) = 0
    BY <2>1, FS_EmptySet
  <2> QED BY <2>2, BudgetAssumption DEF Init, Typed, RetryLeft, NumbersTyped,
     LocalsTyped, PCs, Answers, RefusalEvidence, RejectEvidence
<1>2. Init => B!Init
  BY DEF Init, B!Init
<1> QED BY <1>1, <1>2, NumbersAndLocalsStep, RefusalEvidenceStep,
     RejectEvidenceStep, BreakerStep, PTL DEF Spec, BreakerSpec, B!Spec

-----------------------------------------------------------------------------
(***************************************************************************)
(* The safety catch.  record reads useful and then opens the breaker, and  *)
(* noteAuth reads accepted and then stores keyRejected: what was read may  *)
(* be stale only while another call is inside Do.                          *)
(***************************************************************************)
OneAtATime == \A v, w \in Workers : pc[v] # "idle" /\ pc[w] # "idle" => v = w

\* What a caller has read still holds, and no one sends past the breaker.
ReadsHold ==
  /\ gaveUp => \A w \in Workers : pc[w] \in {"idle", "after"}
  /\ keyRejected => gaveUp \/ \E w \in Workers : pc[w] = "keyOpen"
  /\ \A w \in Workers :
       /\ pc[w] = "open" => useful = 0
       /\ pc[w] \in {"authAdd", "keyStore", "keyOpen"} => accepted = 0
       /\ pc[w] = "keyOpen" => keyRejected
  /\ NeverAbandonsATalker

LEMMA ReadsHoldStep ==
  (/\ Typed /\ FlagsTyped /\ ReadsHold
   /\ OneAtATime /\ OneAtATime' /\ [Next]_vars)
  => ReadsHold'
<1> SUFFICES ASSUME Typed, FlagsTyped, ReadsHold, OneAtATime, OneAtATime',
                    [Next]_vars
             PROVE  ReadsHold'
  OBVIOUS
<1> USE DEF Typed, LocalsTyped, NumbersTyped, ReadsHold, OneAtATime,
            NeverAbandonsATalker, PCs
<1>1. CASE Cancel
  BY <1>1 DEF Cancel, counters
<1>2. ASSUME NEW w \in Workers, Call(w) PROVE ReadsHold'
  <2>1. CASE gaveUp
    BY <1>2, <2>1 DEF Call, counters
  <2>2. CASE ~gaveUp
    <3>1. /\ pc' = [pc EXCEPT ![w] = "pace"]
          /\ UNCHANGED <<gaveUp, keyRejected, useful, accepted>>
      BY <1>2, <2>2 DEF Call, Goto, counters
    <3>2. \A v \in Workers : v # w => pc'[v] = "idle" /\ pc[v] = "idle"
      BY <3>1
    <3>3. pc[w] = "idle" /\ ~keyRejected
      BY <1>2, <2>2, <3>2 DEF Call
    <3> QED BY <2>2, <3>1, <3>2, <3>3
  <2> QED BY <2>1, <2>2
<1>3. ASSUME NEW w \in Workers, BadRequest(w) \/ Send(w) \/ Receive(w)
      PROVE ReadsHold'
  <2>1. pc[w] \in {"pace", "flight"} /\ ~gaveUp /\ ~keyRejected
    BY <1>3 DEF BadRequest, Send, Receive
  <2> QED BY <1>3, <2>1 DEF BadRequest, Send, Receive, Goto, counters
<1>4. ASSUME NEW w \in Workers, RefusalAdd(w) \/ RefusalCheck(w)
      PROVE ReadsHold'
  <2>1. pc[w] \in {"refusalAdd", "refusalCheck"} /\ ~gaveUp /\ ~keyRejected
    BY <1>4 DEF RefusalAdd, RefusalCheck
  <2> QED BY <1>4, <2>1 DEF RefusalAdd, RefusalCheck, Goto, counters
<1>5. ASSUME NEW w \in Workers, OpenBreaker(w) PROVE ReadsHold'
  <2>1. pc[w] = "open" /\ ~gaveUp /\ ~keyRejected /\ useful = 0
    BY <1>5 DEF OpenBreaker
  <2>2. \A v \in Workers : pc'[v] = IF v = w THEN "after" ELSE "idle"
    BY <1>5, <2>1 DEF OpenBreaker, Goto
  <2> QED BY <1>5, <2>1, <2>2 DEF OpenBreaker
<1>6. ASSUME NEW w \in Workers, UsefulAdd(w) \/ ResetRefusals(w) \/ Accept(w)
      PROVE ReadsHold'
  <2>1. pc[w] \in {"useful", "reset", "accept"} /\ ~gaveUp /\ ~keyRejected
    BY <1>6 DEF UsefulAdd, ResetRefusals, Accept
  <2>2. \A v \in Workers : v # w => pc'[v] = "idle"
    BY <1>6, <2>1 DEF UsefulAdd, ResetRefusals, Accept, Goto
  <2>3. pc'[w] \in {"reset", "authLoad", "accept", "idle"}
    BY <1>6 DEF UsefulAdd, ResetRefusals, Accept, Goto
  <2>4. ~gaveUp' /\ ~keyRejected'
    BY <1>6, <2>1 DEF UsefulAdd, ResetRefusals, Accept
  <2> QED BY <2>2, <2>3, <2>4
<1>7. ASSUME NEW w \in Workers, AuthLoad(w) \/ AuthAdd(w) PROVE ReadsHold'
  <2>1. pc[w] \in {"authLoad", "authAdd"} /\ ~gaveUp /\ ~keyRejected
    BY <1>7 DEF AuthLoad, AuthAdd
  <2> QED BY <1>7, <2>1 DEF AuthLoad, AuthAdd, Goto, counters
<1>8. ASSUME NEW w \in Workers, KeyStore(w) \/ KeyOpen(w) PROVE ReadsHold'
  <2>1. pc[w] \in {"keyStore", "keyOpen"} /\ ~gaveUp /\ accepted = 0
    BY <1>8 DEF KeyStore, KeyOpen
  <2>2. \A v \in Workers : v # w => pc'[v] = "idle"
    BY <1>8, <2>1 DEF KeyStore, KeyOpen, Goto
  <2> QED BY <1>8, <2>1, <2>2 DEF KeyStore, KeyOpen, Goto
<1>9. ASSUME NEW w \in Workers, After(w) PROVE ReadsHold'
  <2>1. UNCHANGED <<useful, accepted, gaveUp, keyRejected>>
    BY <1>9 DEF After, StopHere, OutOfAttempts, TryAgain, Backoff, counters
  <2>2. pc[w] \in {"after", "backoff"}
    BY <1>9 DEF After, StopHere, OutOfAttempts, TryAgain, Backoff
  <2>3. /\ gaveUp => pc'[w] = "idle"
        /\ pc'[w] \in {"idle", "pace", "backoff"}
        /\ \A v \in Workers : v # w => pc'[v] = pc[v]
    BY <1>9, <2>2 DEF After, StopHere, OutOfAttempts, TryAgain, Backoff,
       Return, Goto
  <2> QED BY <2>1, <2>2, <2>3
<1>10. CASE UNCHANGED vars
  BY <1>10 DEF vars, counters
<1> QED BY <1>1, <1>2, <1>3, <1>4, <1>5, <1>6, <1>7, <1>8, <1>9, <1>10
        DEF Next, Advance, Record

\* Where no two calls of Do overlap, whatever the number of callers, a host
\* that has given one useful answer is never given up on for its refusals and
\* a key accepted once is never reported as rejected.  (With overlapping calls
\* the code does not promise it.)
THEOREM CatchIsExact == Spec /\ []OneAtATime => []NeverAbandonsATalker
<1>1. Init => Typed /\ ReadsHold
  BY BudgetAssumption DEF Init, Typed, RetryLeft, NumbersTyped, LocalsTyped,
     PCs, Answers, ReadsHold, NeverAbandonsATalker
<1>2. Init => FlagsTyped
  BY Zenon DEF Init, FlagsTyped
<1>3. ReadsHold => NeverAbandonsATalker
  BY DEF ReadsHold
<1> QED BY <1>1, <1>2, <1>3, FlagsStep, NumbersAndLocalsStep, ReadsHoldStep, PTL
        DEF Spec

\* The same for a client that has a single caller.
COROLLARY CatchIsExactForOneCaller ==
  ASSUME \A v, w \in Workers : v = w
  PROVE  Spec => []NeverAbandonsATalker
<1>1. Init => OneAtATime
  BY DEF OneAtATime
<1>2. OneAtATime /\ [Next]_vars => OneAtATime'
  BY DEF OneAtATime
<1> QED BY <1>1, <1>2, CatchIsExact, PTL DEF Spec
=============================================================================
