--------------------------- MODULE PipelineProofs ---------------------------
(***************************************************************************)
(* Proofs about Pipeline, for every plan a provider may construct, every   *)
(* set of artifacts and every thing a stage may do between its start and   *)
(* its return.                                                             *)
(***************************************************************************)
EXTENDS Pipeline, TLAPS

-----------------------------------------------------------------------------
(***************************************************************************)
(* The inductive invariant, in named parts.                                *)
(***************************************************************************)
Shape == /\ plan \in Seq(Stage)
         /\ pc \in {"validate", "loop", "stage", "done"}
         /\ i \in 1..(Len(plan) + 1)
         /\ reads \in [IDs -> SUBSET Artifacts]
         /\ writes \in [IDs -> SUBSET Artifacts]
         /\ store \subseteq Artifacts
         /\ started \subseteq LiveAt(plan)
         /\ missed \subseteq LiveAt(plan) \X Artifacts
         /\ wrote \subseteq LiveAt(plan) \X Artifacts

\* The position of a stage that is running is that of a started, live stage.
InStage == pc = "stage" => i \in started /\ label = plan[i].id

\* Nothing is started before the plan has passed both checks.
Approved == pc \in {"loop", "stage"} \/ started # {} =>
              Validate(plan) /\ CheckConsent(plan, consent)

\* The loop visits positions in order, and skips a live one only once the
\* scan is cancelled -- after which it starts no other.
InOrder ==
  /\ \A k \in started : k <= i /\ (pc = "loop" => k < i)
  /\ \A k \in LiveAt(plan) :
       /\ pc = "stage" /\ k < i => k \in started
       /\ pc = "loop" /\ k < i => k \in started \/ cancelled

\* The store is what was put, the ledger has seen every Put, and a stage the
\* loop has left behind kept to its descriptor.
StoreIsLedger ==
  /\ \A a \in store : \E w \in wrote : w[2] = a
  /\ \A w \in wrote : w[2] \in store
  /\ \A w \in wrote :
       /\ w[1] \in started
       /\ w[2] \in writes[plan[w[1]].id]
       /\ pc \in {"loop", "stage"} /\ w[1] < i => w[2] \in plan[w[1]].produces

AllAccounted ==
  /\ pc \in {"loop", "stage"} => \A k \in 1..(i - 1) : Accounted(k)
  /\ EveryStageAccounted

MissedStarted == \A m \in missed : m[1] \in started

Fresh == pc = "validate" => i = 1 /\ started = {} /\ wrote = {}

Ind == /\ Shape /\ Fresh /\ InStage /\ Approved /\ InOrder /\ StoreIsLedger
       /\ AllAccounted /\ MissedStarted /\ MissingInputHasACulprit
       /\ NoLateArtifact

-----------------------------------------------------------------------------
LEMMA StageFields == ASSUME NEW p \in Seq(Stage), NEW k \in 1..Len(p)
                     PROVE  p[k].id \in IDs \cup {NoID} /\ p[k].kind \in Kinds
<1>1. p[k] \in Stage
  OBVIOUS
<1> QED BY <1>1, Zenon DEF Stage

\* In a plan that passes Validate, every stage that may run has a name.
LEMMA LiveNames == ASSUME NEW p \in Seq(Stage), Validate(p), NEW k \in LiveAt(p)
                   PROVE  p[k].id \in IDs
  BY StageFields DEF LiveAt, Validate

\* In a plan that passes Validate, an artifact a stage declared as an input
\* has no live producer below that stage.
LEMMA NoProducerBelow ==
  ASSUME NEW p \in Seq(Stage), Validate(p),
         NEW c \in LiveAt(p), NEW k \in LiveAt(p), NEW a,
         a \in p[c].requires \cup p[c].optional, a \in p[k].produces
  PROVE  k <= c
<1> USE DEF LiveAt
<1> c \in 1..Len(p) /\ k \in 1..Len(p)
  OBVIOUS
<1> SUFFICES ASSUME c < k PROVE FALSE
  OBVIOUS
<1>1. p[k].id # p[c].id
  BY DEF Validate
<1>2. CASE a \in p[c].requires
  <2>1. PICK j \in LiveAt(p) : j < c /\ a \in p[j].produces
    BY <1>2 DEF Validate, ProducedBefore
  <2>2. p[j].produces \cap p[k].produces = {}
    BY <2>1 DEF Validate
  <2> QED BY <2>1, <2>2
<1>3. CASE a \in p[c].optional
  BY <1>1, <1>3 DEF Validate, ProducedLater
<1> QED BY <1>2, <1>3

LEMMA IndInit == Init => Ind
  BY PlansAssumption DEF Init, Ind, Shape, Fresh, InStage, Approved, InOrder,
     StoreIsLedger, AllAccounted, EveryStageAccounted,
     Blamed, MissedStarted, MissingInputHasACulprit,
     NoLateArtifact

\* A step that leaves the store and its ledgers alone keeps what is said of
\* them, as long as no started stage is forgotten.
LEMMA Untouched ==
  ASSUME Ind, UNCHANGED Exchange, UNCHANGED plan, started \subseteq started'
  PROVE  MissedStarted' /\ MissingInputHasACulprit' /\ NoLateArtifact'
  BY DEF Ind, Exchange, MissedStarted, MissingInputHasACulprit, NoLateArtifact

LEMMA ValidateStep == Ind /\ ValidateWorkload => Ind'
<1> SUFFICES ASSUME Ind, ValidateWorkload PROVE Ind'
  OBVIOUS
<1>0. /\ pc = "validate" /\ pc' \in {"loop", "done"}
      /\ i = 1 /\ started = {} /\ wrote = {}
      /\ UNCHANGED <<plan, consent, i, started>> /\ UNCHANGED Exchange
  BY DEF Ind, Fresh, ValidateWorkload
<1>1. Shape' /\ Fresh' /\ InStage'
  BY <1>0 DEF Ind, Shape, Fresh, InStage, Exchange
<1>2. Approved'
  BY <1>0 DEF ValidateWorkload, Approved
<1>3. InOrder' /\ StoreIsLedger'
  BY <1>0 DEF Ind, Shape, InOrder, StoreIsLedger, Exchange, LiveAt
<1>4. AllAccounted'
  <2>1. CASE pc' = "loop"
    BY <1>0, <2>1 DEF AllAccounted, EveryStageAccounted
  <2>2. CASE pc' = "done"
    <3>1. NotAssessed(Workload) \in findings'
      BY <2>2 DEF ValidateWorkload
    <3> QED BY <2>2, <3>1 DEF AllAccounted, EveryStageAccounted, Blamed
  <2> QED BY <1>0, <2>1, <2>2
<1> QED BY <1>0, <1>1, <1>2, <1>3, <1>4, Untouched DEF Ind

LEMMA UnreachedStep == Ind /\ Unreached => Ind'
<1> SUFFICES ASSUME Ind, Unreached PROVE Ind'
  OBVIOUS
<1>0. /\ pc = "loop" /\ pc' = "loop" /\ i \in 1..Len(plan) /\ i' = i + 1
      /\ findings' = findings \cup {NotAssessed(plan[i].id)} /\ cancelled
      /\ UNCHANGED <<plan, consent, cancelled, started, completed>>
      /\ UNCHANGED Exchange
  BY DEF Ind, Shape, Unreached
<1>1. Shape' /\ Fresh' /\ InStage' /\ Approved'
  BY <1>0 DEF Ind, Shape, Fresh, InStage, Approved, Exchange
<1>2. InOrder' /\ StoreIsLedger'
  BY <1>0 DEF Ind, Shape, InOrder, StoreIsLedger, Exchange, LiveAt
<1>3. AllAccounted'
  BY <1>0 DEF Ind, AllAccounted, EveryStageAccounted, Accounted, Blamed
<1> QED BY <1>0, <1>1, <1>2, <1>3, Untouched DEF Ind

LEMMA SkipStep == Ind /\ SkipStage => Ind'
<1> SUFFICES ASSUME Ind, SkipStage PROVE Ind'
  OBVIOUS
<1>0. /\ pc = "loop" /\ pc' = "loop" /\ i \in 1..Len(plan) /\ i' = i + 1
      /\ plan[i].kind = "skipped"
      /\ findings' = findings \cup {Skipped(plan[i].id)}
      /\ UNCHANGED <<plan, consent, cancelled, started, completed>>
      /\ UNCHANGED Exchange
  BY DEF Ind, Shape, SkipStage
<1>1. Shape' /\ Fresh' /\ InStage' /\ Approved'
  BY <1>0 DEF Ind, Shape, Fresh, InStage, Approved, Exchange
<1>2. InOrder' /\ StoreIsLedger'
  BY <1>0 DEF Ind, Shape, InOrder, StoreIsLedger, Exchange, LiveAt, Live
<1>3. AllAccounted'
  BY <1>0 DEF Ind, AllAccounted, EveryStageAccounted, Accounted, Blamed
<1> QED BY <1>0, <1>1, <1>2, <1>3, Untouched DEF Ind

LEMMA StartStep == Ind /\ StartStage => Ind'
<1> SUFFICES ASSUME Ind, StartStage PROVE Ind'
  OBVIOUS
<1>0. /\ pc = "loop" /\ pc' = "stage" /\ i \in 1..Len(plan) /\ ~cancelled
      /\ plan[i].kind # "skipped" /\ label' = plan[i].id
      /\ started' = started \cup {i}
      /\ UNCHANGED <<plan, consent, i, findings, completed>>
      /\ UNCHANGED Exchange
  BY DEF Ind, Shape, StartStage
<1>1. Validate(plan) /\ CheckConsent(plan, consent)
  BY <1>0 DEF Ind, Approved
<1>2. i \in LiveAt(plan)
  <2>1. plan[i].kind # "opaque"
    BY <1>0, <1>1 DEF Validate, Ind, Shape
  <2>2. plan[i].kind \in Kinds
    BY <1>0, StageFields DEF Ind, Shape
  <2> QED BY <1>0, <2>1, <2>2 DEF LiveAt, Live, Kinds, Ind, Shape
<1>3. Shape' /\ Fresh' /\ InStage' /\ Approved'
  BY <1>0, <1>1, <1>2 DEF Ind, Shape, Fresh, InStage, Approved, Exchange
<1>4. InOrder' /\ StoreIsLedger'
  BY <1>0 DEF Ind, Shape, InOrder, StoreIsLedger, Exchange
<1>5. AllAccounted'
  BY <1>0 DEF Ind, AllAccounted, EveryStageAccounted, Accounted, Blamed
<1> QED BY <1>0, <1>3, <1>4, <1>5, Untouched DEF Ind

LEMMA FinishOrCancelStep == Ind /\ (Finish \/ Cancel) => Ind'
<1> SUFFICES ASSUME Ind, Finish \/ Cancel PROVE Ind'
  OBVIOUS
<1>0. /\ \/ pc' = pc
         \/ pc = "loop" /\ i \notin 1..Len(plan) /\ pc' = "done"
      /\ UNCHANGED <<plan, consent, i, label, findings, started, completed>>
      /\ UNCHANGED Exchange
  BY DEF Ind, Shape, Finish, Cancel
<1>1. Shape' /\ Fresh' /\ InStage' /\ Approved'
  BY <1>0 DEF Ind, Shape, Fresh, InStage, Approved, Exchange
<1>2. InOrder'
  BY DEF Ind, Shape, InOrder, Finish, Cancel
<1>3. StoreIsLedger'
  BY <1>0 DEF Ind, StoreIsLedger, Exchange
<1>4. AllAccounted'
  BY <1>0 DEF Ind, Shape, AllAccounted, EveryStageAccounted, Accounted, Blamed
<1> QED BY <1>0, <1>1, <1>2, <1>3, <1>4, Untouched DEF Ind

LEMMA GetStep == ASSUME NEW a \in Artifacts, Ind, Get(a) PROVE Ind'
<1>0. /\ pc = "stage" /\ i \in started /\ i \in LiveAt(plan)
      /\ missed' = IF a \in store THEN missed ELSE missed \cup {<<i, a>>}
      /\ UNCHANGED <<plan, consent, cancelled, pc, i, store, label, writes,
                     findings, started, completed, wrote>>
  BY DEF Get, Ind, Shape, InStage
<1>1. Shape'
  <2>1. missed' \subseteq LiveAt(plan) \X Artifacts
    BY <1>0 DEF Ind, Shape
  <2>2. reads' \in [IDs -> SUBSET Artifacts]
    BY DEF Get, Ind, Shape
  <2> QED BY <1>0, <2>1, <2>2 DEF Ind, Shape
<1>2. Fresh' /\ InStage' /\ Approved' /\ InOrder' /\ StoreIsLedger'
  BY <1>0 DEF Ind, Fresh, InStage, Approved, InOrder, StoreIsLedger
<1>3. AllAccounted' /\ MissedStarted'
  BY <1>0 DEF Ind, AllAccounted, EveryStageAccounted, Accounted,
     Blamed, MissedStarted
<1>4. MissingInputHasACulprit'
  <2> SUFFICES ASSUME a \notin store, a \in plan[i].requires
               PROVE  \E k \in started : /\ k < i /\ a \in plan[k].produces
                                         /\ <<k, a>> \notin wrote
    BY <1>0 DEF Ind, MissingInputHasACulprit
  <2>1. PICK k \in LiveAt(plan) : k < i /\ a \in plan[k].produces
    BY <1>0 DEF Ind, Approved, Validate, ProducedBefore
  <2>2. k \in started
    BY <1>0, <2>1 DEF Ind, InOrder
  <2>3. <<k, a>> \notin wrote
    BY DEF Ind, StoreIsLedger
  <2> QED BY <2>1, <2>2, <2>3
<1>5. NoLateArtifact'
  <2>1. \A w \in wrote : w[1] <= i
    BY DEF Ind, StoreIsLedger, InOrder
  <2> QED BY <1>0, <2>1 DEF Ind, NoLateArtifact
<1> QED BY <1>1, <1>2, <1>3, <1>4, <1>5 DEF Ind

LEMMA PutStep == ASSUME NEW a \in Artifacts, Ind, Put(a) PROVE Ind'
<1>0. /\ pc = "stage" /\ i \in started /\ i \in LiveAt(plan)
      /\ label = plan[i].id
      /\ store' = store \cup {a} /\ wrote' = wrote \cup {<<i, a>>}
      /\ writes' = [writes EXCEPT ![label] = @ \cup {a}]
      /\ UNCHANGED <<plan, consent, cancelled, pc, i, label, reads, findings,
                     started, completed, missed>>
  BY DEF Put, Ind, Shape, InStage
<1>1. Validate(plan)
  BY <1>0 DEF Ind, Approved
<1>2. label \in IDs
  BY <1>0, <1>1, LiveNames DEF Ind, Shape
<1>3. Shape' /\ Fresh' /\ InStage' /\ Approved' /\ InOrder'
  BY <1>0, <1>2 DEF Ind, Shape, Fresh, InStage, Approved, InOrder
<1>4. StoreIsLedger'
  <2>1. /\ \A x \in store' : \E w \in wrote' : w[2] = x
        /\ \A w \in wrote' : w[2] \in store'
    <3>1. /\ \A x \in store : \E w \in wrote : w[2] = x
          /\ \A w \in wrote : w[2] \in store
      BY DEF Ind, StoreIsLedger
    <3>2. <<i, a>>[2] = a /\ <<i, a>> \in wrote'
      BY <1>0
    <3>3. ASSUME NEW x \in store' PROVE \E w \in wrote' : w[2] = x
      <4>1. CASE x = a
        BY <3>2, <4>1
      <4>2. CASE x \in store
        BY <1>0, <3>1, <4>2
      <4> QED BY <1>0, <3>3, <4>1, <4>2
    <3>4. ASSUME NEW w \in wrote' PROVE w[2] \in store'
      BY <1>0, <3>1, <3>2, <3>4
    <3> QED BY <3>3, <3>4
  <2>2. \A x \in IDs : writes[x] \subseteq writes'[x]
    BY <1>0, <1>2 DEF Ind, Shape
  <2>3. \A w \in wrote : plan[w[1]].id \in IDs
    <3>1. \A w \in wrote : w[1] \in LiveAt(plan)
      BY DEF Ind, Shape
    <3>2. plan \in Seq(Stage)
      BY DEF Ind, Shape
    <3> QED BY <1>1, <3>1, <3>2, LiveNames
  <2>4. a \in writes'[plan[i].id]
    BY <1>0, <1>2 DEF Ind, Shape
  <2>5. \A w \in wrote' : w[1] \in started' /\ w[2] \in writes'[plan[w[1]].id]
    <3>1. \A w \in wrote : w[1] \in started /\ w[2] \in writes[plan[w[1]].id]
      BY DEF Ind, StoreIsLedger
    <3> QED BY <1>0, <2>2, <2>3, <2>4, <3>1
  <2>6. \A w \in wrote' : w[1] < i => w[2] \in plan[w[1]].produces
    <3>1. \A w \in wrote : w[1] < i => w[2] \in plan[w[1]].produces
      BY <1>0 DEF Ind, StoreIsLedger
    <3>2. ~(i < i)
      BY DEF Ind, Shape
    <3> QED BY <1>0, <3>1, <3>2
  <2> QED BY <1>0, <2>1, <2>5, <2>6 DEF StoreIsLedger
<1>5. AllAccounted' /\ MissedStarted'
  BY <1>0 DEF Ind, AllAccounted, EveryStageAccounted, Accounted,
     Blamed, MissedStarted
<1>6. MissingInputHasACulprit'
  BY <1>0 DEF Ind, MissingInputHasACulprit, MissedStarted, InOrder, Shape,
     LiveAt
<1>7. NoLateArtifact'
  <2> SUFFICES ASSUME NEW m \in missed, m[2] = a,
                      a \in plan[m[1]].requires \cup plan[m[1]].optional,
                      a \in plan[i].produces
               PROVE  i <= m[1]
    BY <1>0 DEF Ind, NoLateArtifact
  <2>1. m[1] \in LiveAt(plan)
    BY DEF Ind, Shape
  <2> QED BY <1>0, <1>1, <2>1, NoProducerBelow DEF Ind, Shape
<1> QED BY <1>3, <1>4, <1>5, <1>6, <1>7 DEF Ind

LEMMA ReturnStep == Ind /\ ReturnStage => Ind'
<1> SUFFICES ASSUME Ind, ReturnStage PROVE Ind'
  OBVIOUS
<1>0. /\ pc = "stage" /\ i \in started /\ i \in LiveAt(plan)
      /\ i \in 1..Len(plan)
      /\ UNCHANGED <<plan, consent, cancelled, started>>
      /\ UNCHANGED Exchange
  BY DEF ReturnStage, Ind, Shape, InStage, LiveAt
<1>1. CASE KeepsContract(plan[i])
  <2>0. /\ pc' = "loop" /\ i' = i + 1
        /\ \/ completed' = completed \cup {i} /\ findings' = findings
           \/ /\ completed' = completed
              /\ findings' = findings \cup {NotAssessed(plan[i].id)}
    BY <1>1 DEF ReturnStage
  <2>1. Shape' /\ Fresh' /\ InStage' /\ Approved'
    BY <1>0, <2>0 DEF Ind, Shape, Fresh, InStage, Approved, Exchange
  <2>2. InOrder'
    BY <1>0, <2>0 DEF Ind, Shape, InOrder, LiveAt
  <2>3. StoreIsLedger'
    <3>1. \A w \in wrote : w[1] < i + 1 => w[1] < i \/ w[1] = i
      BY <1>0 DEF Ind, Shape, LiveAt
    <3>2. \A w \in wrote : w[1] = i => w[2] \in plan[i].produces
      BY <1>1 DEF KeepsContract, Ind, StoreIsLedger
    <3> QED BY <1>0, <2>0, <3>1, <3>2 DEF Ind, StoreIsLedger, Exchange
  <2>4. AllAccounted'
    BY <1>0, <2>0 DEF Ind, AllAccounted, EveryStageAccounted, Accounted, Blamed
  <2> QED BY <1>0, <2>1, <2>2, <2>3, <2>4, Untouched DEF Ind
<1>2. CASE ~KeepsContract(plan[i])
  <2>0. /\ pc' = "done" /\ i' = i /\ NotAssessed(Workload) \in findings'
    BY <1>2 DEF ReturnStage
  <2>1. Shape' /\ Fresh' /\ InStage' /\ Approved'
    BY <1>0, <2>0 DEF Ind, Shape, Fresh, InStage, Approved, Exchange
  <2>2. InOrder' /\ StoreIsLedger'
    BY <1>0, <2>0 DEF Ind, InOrder, StoreIsLedger, Exchange
  <2>3. AllAccounted'
    BY <2>0 DEF AllAccounted, EveryStageAccounted, Blamed
  <2> QED BY <1>0, <2>1, <2>2, <2>3, Untouched DEF Ind
<1> QED BY <1>1, <1>2

LEMMA IndStep == Ind /\ [Next]_vars => Ind'
<1> SUFFICES ASSUME Ind, [Next]_vars PROVE Ind'
  OBVIOUS
<1>1. CASE UNCHANGED vars
  BY <1>1 DEF vars, Ind, Shape, Fresh, InStage, Approved, InOrder,
     StoreIsLedger, AllAccounted, EveryStageAccounted, Blamed,
     Accounted, MissedStarted,
     MissingInputHasACulprit, NoLateArtifact
<1> QED
  BY <1>1, ValidateStep, UnreachedStep, SkipStep, StartStep,
     FinishOrCancelStep, GetStep, PutStep, ReturnStep DEF Next

LEMMA IndInvariant == Spec => []Ind
  BY IndInit, IndStep, PTL DEF Spec

-----------------------------------------------------------------------------
\* For every plan: a workload that ends without being blamed as a whole has a
\* known disposition for each of its stages.
THEOREM StagesAreAccounted == Spec => []EveryStageAccounted
<1>1. Ind => EveryStageAccounted
  BY DEF Ind, AllAccounted
<1> QED BY <1>1, IndInvariant, PTL

\* For every plan: no stage starts with an input that was written around the
\* plan, whatever the stages before it did.
THEOREM StoreKeepsToPlan == Spec => []StoreWithinPlan
<1>1. Ind => StoreWithinPlan
  <2> SUFFICES ASSUME Ind, pc = "loop", NEW a \in store
               PROVE  ProducedBefore(plan, a, i)
    BY DEF StoreWithinPlan
  <2>1. PICK w \in wrote : w[2] = a
    BY DEF Ind, StoreIsLedger
  <2>2. w[1] \in started /\ w[1] < i /\ w[1] \in LiveAt(plan)
    BY DEF Ind, StoreIsLedger, InOrder, Shape
  <2>3. a \in plan[w[1]].produces
    BY <2>1, <2>2 DEF Ind, StoreIsLedger
  <2> QED BY <2>2, <2>3 DEF ProducedBefore
<1> QED BY <1>1, IndInvariant, PTL

\* For every plan: a declared input that was absent is never published later.
THEOREM InputsFollowPlan == Spec => []NoLateArtifact
<1>1. Ind => NoLateArtifact
  BY DEF Ind
<1> QED BY <1>1, IndInvariant, PTL

\* For every plan: a required input that was absent is the doing of the live
\* stage that declared it, was run above and never published it.
THEOREM AbsenceIsExplained == Spec => []MissingInputHasACulprit
<1>1. Ind => MissingInputHasACulprit
  BY DEF Ind
<1> QED BY <1>1, IndInvariant, PTL
=============================================================================
