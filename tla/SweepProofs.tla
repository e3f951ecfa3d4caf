---------------------------- MODULE SweepProofs ----------------------------
(***************************************************************************)
(* Proofs about Sweep, for every list of targets, every set of backends    *)
(* and every exposure: types, that no workload is probed twice, that what  *)
(* was found is in the report, that the exit code tells what the report    *)
(* tells, and that no target and no gap goes untold.                       *)
(***************************************************************************)
EXTENDS Sweep, SequenceTheorems, TLAPS

\* Finalize drops a finding only for one of the same fingerprint that is at
\* least as severe: Sort before Dedup.
LEMMA FinalizeKeeps ==
  ASSUME NEW S \in SUBSET Finding, NEW f \in S
  PROVE  \E g \in Finalize(S) : /\ Fingerprint(g) = Fingerprint(f)
                                /\ f.severity <= g.severity
<1> DEFINE Same(g) == g \in S /\ Fingerprint(g) = Fingerprint(f)
           Top(n)  == \E g : Same(g) /\ g.severity = n
<1>1. \A g \in S : g.severity \in 0..4
  BY DEF Finding, Severity, Info, Critical
<1>2. Top(f.severity) /\ f.severity \in 0..4
  BY <1>1
<1>3. ASSUME NEW n \in 0..4, Top(n), \A m \in 0..4 : m > n => ~Top(m),
             n >= f.severity
      PROVE  \E g \in Finalize(S) : /\ Fingerprint(g) = Fingerprint(f)
                                    /\ f.severity <= g.severity
  <2>1. PICK g : Same(g) /\ g.severity = n
    BY <1>3
  <2>2. ASSUME NEW h \in S, Fingerprint(h) = Fingerprint(g)
        PROVE  h.severity <= g.severity
    <3>1. Top(h.severity) /\ h.severity \in 0..4
      BY <1>1, <2>1, <2>2
    <3> QED BY <3>1, <2>1, <1>3
  <2>3. g \in Finalize(S)
    BY <2>1, <2>2 DEF Finalize, Kept
  <2> QED BY <2>1, <2>3, <1>3
<1>4. \E n \in 0..4 : /\ Top(n) /\ n >= f.severity
                      /\ \A m \in 0..4 : m > n => ~Top(m)
  <2> HIDE DEF Top
  <2>1. \A n : n \in 0..4 <=> n = 0 \/ n = 1 \/ n = 2 \/ n = 3 \/ n = 4
    OBVIOUS
  <2>2. CASE Top(4)
    BY <2>2, <1>2, <2>1
  <2>3. CASE ~Top(4) /\ Top(3)
    BY <2>3, <1>2, <2>1
  <2>4. CASE ~Top(4) /\ ~Top(3) /\ Top(2)
    BY <2>4, <1>2, <2>1
  <2>5. CASE ~Top(4) /\ ~Top(3) /\ ~Top(2) /\ Top(1)
    BY <2>5, <1>2, <2>1
  <2>6. CASE ~Top(4) /\ ~Top(3) /\ ~Top(2) /\ ~Top(1)
    BY <2>6, <1>2, <2>1
  <2> QED BY <2>2, <2>3, <2>4, <2>5, <2>6
<1> QED BY <1>3, <1>4

\* Report.Worst is the severity of one of the findings, or Info, and none is
\* above it.
LEMMA WorstBounds ==
  ASSUME NEW S \in SUBSET Finding
  PROVE  /\ Worst(S) \in Severity
         /\ Worst(S) = Info \/ \E f \in S : f.severity = Worst(S)
         /\ \A f \in S : f.severity <= Worst(S)
<1> DEFINE Top(n) == n = 0 \/ \E f \in S : f.severity = n
<1>1. \A f \in S : f.severity \in 0..4
  BY DEF Finding, Severity, Info, Critical
<1>2. \A f \in S : Top(f.severity)
  OBVIOUS
<1>3. \E n \in 0..4 : Top(n) /\ \A m \in 0..4 : m > n => ~Top(m)
  <2>0. Top(0)
    OBVIOUS
  <2> HIDE DEF Top
  <2>1. \A n : n \in 0..4 <=> n = 0 \/ n = 1 \/ n = 2 \/ n = 3 \/ n = 4
    OBVIOUS
  <2>2. CASE Top(4)
    BY <2>2, <2>1
  <2>3. CASE ~Top(4) /\ Top(3)
    BY <2>3, <2>1
  <2>4. CASE ~Top(4) /\ ~Top(3) /\ Top(2)
    BY <2>4, <2>1
  <2>5. CASE ~Top(4) /\ ~Top(3) /\ ~Top(2) /\ Top(1)
    BY <2>5, <2>1
  <2>6. CASE ~Top(4) /\ ~Top(3) /\ ~Top(2) /\ ~Top(1)
    BY <2>6, <2>0, <2>1
  <2> QED BY <2>2, <2>3, <2>4, <2>5, <2>6
<1>4. \E s \in Severity : /\ s = Info \/ \E f \in S : f.severity = s
                          /\ \A f \in S : f.severity <= s
  <2>1. PICK n \in 0..4 : Top(n) /\ \A m \in 0..4 : m > n => ~Top(m)
    BY <1>3
  <2>2. ASSUME NEW f \in S PROVE f.severity <= n
    <3>1. Top(f.severity) /\ f.severity \in 0..4
      BY <1>1, <1>2
    <3> HIDE DEF Top
    <3> QED BY <3>1, <2>1
  <2> QED BY <2>1, <2>2 DEF Severity, Info, Critical
<1> QED BY <1>4 DEF Worst

LEMMA FinalizeIsPart ==
  ASSUME NEW S PROVE Finalize(S) \subseteq S
BY DEF Finalize

-----------------------------------------------------------------------------
LEMMA SaysIsFinding ==
  ASSUME NEW t \in Targets, NEW r \in Places,
         NEW id \in {NotAssessedID, ExhaustedID, SkippedID, PrefixID,
                     RefusedID, SummaryID}
  PROVE  Says(id, t, r) \in Finding
BY WorksAssumption
   DEF Says, Finding, IDs, Severity, Info, Critical

LEMMA ListIsTyped ==
  ASSUME NEW i \in DOMAIN List PROVE List[i] \in Targets
BY ListAssumption

\* What Others names is a sequence of backends.
LEMMA OthersAreBackends ==
  ASSUME NEW t \in Targets PROVE Others[t] \in Seq(Backends)
<1> DEFINE s == Others[t]
<1>1. s \in Seq(STRING)
  BY OthersAssumption
<1>2. s \in [1..Len(s) -> STRING] /\ Len(s) \in Nat
  BY <1>1, LenProperties
<1>3. \A k \in 1..Len(s) : s[k] \in Backends
  BY <1>2 DEF Backends, Detected
<1>4. s \in [1..Len(s) -> Backends]
  BY <1>2, <1>3
<1> QED BY <1>2, <1>4, SeqDef

\* Taking a workload out of the queue leaves a queue.
LEMMA DequeueIsTyped ==
  ASSUME queue \in Seq(Workload), NEW i \in DOMAIN queue
  PROVE  Dequeue(i) \in Seq(Workload)
<1>1. i \in 1..Len(queue) /\ Len(queue) \in Nat
  BY LenProperties
<1>2. \A k \in 1..Len(queue) : queue[k] \in Workload
  BY ElementOfSeq
<1>3. SubSeq(queue, 1, i - 1) \in Seq(Workload)
  <2>1. \A k \in 1..(i - 1) : queue[k] \in Workload
    BY <1>1, <1>2
  <2> QED BY <1>1, <2>1, SubSeqProperties
<1>4. SubSeq(queue, i + 1, Len(queue)) \in Seq(Workload)
  <2>1. \A k \in (i + 1)..Len(queue) : queue[k] \in Workload
    BY <1>1, <1>2
  <2> QED BY <1>1, <2>1, SubSeqProperties
<1> QED BY <1>3, <1>4, ConcatProperties DEF Dequeue

-----------------------------------------------------------------------------
USE DEF Application, Supabase

LEMMA WorksArePlaces == Works \subseteq Places /\ Supabase \in Works
                        /\ Application \in Works /\ Backends \subseteq Works
BY DEF Works, Places, Backends

\* What the engine says of a workload, and what else it may say.
LEMMA SaidIsFinding ==
  ASSUME Target \in Targets
  PROVE  /\ \A w \in Works : NotAssessed(w) \in Finding
                             /\ SkippedStage(w) \in Finding
         /\ {Interrupted, TargetFailed, PrefixUnresolved, TargetRefused,
             Truncated, ScanSummary, BackendUnknown} \subseteq Finding
<1>1. \A w \in Works : w \in Places
  BY WorksArePlaces
<1>2. {"target", "scan:interrupted", "scan", "backend", "rest-prefix",
       "routine-discovery"} \subseteq Places
  BY DEF Places
<1> QED BY <1>1, <1>2, SaysIsFinding
        DEF NotAssessed, SkippedStage, Interrupted, TargetFailed,
            PrefixUnresolved, TargetRefused, Truncated, ScanSummary,
            BackendUnknown

LEMMA InitTyped == Init => TypeOK
<1> SUFFICES ASSUME Init PROVE TypeOK
  OBVIOUS
<1>1. pos \in DOMAIN List
  <2>1. Len(List) \in Nat \ {0} /\ DOMAIN List = 1..Len(List)
    BY ListAssumption, EmptySeq, LenProperties
  <2> QED BY <2>1 DEF Init
<1>7. phase \in Phases /\ cancelled \in BOOLEAN /\ blind \in BOOLEAN
  BY Zenon DEF Init, Phases
<1>2. route \in Routes /\ all \subseteq Finding
  BY DEF Init, Routes
<1>3. detections \in Seq(Backends) /\ queue \in Seq(Workload)
  BY EmptySeq DEF Init
<1>4. seen \subseteq Works /\ written \subseteq Finding /\ found \subseteq Finding
  BY DEF Init
<1>5. worst \in Severity /\ exit \in {Running, 0, 1, 2, 3}
  BY DEF Init, Severity, Info, Critical
<1>6. /\ unexamined \subseteq Targets \X (Works \cup {"target"})
      /\ probes \in [Works -> Nat]
  BY DEF Init
<1> QED BY <1>1, <1>2, <1>3, <1>4, <1>5, <1>6, <1>7 DEF TypeOK

LEMMA TypedStep == TypeOK /\ [Next]_vars => TypeOK'
<1> SUFFICES ASSUME TypeOK, [Next]_vars PROVE TypeOK'
  OBVIOUS
<1>0. /\ Target \in Targets /\ Exposures[Target] \subseteq Finding
      /\ Len(List) \in Nat /\ DOMAIN List = 1..Len(List) /\ pos \in Int
  BY ListIsTyped, ExposuresAssumption, ListAssumption, LenProperties
     DEF TypeOK, Target
<1>a. Advance => pos' \in DOMAIN List /\ phase' \in Phases
  BY <1>0 DEF Advance, TypeOK, Phases
<1>1. CASE Discover
  <2>1. queue' \in Seq(Workload)
    <3>1. TheApplication \in Workload
      BY WorksArePlaces DEF TheApplication, Workload, Plans
    <3> QED BY <3>1, <1>1 DEF Discover
  <2>2. detections' \in Seq(Backends)
    BY <1>1, EmptySeq DEF Discover
  <2>3. all' \subseteq Finding /\ found' \subseteq Finding /\ phase' \in Phases
    BY <1>0, <1>1 DEF Discover, TypeOK, Phases
  <2>4. seen' \subseteq Works /\ probes' \in [Works -> Nat] /\ route' \in Routes
    BY <1>1 DEF Discover, Routes
  <2> QED BY <2>1, <2>2, <2>3, <2>4, <1>1 DEF Discover, TypeOK, RunState
<1>2. CASE Locate
  <2>1. detections' \in Seq(Backends)
    <3>1. Others[Target] \in Seq(Backends) /\ Supabase \in Backends
      BY <1>0, OthersAreBackends DEF Backends
    <3>2. Append(Others[Target], Supabase) \in Seq(Backends)
      BY <3>1
    <3> QED BY <3>1, <3>2, <1>2 DEF Locate, TypeOK
  <2>2. all' \subseteq Finding
    BY <1>0, <1>2, SaidIsFinding, WorksArePlaces DEF Locate, TypeOK
  <2>3. route' \in Routes /\ phase' \in Phases
    BY <1>2 DEF Locate, TypeOK, Routes, Phases
  <2>4. unexamined' \subseteq Targets \X (Works \cup {"target"})
    BY <1>0, <1>2, WorksArePlaces DEF Locate, TypeOK
  <2> QED BY <2>1, <2>2, <2>3, <2>4, <1>2 DEF Locate, TypeOK, RunState
<1>3. CASE PrepareProvider
  <2> DEFINE p == Head(detections)
  <2>1. p \in Backends /\ Tail(detections) \in Seq(Backends) /\ p \in Works
    BY <1>3, HeadTailProperties, WorksArePlaces DEF PrepareProvider, TypeOK
  <2>2. \A F \in SUBSET Finding : Stopped(p, F) \in Workload
    BY <2>1 DEF Stopped, Workload, Plans
  <2>3. ASSUME NEW id \in Resolutions[p], NEW plan \in Plans
        PROVE  [id |-> id, stopped |-> FALSE, plan |-> plan,
                findings |-> {}] \in Workload
    BY <2>1, WorksArePlaces, WorksAssumption DEF Workload
  <2>4. queue' \in Seq(Workload)
    <3>1. {NotAssessed(p)} \in SUBSET Finding
          /\ {PrefixUnresolved} \in SUBSET Finding
      BY <1>0, <2>1, SaidIsFinding
    <3>2. \E w \in Workload : queue' = Append(queue, w)
      BY <1>3, <2>2, <2>3, <3>1 DEF PrepareProvider
    <3> QED BY <3>2 DEF TypeOK
  <2>5. unexamined' \subseteq Targets \X (Works \cup {"target"})
    <3>1. \/ unexamined' = unexamined
          \/ unexamined' = unexamined \cup {<<Target, p>>}
      BY <1>3 DEF PrepareProvider
    <3> HIDE DEF p
    <3> QED BY <1>0, <2>1, <3>1 DEF TypeOK
  <2>6. detections' \in Seq(Backends)
    BY <2>1, <1>3 DEF PrepareProvider
  <2> QED BY <2>4, <2>5, <2>6, <1>3 DEF PrepareProvider, TypeOK, RunState
<1>4. CASE Prepared
  BY <1>4 DEF Prepared, TypeOK, RunState, Phases
<1>5. CASE RefuseWorkload
  <2>1. PICK i \in DOMAIN queue : Refuse(i)
    BY <1>5 DEF RefuseWorkload
  <2>2. queue' \in Seq(Workload)
    BY <2>1, DequeueIsTyped DEF Refuse, TypeOK
  <2>3. queue[i] \in Workload
    BY <2>1, ElementOfSeq, LenProperties DEF TypeOK
  <2>4. queue[i].id \in Works /\ queue[i].findings \subseteq Finding
    BY <2>3 DEF Workload
  <2>5. NotAssessed(queue[i].id) \in Finding
    BY <1>0, <2>4, SaidIsFinding
  <2>6. all' \subseteq Finding
    BY <2>1, <2>4, <2>5 DEF Refuse, TypeOK
  <2>7. seen' \subseteq Works
    BY <2>1, <2>4 DEF Refuse, TypeOK
  <2>8. unexamined' \subseteq Targets \X (Works \cup {"target"})
    BY <1>0, <2>1, <2>4 DEF Refuse, TypeOK
  <2> QED BY <2>2, <2>6, <2>7, <2>8, <1>5 DEF RefuseWorkload, TypeOK, RunState
<1>6. CASE RunWorkload
  <2>1. PICK i \in DOMAIN queue, F \in SUBSET Exposures[Target] : Run(i, F)
    BY <1>6 DEF RunWorkload
  <2>2. queue' \in Seq(Workload)
    BY <2>1, DequeueIsTyped DEF Run, TypeOK
  <2>3. queue[i] \in Workload
    BY <2>1, ElementOfSeq, LenProperties DEF TypeOK
  <2>4. queue[i].id \in Works
    BY <2>3 DEF Workload
  <2>5. \A gap \in Gaps(queue[i].id) : gap \subseteq Finding
    BY <1>0, <2>4, SaidIsFinding DEF Gaps
  <2>6. all' \subseteq Finding /\ found' \subseteq Finding
    BY <1>0, <2>1, <2>5 DEF Run, TypeOK
  <2>7. seen' \subseteq Works /\ probes' \in [Works -> Nat]
    BY <2>1, <2>4 DEF Run, TypeOK
  <2>8. unexamined' \subseteq Targets \X (Works \cup {"target"})
    BY <1>0, <2>1, <2>4 DEF Run, TypeOK
  <2> QED BY <2>2, <2>6, <2>7, <2>8, <1>6 DEF RunWorkload, TypeOK, RunState
<1>7. CASE CloseEngine
  <2>1. PICK F \in SUBSET Exposures[Target] :
          /\ found' = found \cup F
          /\ all' = Finalize(all \cup F \cup Ending)
    BY <1>7 DEF CloseEngine
  <2>2. all' \subseteq Finding /\ found' \subseteq Finding
    BY <1>0, <2>1, FinalizeIsPart, SaidIsFinding DEF Ending, TypeOK
  <2>3. phase' \in Phases
    BY <1>7 DEF CloseEngine, Phases
  <2> QED BY <2>2, <2>3, <1>7 DEF CloseEngine, TypeOK, RunState
<1>8. CASE Emit
  <2>1. PICK gaveUp \in SUBSET {TargetRefused} :
          Write(Finalize(all \cup Additions \cup gaveUp))
    BY <1>8 DEF Emit
  <2> DEFINE report == Finalize(all \cup Additions \cup gaveUp)
  <2>2. report \in SUBSET Finding
    <3>1. Additions \cup gaveUp \subseteq Finding
      BY <1>0, <2>1, SaidIsFinding DEF Additions
    <3> QED BY <3>1, FinalizeIsPart DEF TypeOK
  <2> HIDE DEF report
  <2>3. written' \subseteq Finding /\ phase' \in Phases /\ blind' \in BOOLEAN
    BY <2>1, <2>2 DEF Write, report, Prefixes, TypeOK, Phases,
                      CoverageIncomplete
  <2>4. worst' \in Severity
    <3>1. Worst(report) \in Severity
      BY <2>2, WorstBounds
    <3> QED BY <2>1, <3>1 DEF Write, Worse, report, TypeOK
  <2> QED BY <2>3, <2>4, <1>8 DEF Emit, TypeOK
<1>9. CASE NextTarget
  BY <1>a, <1>9 DEF NextTarget, TypeOK, Phases
<1>10. CASE FailTarget
  <2>1. pos' \in DOMAIN List /\ phase' \in Phases
    BY <1>a, <1>10 DEF FailTarget, AfterFailure, TypeOK
  <2>2. written' \subseteq Finding
    BY <1>0, <1>10, SaidIsFinding DEF FailTarget, TypeOK
  <2>3. queue' \in Seq(Workload)
    BY <1>10, EmptySeq DEF FailTarget
  <2>4. unexamined' \subseteq Targets \X (Works \cup {"target"})
    BY <1>0, <1>10 DEF FailTarget, TypeOK
  <2>5. blind' \in BOOLEAN /\ exit' \in {Running, 0, 1, 2, 3}
    BY <1>10 DEF FailTarget, TypeOK
  <2> QED BY <2>1, <2>2, <2>3, <2>4, <2>5, <1>10 DEF FailTarget, TypeOK
<1>11. CASE Exit
  BY <1>11 DEF Exit, ExitCode, TypeOK
<1>12. CASE Interrupt
  BY <1>12 DEF Interrupt, TypeOK
<1>13. CASE Done
  BY <1>13 DEF Done, TypeOK, vars
<1>14. CASE UNCHANGED vars
  BY <1>14 DEF TypeOK, vars
<1> QED BY <1>1, <1>2, <1>3, <1>4, <1>5, <1>6, <1>7, <1>8, <1>9, <1>10,
           <1>11, <1>12, <1>13, <1>14 DEF Next

\* Every variable keeps to its type, for every list and every set of backends.
THEOREM TypeCorrect == Spec => []TypeOK
<1>1. Init => TypeOK BY InitTyped
<1>2. TypeOK /\ [Next]_vars => TypeOK' BY TypedStep
<1> QED BY <1>1, <1>2, PTL DEF Spec

-----------------------------------------------------------------------------
\* A workload that was not seen was not probed.
Once == \A w \in Works : probes[w] <= 1 /\ (w \notin seen => probes[w] = 0)

LEMMA OnceStep == TypeOK /\ Once /\ [Next]_vars => Once'
<1> SUFFICES ASSUME TypeOK, Once, [Next]_vars PROVE Once'
  OBVIOUS
<1>1. CASE Discover
  BY <1>1 DEF Discover, Once
<1>2. CASE RefuseWorkload
  BY <1>2 DEF RefuseWorkload, Refuse, Once
<1>3. CASE RunWorkload
  <2>1. PICK i \in DOMAIN queue, F \in SUBSET Exposures[Target] : Run(i, F)
    BY <1>3 DEF RunWorkload
  <2>2. queue[i].id \in Works
    <3>1. queue[i] \in Workload
      BY <2>1, ElementOfSeq, LenProperties DEF TypeOK
    <3> QED BY <3>1 DEF Workload
  <2>3. /\ queue[i].id \notin seen /\ seen' = seen \cup {queue[i].id}
        /\ probes' = [probes EXCEPT ![queue[i].id] = @ + 1]
    BY <2>1 DEF Run, Repeated
  <2>4. probes[queue[i].id] = 0
    BY <2>2, <2>3 DEF Once
  <2>5. ASSUME NEW w \in Works
        PROVE  probes'[w] <= 1 /\ (w \notin seen' => probes'[w] = 0)
    <3>1. CASE w = queue[i].id
      BY <2>2, <2>3, <2>4, <3>1 DEF TypeOK
    <3>2. CASE w # queue[i].id
      BY <2>2, <2>3, <3>2 DEF Once, TypeOK
    <3> QED BY <3>1, <3>2
  <2> QED BY <2>5 DEF Once
<1>4. CASE CloseEngine
  BY <1>4 DEF CloseEngine, Once
<1>5. CASE UNCHANGED <<seen, probes>>
  BY <1>5 DEF Once
<1> QED BY <1>1, <1>2, <1>3, <1>4, <1>5
        DEF Next, vars, Locate, PrepareProvider, Prepared, Emit,
            NextTarget, FailTarget, Exit, Interrupt, Done

\* No workload is probed twice for one target, whatever providers settle on.
THEOREM NeverProbedTwice == Spec => []ProbedOnce
<1>1. Init => Once
  BY DEF Init, Once
<1>2. Once => ProbedOnce
  BY DEF Once, ProbedOnce
<1> QED BY <1>1, <1>2, TypeCorrect, OnceStep, PTL DEF Spec

-----------------------------------------------------------------------------
\* A severity of high or more; the report, so far, has a finding of one.
Hot(n) == High <= n
SomeHot == \E f \in written : Hot(f.severity)
SomeBlind == CoverageIncomplete(written)

\* What binds the exit code to the written report while the run goes on: only
\* a report cut short by its destination is ahead of worst and blind.
Bound ==
  /\ phase \in {"discover", "next", "exit"} => all = {}
  /\ SomeHot => Hot(worst) \/ blind \/ phase = "failed"
  /\ SomeBlind => blind \/ phase = "failed"
  /\ Hot(worst) => SomeHot
  /\ blind => exit = 1 \/ SomeBlind
  /\ exit = 1 => phase = "failed"
  /\ exit \notin {Running, 1} => exit = ExitCode /\ phase = "exit"

\* The steps that touch neither the report nor the exit code.
Assessing ==
  \/ Discover \/ Locate \/ PrepareProvider \/ Prepared \/ RefuseWorkload
  \/ RunWorkload \/ CloseEngine

LEMMA AssessingLeaves ==
  Assessing => /\ phase \notin {"failed", "next", "exit"}
               /\ phase' \notin {"discover", "next", "exit"}
               /\ UNCHANGED <<pos, written, worst, blind, exit>>
BY DEF Assessing, Discover, Locate, PrepareProvider, Prepared, RefuseWorkload,
       RunWorkload, CloseEngine, RunState

LEMMA BoundStep == TypeOK /\ Bound /\ [Next]_vars => Bound'
<1> SUFFICES ASSUME TypeOK, Bound, [Next]_vars PROVE Bound'
  OBVIOUS
<1>0. /\ exit = 1 => exit # Running
      /\ \A x \in {0, 2, 3} : x \notin {Running, 1}
  BY DEF Running
<1>1. CASE Assessing
  <2>1. /\ phase \notin {"failed", "next", "exit"}
        /\ phase' \notin {"discover", "next", "exit"}
        /\ written' = written /\ worst' = worst /\ blind' = blind
        /\ exit' = exit
    BY <1>1, AssessingLeaves
  <2>2. SomeHot' <=> SomeHot
    BY <2>1 DEF SomeHot, Hot
  <2>3. SomeBlind' <=> SomeBlind
    BY <2>1 DEF SomeBlind
  <2>4. Hot(worst') <=> Hot(worst)
    BY <2>1
  <2> QED BY <2>1, <2>2, <2>3, <2>4, Zenon DEF Bound
<1>2. CASE Emit
  <2>1. PICK report \in SUBSET Finding : Write(report)
    <3>1. Target \in Targets
      BY ListIsTyped DEF Target, TypeOK
    <3>2. \A g \in SUBSET {TargetRefused} : Additions \cup g \subseteq Finding
      BY <3>1, SaidIsFinding DEF Additions
    <3>3. PICK g \in SUBSET {TargetRefused} :
            Write(Finalize(all \cup Additions \cup g))
      BY <1>2 DEF Emit
    <3> QED BY <3>2, <3>3, FinalizeIsPart DEF TypeOK
  <2>2. phase = "emit" /\ all' = {} /\ exit' = exit
    BY <1>2 DEF Emit
  <2>3. exit' = Running
    BY <2>2 DEF Bound, TypeOK
  <2>4. written' = written \cup (written' \ written)
    BY <2>1 DEF Write
  <2>5. CASE phase' = "failed"
    <3>1. worst' = worst /\ blind' = blind
      BY <2>1, <2>5 DEF Write
    <3>2. written \subseteq written'
      BY <2>4
    <3>3. SomeHot => SomeHot'
      BY <3>2 DEF SomeHot
    <3>4. SomeBlind => SomeBlind'
      BY <3>2 DEF SomeBlind, CoverageIncomplete
    <3> QED BY <2>2, <2>3, <2>5, <3>1, <3>3, <3>4, <1>0 DEF Bound
  <2>6. CASE phase' # "failed"
    <3>1. /\ written' = written \cup report /\ worst' = Worse(Worst(report))
          /\ blind' = (blind \/ CoverageIncomplete(report))
          /\ phase' = "next"
      BY <2>1, <2>6 DEF Write
    <3>2. /\ Worst(report) \in Severity
          /\ Worst(report) = Info \/ \E f \in report : f.severity = Worst(report)
          /\ \A f \in report : f.severity <= Worst(report)
      BY <2>1, WorstBounds
    <3>3. \A f \in report : f.severity \in Severity
      BY <2>1 DEF Finding
    <3>4. /\ worst \in Int /\ Worst(report) \in Int
          /\ \A f \in report : f.severity \in Int
      BY <3>2, <3>3 DEF TypeOK, Severity, Info, Critical
    <3>5. worst' \in Int /\ worst <= worst' /\ Worst(report) <= worst'
          /\ (worst' = worst \/ worst' = Worst(report))
      BY <3>1, <3>4 DEF Worse
    <3>6. \A f \in report : Hot(f.severity) => Hot(worst')
      BY <3>2, <3>4, <3>5 DEF Hot, High
    <3>7. Hot(worst) => Hot(worst')
      BY <3>4, <3>5 DEF Hot, High
    <3>8. Hot(worst') => Hot(worst) \/ \E f \in report : Hot(f.severity)
      BY <3>2, <3>4, <3>5 DEF Hot, High, Info
    <3>9. SomeHot' <=> SomeHot \/ \E f \in report : Hot(f.severity)
      BY <3>1 DEF SomeHot
    <3>10. SomeBlind' <=> SomeBlind \/ CoverageIncomplete(report)
      BY <3>1 DEF SomeBlind, CoverageIncomplete
    <3>11. SomeHot' => Hot(worst') \/ blind'
      BY <3>1, <3>6, <3>7, <3>9, <2>2, Zenon DEF Bound
    <3>12. SomeBlind' => blind'
      BY <3>1, <3>10, <2>2, Zenon DEF Bound
    <3>13. Hot(worst') => SomeHot'
      BY <3>8, <3>9 DEF Bound
    <3>14. blind' => SomeBlind'
      BY <3>1, <3>10, <2>2, <2>3, <1>0, Zenon DEF Bound
    <3> QED BY <2>2, <2>3, <3>1, <3>11, <3>12, <3>13, <3>14, <1>0, Zenon
            DEF Bound
  <2> QED BY <2>5, <2>6
<1>3. CASE NextTarget
  <2>1. /\ UNCHANGED <<all, written, worst, blind, exit>> /\ phase = "next"
        /\ phase' \in {"discover", "exit"}
    BY <1>3 DEF NextTarget, Advance
  <2>2. exit = Running
    BY <2>1 DEF Bound, TypeOK
  <2>3. (SomeHot' <=> SomeHot) /\ (SomeBlind' <=> SomeBlind)
        /\ (Hot(worst') <=> Hot(worst))
    BY <2>1 DEF SomeHot, SomeBlind
  <2> QED BY <2>1, <2>2, <2>3, <1>0, Zenon DEF Bound
<1>4. CASE FailTarget
  <2>1. /\ exit = Running /\ phase = "failed" /\ blind' = TRUE /\ all' = {}
        /\ worst' = worst
    BY <1>4 DEF FailTarget
  <2>2. Hot(worst') <=> Hot(worst)
    BY <2>1
  <2>3. CASE exit' = exit /\ written' = written \cup {TargetFailed}
             /\ phase' \in {"discover", "exit"}
    <3>1. IsBlind(TargetFailed)
      BY DEF TargetFailed, Says, IsBlind, BlindIDs, NotBlind, NotAssessedID,
             ExhaustedID
    <3>2. SomeBlind'
      BY <2>3, <3>1 DEF SomeBlind, CoverageIncomplete
    <3>3. SomeHot => SomeHot'
      BY <2>3 DEF SomeHot
    <3> QED BY <2>1, <2>2, <2>3, <3>2, <3>3, <1>0, Zenon DEF Bound
  <2>4. CASE exit' = 1 /\ UNCHANGED <<written, phase, pos>>
    <3>1. (SomeHot' <=> SomeHot) /\ (SomeBlind' <=> SomeBlind)
      BY <2>4 DEF SomeHot, SomeBlind
    <3> QED BY <2>1, <2>2, <2>4, <3>1, <1>0, Zenon DEF Bound
  <2> QED BY <2>3, <2>4, <1>4 DEF FailTarget, AfterFailure, Advance
<1>5. CASE Exit
  <2>1. /\ exit = Running /\ phase = "exit" /\ exit' = ExitCode
        /\ UNCHANGED <<phase, all, written, worst, blind>>
    BY <1>5 DEF Exit
  <2>2. ExitCode' = ExitCode /\ ExitCode \in {0, 2, 3}
    BY <2>1 DEF ExitCode
  <2>3. (SomeHot' <=> SomeHot) /\ (SomeBlind' <=> SomeBlind)
        /\ (Hot(worst') <=> Hot(worst))
    BY <2>1 DEF SomeHot, SomeBlind
  <2>4. exit' # 1 /\ exit # 1
    BY <2>1, <2>2, <1>0
  <2> QED BY <2>1, <2>2, <2>3, <2>4, Zenon DEF Bound
<1>6. CASE Interrupt \/ Done \/ UNCHANGED vars
  <2>1. UNCHANGED <<phase, all, written, worst, blind, exit>>
    BY <1>6 DEF Interrupt, Done, vars
  <2>2. (SomeHot' <=> SomeHot) /\ (SomeBlind' <=> SomeBlind)
        /\ (Hot(worst') <=> Hot(worst)) /\ ExitCode' = ExitCode
    BY <2>1 DEF SomeHot, SomeBlind, ExitCode
  <2> QED BY <2>1, <2>2, Zenon DEF Bound
<1> QED BY <1>1, <1>2, <1>3, <1>4, <1>5, <1>6 DEF Next, Assessing

LEMMA InitBound == Init => Bound
<1> SUFFICES ASSUME Init PROVE Bound
  OBVIOUS
<1>1. ~SomeHot /\ ~SomeBlind /\ ~Hot(worst)
  BY DEF Init, SomeHot, SomeBlind, CoverageIncomplete, Hot, High, Info
<1>2. exit = Running /\ exit # 1 /\ all = {} /\ blind = FALSE
  BY DEF Init, Running
<1> QED BY <1>1, <1>2, Zenon DEF Bound

LEMMA BoundIsHonest == TypeOK /\ Bound => ExitMatchesReport
<1> SUFFICES ASSUME TypeOK, Bound PROVE ExitMatchesReport
  OBVIOUS
<1>0. \A f \in written : f.severity \in Int
  BY DEF TypeOK, Finding, Severity, Info, Critical
<1>1. ASSUME exit \in {0, 2, 3}
      PROVE  /\ exit = ExitCode /\ phase # "failed" /\ exit # 1
  BY <1>1 DEF Bound, Running
<1>2. worst \in Int /\ (Hot(worst) <=> worst >= High)
  BY DEF TypeOK, Severity, Info, Critical, Hot, High
<1>3. ASSUME exit = 0 PROVE ~Hot(worst) /\ ~blind
  <2>1. ExitCode = 0 BY <1>1, <1>3
  <2>2. ~(worst >= High) BY <2>1 DEF ExitCode
  <2>3. ~blind BY <2>1, <2>2 DEF ExitCode
  <2> QED BY <2>2, <2>3, <1>2
<1>4. ASSUME exit = 0, NEW f \in written
      PROVE  f.severity < High /\ ~IsBlind(f)
  <2>1. ~SomeHot /\ ~SomeBlind
    BY <1>1, <1>3, <1>4, Zenon DEF Bound
  <2>2. ~Hot(f.severity) /\ ~IsBlind(f)
    BY <2>1 DEF SomeHot, SomeBlind, CoverageIncomplete
  <2> QED BY <2>2, <1>0 DEF Hot, High
<1>5. ASSUME exit = 2 PROVE \E f \in written : f.severity >= High
  <2>1. ExitCode = 2 BY <1>1, <1>5
  <2>2. worst >= High BY <2>1 DEF ExitCode
  <2>3. SomeHot BY <2>2, <1>2 DEF Bound
  <2> QED BY <2>3, <1>0 DEF SomeHot, Hot, High
<1>6. ASSUME exit = 3 PROVE \E f \in written : IsBlind(f)
  <2>1. ExitCode = 3 BY <1>1, <1>6
  <2>2. blind BY <2>1 DEF ExitCode
  <2>3. SomeBlind BY <2>2, <1>1, <1>6, Zenon DEF Bound
  <2> QED BY <2>3 DEF SomeBlind, CoverageIncomplete
<1> QED BY <1>4, <1>5, <1>6 DEF ExitMatchesReport

\* The exit code tells what the written report tells, for every list.
THEOREM ExitIsHonest == Spec => []ExitMatchesReport
<1> QED BY InitBound, BoundStep, BoundIsHonest, TypeCorrect, PTL DEF Spec

-----------------------------------------------------------------------------
\* What was found is in the report, at its severity or a higher one; or the
\* report says that the target failed; or, for the target at hand, it is in
\* hand, or the target is about to fail.
InReport(f) == \E g \in written : /\ Fingerprint(g) = Fingerprint(f)
                                  /\ f.severity <= g.severity
SaidFailed(f) == Says(NotAssessedID, f.matched, "target") \in written
InHand(f) == \E g \in all : /\ Fingerprint(g) = Fingerprint(f)
                            /\ f.severity <= g.severity
Pending(f) == f.matched = Target /\ (phase = "failed" \/ InHand(f))

Accounted == /\ \A f \in found : InReport(f) \/ SaidFailed(f) \/ Pending(f)
             /\ phase \in {"discover", "next", "exit"} => all = {}
             /\ exit \in {0, 2, 3} => phase = "exit"
             /\ exit = 1 => phase = "failed"

\* Nothing in hand is dropped by a step that only adds to it.
LEMMA InHandGrows ==
  ASSUME NEW f, all \subseteq all', InHand(f) PROVE InHand(f)'
BY DEF InHand

LEMMA AccountedStep == TypeOK /\ Accounted /\ [Next]_vars => Accounted'
<1> SUFFICES ASSUME TypeOK, Accounted, [Next]_vars PROVE Accounted'
  OBVIOUS
<1>0. /\ Target \in Targets /\ Exposures[Target] \subseteq Finding
      /\ \A f \in Exposures[Target] : f.matched = Target
  BY ListIsTyped, ExposuresAssumption DEF TypeOK, Target
<1>1. CASE Assessing
  <2>1. /\ phase \notin {"failed", "next", "exit"}
        /\ phase' \notin {"discover", "next", "exit"}
        /\ pos' = pos /\ written' = written /\ exit' = exit
    BY <1>1, AssessingLeaves
  <2>2. Target' = Target
    BY <2>1 DEF Target
  <2>3. exit' = Running
    BY <2>1 DEF Accounted, TypeOK
  <2>4. \A f : InReport(f)' = InReport(f) /\ SaidFailed(f)' = SaidFailed(f)
    BY <2>1 DEF InReport, SaidFailed
  <2>5. \A f \in found' : f \in found \/ f \in Exposures[Target]
    BY <1>1 DEF Assessing, Discover, Locate, PrepareProvider, Prepared,
                RefuseWorkload, RunWorkload, Run, CloseEngine
  <2>6. PICK S \in SUBSET Finding :
          /\ all' = S \/ all' = Finalize(S)
          /\ all \subseteq S
          /\ \A f \in found' : f \in found \/ f \in S
    <3>1. all' \subseteq Finding
      BY TypedStep DEF TypeOK
    <3>2. CASE Discover
      <4>1. all = {} /\ all' \subseteq Finding
        BY <3>1, <3>2 DEF Accounted, Discover
      <4>2. \A f \in found' : f \in found \/ f \in all'
        BY <3>2 DEF Discover
      <4> QED BY <4>1, <4>2
    <3>3. CASE Locate \/ PrepareProvider \/ Prepared \/ RefuseWorkload
      <4>1. all \subseteq all' /\ found' = found
        BY <3>3 DEF Locate, PrepareProvider, Prepared, RefuseWorkload, Refuse
      <4> QED BY <3>1, <4>1
    <3>4. CASE RunWorkload
      <4>1. PICK i \in DOMAIN queue, F \in SUBSET Exposures[Target] : Run(i, F)
        BY <3>4 DEF RunWorkload
      <4>2. all \cup F \subseteq all' /\ found' = found \cup F
        BY <4>1 DEF Run
      <4> QED BY <3>1, <4>2
    <3>5. CASE CloseEngine
      <4>1. PICK F \in SUBSET Exposures[Target] :
              /\ found' = found \cup F
              /\ all' = Finalize(all \cup F \cup Ending)
        BY <3>5 DEF CloseEngine
      <4>2. all \cup F \cup Ending \subseteq Finding
        BY <1>0, <4>1, SaidIsFinding DEF Ending, TypeOK
      <4> QED BY <4>1, <4>2
    <3> QED BY <1>1, <3>2, <3>3, <3>4, <3>5 DEF Assessing
  <2>7. ASSUME NEW f \in found', f.matched = Target,
               \E g \in S : /\ Fingerprint(g) = Fingerprint(f)
                            /\ f.severity <= g.severity
        PROVE  InHand(f)'
    <3>1. PICK g \in S : /\ Fingerprint(g) = Fingerprint(f)
                         /\ f.severity <= g.severity
      BY <2>7
    <3>2. PICK h \in Finalize(S) : /\ Fingerprint(h) = Fingerprint(g)
                                   /\ g.severity <= h.severity
      BY FinalizeKeeps
    <3>3. f \in Finding
      BY TypedStep DEF TypeOK
    <3>4. f.severity <= h.severity
      BY <3>1, <3>2, <3>3, FinalizeIsPart
         DEF Finding, Severity, Info, Critical
    <3> QED BY <2>6, <3>1, <3>2, <3>4 DEF InHand
  <2>8. ASSUME NEW f \in found'
        PROVE  InReport(f)' \/ SaidFailed(f)' \/ Pending(f)'
    <3>1. CASE f \in found /\ ~Pending(f)
      BY <3>1, <2>4 DEF Accounted
    <3>2. CASE f \in found /\ Pending(f)
      <4>1. f.matched = Target /\ InHand(f)
        BY <3>2, <2>1 DEF Pending
      <4>2. InHand(f)'
        BY <4>1, <2>6, <2>7 DEF InHand
      <4> QED BY <4>1, <4>2, <2>2 DEF Pending
    <3>3. CASE f \notin found
      <4>1. f \in Exposures[Target] /\ f.matched = Target /\ f \in S
        BY <3>3, <2>5, <2>6, <1>0
      <4>2. f.severity <= f.severity
        BY <4>1 DEF Finding, Severity, Info, Critical
      <4>3. InHand(f)'
        BY <4>1, <4>2, <2>7
      <4> QED BY <4>1, <4>3, <2>2 DEF Pending
    <3> QED BY <3>1, <3>2, <3>3
  <2>9. exit' \notin {0, 1, 2, 3}
    BY <2>3 DEF Running
  <2> QED BY <2>1, <2>8, <2>9 DEF Accounted
<1>2. CASE Emit
  <2>1. PICK g \in SUBSET {TargetRefused} :
          Write(Finalize(all \cup Additions \cup g))
    BY <1>2 DEF Emit
  <2> DEFINE S == all \cup Additions \cup g
  <2>2. S \in SUBSET Finding
    BY <1>0, <2>1, SaidIsFinding DEF Additions, TypeOK
  <2>3. /\ phase = "emit" /\ all' = {} /\ exit' = exit /\ found' = found
        /\ pos' = pos /\ Target' = Target
    BY <1>2 DEF Emit, Target
  <2>4. exit' \notin {0, 1, 2, 3}
    BY <2>3 DEF Accounted, TypeOK, Running
  <2>5. written \subseteq written'
    BY <2>1 DEF Write
  <2>6. \A f : (InReport(f) => InReport(f)') /\ (SaidFailed(f) => SaidFailed(f)')
    BY <2>5 DEF InReport, SaidFailed
  <2>7. CASE phase' = "failed"
    <3>1. ASSUME NEW f \in found'
          PROVE  InReport(f)' \/ SaidFailed(f)' \/ Pending(f)'
      BY <2>3, <2>6, <2>7 DEF Accounted, Pending
    <3> QED BY <2>4, <2>7, <3>1 DEF Accounted
  <2>8. CASE phase' # "failed"
    <3>1. phase' = "next" /\ written' = written \cup Finalize(S)
      BY <2>1, <2>8 DEF Write
    <3>2. ASSUME NEW f \in found', InHand(f) PROVE InReport(f)'
      <4>1. PICK h \in all : /\ Fingerprint(h) = Fingerprint(f)
                             /\ f.severity <= h.severity
        BY <3>2 DEF InHand
      <4>2. PICK k \in Finalize(S) : /\ Fingerprint(k) = Fingerprint(h)
                                     /\ h.severity <= k.severity
        BY <2>2, FinalizeKeeps
      <4>3. f \in Finding /\ h \in Finding /\ k \in Finding
        BY <2>2, <2>3, FinalizeIsPart DEF TypeOK
      <4>4. f.severity <= k.severity
        BY <4>1, <4>2, <4>3 DEF Finding, Severity, Info, Critical
      <4> QED BY <3>1, <4>1, <4>2, <4>4 DEF InReport
    <3>3. ASSUME NEW f \in found'
          PROVE  InReport(f)' \/ SaidFailed(f)' \/ Pending(f)'
      BY <2>3, <2>6, <3>2 DEF Accounted, Pending
    <3> QED BY <2>3, <2>4, <3>1, <3>3 DEF Accounted
  <2> QED BY <2>7, <2>8
<1>3. CASE NextTarget
  <2>1. /\ all' = all /\ written' = written /\ exit' = exit /\ found' = found
        /\ phase = "next" /\ phase' \in {"discover", "exit"}
    BY <1>3 DEF NextTarget, Advance
  <2>2. all = {} /\ exit \notin {0, 1, 2, 3}
    BY <2>1 DEF Accounted, TypeOK, Running
  <2>3. \A f : InReport(f)' = InReport(f) /\ SaidFailed(f)' = SaidFailed(f)
    BY <2>1 DEF InReport, SaidFailed
  <2>4. \A f \in found' : InReport(f)' \/ SaidFailed(f)'
    BY <2>1, <2>2, <2>3 DEF Accounted, Pending, InHand
  <2> QED BY <2>1, <2>2, <2>4 DEF Accounted
<1>4. CASE FailTarget
  <2>1. /\ exit = Running /\ phase = "failed" /\ all' = {} /\ found' = found
    BY <1>4 DEF FailTarget
  <2>2. CASE exit' = exit /\ written' = written \cup {TargetFailed}
             /\ phase' \in {"discover", "exit"}
    <3>1. \A f : (InReport(f) => InReport(f)')
                 /\ (SaidFailed(f) => SaidFailed(f)')
      BY <2>2 DEF InReport, SaidFailed
    <3>2. \A f : Pending(f) => SaidFailed(f)'
      BY <2>2 DEF Pending, SaidFailed, TargetFailed
    <3>3. \A f \in found' : InReport(f)' \/ SaidFailed(f)'
      BY <2>1, <3>1, <3>2 DEF Accounted
    <3> QED BY <2>1, <2>2, <3>3 DEF Accounted, Running
  <2>3. CASE exit' = 1 /\ UNCHANGED <<written, phase, pos>>
    <3>1. \A f : InReport(f)' = InReport(f) /\ SaidFailed(f)' = SaidFailed(f)
      BY <2>3 DEF InReport, SaidFailed
    <3>2. \A f : Pending(f) => Pending(f)'
      BY <2>1, <2>3 DEF Pending, Target
    <3>3. \A f \in found' : InReport(f)' \/ SaidFailed(f)' \/ Pending(f)'
      BY <2>1, <3>1, <3>2 DEF Accounted
    <3> QED BY <2>1, <2>3, <3>3 DEF Accounted
  <2> QED BY <2>2, <2>3, <1>4 DEF FailTarget, AfterFailure, Advance
<1>5. CASE Exit
  <2>1. /\ UNCHANGED <<phase, all, written, found, pos>> /\ phase = "exit"
        /\ exit' = ExitCode
    BY <1>5 DEF Exit
  <2>2. ExitCode # 1
    BY DEF ExitCode
  <2>3. \A f \in found' : InReport(f)' \/ SaidFailed(f)' \/ Pending(f)'
    BY <2>1 DEF Accounted, InReport, SaidFailed, Pending, InHand, Target
  <2> QED BY <2>1, <2>2, <2>3 DEF Accounted
<1>6. CASE Interrupt \/ Done \/ UNCHANGED vars
  <2>1. UNCHANGED <<phase, all, written, found, pos, exit>>
    BY <1>6 DEF Interrupt, Done, vars
  <2>2. \A f \in found' : InReport(f)' \/ SaidFailed(f)' \/ Pending(f)'
    BY <2>1 DEF Accounted, InReport, SaidFailed, Pending, InHand, Target
  <2> QED BY <2>1, <2>2 DEF Accounted
<1> QED BY <1>1, <1>2, <1>3, <1>4, <1>5, <1>6 DEF Next, Assessing

\* Whatever a stage found is in the report at its severity or a higher one,
\* or the report says that its target could not be scanned.
THEOREM NothingFoundIsLost == Spec => []FoundIsReported
<1>1. Init => Accounted
  BY DEF Init, Accounted, Running
<1>2. Accounted => FoundIsReported
  <2> SUFFICES ASSUME Accounted, exit \in {0, 2, 3}, NEW f \in found
               PROVE  InReport(f) \/ SaidFailed(f)
    BY DEF FoundIsReported, Finished, InReport, SaidFailed
  <2>1. phase = "exit" /\ all = {}
    BY DEF Accounted
  <2> QED BY <2>1 DEF Accounted, Pending, InHand
<1> QED BY <1>1, <1>2, TypeCorrect, AccountedStep, PTL DEF Spec

\* An exposure of high severity found anywhere never ends in exit 0.
THEOREM HighIsNeverClean == Spec => []HighNeverExitsZero
<1>1. TypeOK /\ FoundIsReported /\ ExitMatchesReport => HighNeverExitsZero
  <2> SUFFICES ASSUME TypeOK, FoundIsReported, ExitMatchesReport, exit = 0,
                      NEW f \in found
               PROVE  f.severity < High
    BY DEF HighNeverExitsZero
  <2>1. \A g \in written : g.severity < High /\ ~IsBlind(g)
    BY DEF ExitMatchesReport
  <2>2. Says(NotAssessedID, f.matched, "target") \notin written
    BY <2>1 DEF Says, IsBlind, BlindIDs, NotBlind, NotAssessedID, ExhaustedID
  <2>3. PICK g \in written : f.severity <= g.severity
    BY <2>2 DEF FoundIsReported, Finished
  <2>4. f.severity \in Int /\ g.severity \in Int
    BY DEF TypeOK, Finding, Severity, Info, Critical
  <2> QED BY <2>1, <2>3, <2>4 DEF High
<1> QED BY <1>1, TypeCorrect, NothingFoundIsLost, ExitIsHonest, PTL

-----------------------------------------------------------------------------
\* A finding of a target, about one of R.
Tells(S, t, R) == \E f \in S : f.matched = t /\ f.resource \in R

\* Sort and Dedup keep what a report tells.
LEMMA FinalizeTells ==
  ASSUME NEW S \in SUBSET Finding, NEW t, NEW R, Tells(S, t, R)
  PROVE  Tells(Finalize(S), t, R)
<1>1. PICK f \in S : f.matched = t /\ f.resource \in R
  BY DEF Tells
<1>2. PICK g \in Finalize(S) : Fingerprint(g) = Fingerprint(f)
  BY <1>1, FinalizeKeeps
<1>3. g.matched = f.matched /\ g.resource = f.resource
  BY <1>2 DEF Fingerprint
<1> QED BY <1>1, <1>2, <1>3 DEF Tells

\* A report that tells a thing still tells it when it has grown.
LEMMA TellsMore ==
  ASSUME NEW S, NEW T, S \subseteq T, NEW t, NEW R, Tells(S, t, R)
  PROVE  Tells(T, t, R)
BY DEF Tells

\* What Says says, it tells.
LEMMA SaysTells ==
  ASSUME NEW S, NEW id, NEW t, NEW r, NEW R, r \in R, Says(id, t, r) \in S
  PROVE  Tells(S, t, R)
BY DEF Tells, Says

\* A run that was not interrupted has told of every target before the one at
\* hand, and of that one too once it is past it.
Told(t) == Tells(written, t, {"scan", "target"})
Behind == ~cancelled =>
  /\ \A k \in DOMAIN List : k < pos => Told(List[k])
  /\ phase = "next" => Told(Target)
  /\ phase = "exit" => pos = Len(List) /\ Told(Target)
Ended == /\ exit \in {0, 2, 3} => phase = "exit"
         /\ exit = 1 => phase = "failed"

\* A written report has the summary of its target.
LEMMA EmitTells ==
  TypeOK /\ Emit => \/ phase' = "failed" /\ written \subseteq written'
                    \/ /\ phase' = "next" /\ written \subseteq written'
                       /\ Tells(written', Target, {"scan", "target"})
                       /\ \A R : Tells(all, Target, R) => Tells(written', Target, R)
                       /\ route = "keyless" => Tells(written', Target, {"backend"})
<1> SUFFICES ASSUME TypeOK, Emit
             PROVE  \/ phase' = "failed" /\ written \subseteq written'
                    \/ /\ phase' = "next" /\ written \subseteq written'
                       /\ Tells(written', Target, {"scan", "target"})
                       /\ \A R : Tells(all, Target, R) => Tells(written', Target, R)
                       /\ route = "keyless" => Tells(written', Target, {"backend"})
  OBVIOUS
<1>0. Target \in Targets
  BY ListIsTyped DEF TypeOK, Target
<1>1. PICK gaveUp \in SUBSET {TargetRefused} :
        Write(Finalize(all \cup Additions \cup gaveUp))
  BY DEF Emit
<1> DEFINE S == all \cup Additions \cup gaveUp
<1>2. S \in SUBSET Finding
  BY <1>0, SaidIsFinding DEF Additions, TypeOK
<1>3. CASE phase' = "failed"
  BY <1>1, <1>3 DEF Write
<1>4. CASE phase' # "failed"
  <2>1. phase' = "next" /\ written' = written \cup Finalize(S)
    BY <1>1, <1>4 DEF Write
  <2>2. ScanSummary \in S /\ (route = "keyless" => BackendUnknown \in S)
    BY DEF Additions
  <2>3. Tells(S, Target, {"scan", "target"})
    BY <2>2, SaysTells DEF ScanSummary
  <2>4. route = "keyless" => Tells(S, Target, {"backend"})
    BY <2>2, SaysTells DEF BackendUnknown
  <2> HIDE DEF S
  <2>5. \A R : Tells(S, Target, R) => Tells(written', Target, R)
    <3>1. \A R : Tells(S, Target, R) => Tells(Finalize(S), Target, R)
      BY <1>2, FinalizeTells
    <3> QED BY <2>1, <3>1, TellsMore
  <2>6. \A R : Tells(all, Target, R) => Tells(S, Target, R)
    <3>1. all \subseteq S
      BY DEF S
    <3> QED BY <3>1, TellsMore
  <2> QED BY <2>1, <2>3, <2>4, <2>5, <2>6
<1> QED BY <1>3, <1>4

LEMMA BehindStep ==
  TypeOK /\ Behind /\ Ended /\ [Next]_vars => Behind' /\ Ended'
<1> SUFFICES ASSUME TypeOK, Behind, Ended, [Next]_vars PROVE Behind' /\ Ended'
  OBVIOUS
<1>0. Len(List) \in Nat /\ DOMAIN List = 1..Len(List) /\ pos \in 1..Len(List)
  BY ListAssumption, LenProperties DEF TypeOK
<1>a. ASSUME written \subseteq written'
      PROVE  \A t : Told(t) => Told(t)'
  BY <1>a, TellsMore DEF Told
<1>b. ASSUME Advance, written \subseteq written', ~cancelled,
             Tells(written', List[pos], {"scan", "target"}),
             exit = Running, UNCHANGED <<exit, cancelled>>
      PROVE  Behind' /\ Ended'
  <2>1. CASE pos = Len(List)
    <3>1. phase' = "exit" /\ pos' = pos
      BY <1>b, <2>1 DEF Advance
    <3> QED BY <1>a, <1>b, <2>1, <3>1 DEF Behind, Ended, Running, Target, Told
  <2>2. CASE pos # Len(List)
    <3>1. phase' = "discover" /\ pos' = pos + 1
      BY <1>b, <2>2 DEF Advance
    <3>2. \A k \in DOMAIN List : k < pos' => Told(List[k])'
      <4> SUFFICES ASSUME NEW k \in DOMAIN List, k < pos'
                   PROVE  Told(List[k])'
        OBVIOUS
      <4>1. k = pos \/ k < pos
        BY <1>0, <3>1
      <4>2. CASE k = pos
        BY <1>b, <4>2 DEF Told
      <4>3. CASE k < pos
        BY <1>a, <1>b, <4>3 DEF Behind
      <4> QED BY <4>1, <4>2, <4>3
    <3> QED BY <1>b, <3>1, <3>2 DEF Behind, Ended, Running
  <2> QED BY <2>1, <2>2
<1>1. CASE Assessing
  <2>1. /\ phase' \notin {"next", "exit"}
        /\ phase \notin {"failed", "next", "exit"}
        /\ UNCHANGED <<pos, written, exit>>
    BY <1>1, AssessingLeaves
  <2>2. cancelled' = cancelled
    BY <1>1 DEF Assessing, Discover, Locate, PrepareProvider, Prepared,
                RefuseWorkload, RunWorkload, CloseEngine
  <2> QED BY <2>1, <2>2, <1>a DEF Behind, Ended
<1>2. CASE Emit
  <2>1. phase = "emit" /\ UNCHANGED <<pos, exit, cancelled>>
    BY <1>2 DEF Emit
  <2>2. \/ phase' = "failed" /\ written \subseteq written'
        \/ /\ phase' = "next" /\ written \subseteq written'
           /\ Tells(written', Target, {"scan", "target"})
    BY <1>2, EmitTells
  <2>3. phase' = "next" => Told(Target)'
    BY <2>1, <2>2 DEF Told, Target
  <2> QED BY <2>1, <2>2, <2>3, <1>a DEF Behind, Ended
<1>3. CASE NextTarget
  <2>1. /\ phase = "next" /\ UNCHANGED <<written, exit, cancelled>>
        /\ exit = Running
    BY <1>3 DEF NextTarget, Ended, TypeOK
  <2>2. CASE ~cancelled /\ Advance
    <3>1. Tells(written', List[pos], {"scan", "target"})
      BY <2>1, <2>2 DEF Behind, Told, Target
    <3> QED BY <1>b, <2>1, <2>2, <3>1
  <2>3. CASE cancelled
    BY <2>1, <2>3 DEF Behind, Ended, Running
  <2> QED BY <1>3, <2>2, <2>3 DEF NextTarget
<1>4. CASE FailTarget
  <2>1. exit = Running /\ phase = "failed" /\ cancelled' = cancelled
    BY <1>4 DEF FailTarget
  <2>2. CASE exit' = exit /\ written' = written \cup {TargetFailed} /\ Advance
    <3>1. Tells(written', List[pos], {"scan", "target"})
      BY <2>2, SaysTells DEF TargetFailed, Target
    <3>2. CASE cancelled
      BY <2>1, <2>2, <3>2 DEF Behind, Ended, Running
    <3> QED BY <1>b, <2>1, <2>2, <3>1, <3>2
  <2>3. CASE exit' = 1 /\ UNCHANGED <<written, phase, pos>>
    BY <2>1, <2>3, <1>a DEF Behind, Ended
  <2> QED BY <1>4, <2>2, <2>3 DEF FailTarget, AfterFailure
<1>5. CASE Exit
  <2>1. ExitCode \in {0, 2, 3}
    BY DEF ExitCode
  <2> QED BY <1>5, <2>1, <1>a DEF Exit, Behind, Ended, Target, Told
<1>6. CASE Interrupt
  BY <1>6, <1>a DEF Interrupt, Behind, Ended
<1>7. CASE Done \/ UNCHANGED vars
  BY <1>7 DEF Done, vars, Behind, Ended, Target, Told
<1> QED BY <1>1, <1>2, <1>3, <1>4, <1>5, <1>6, <1>7 DEF Next, Assessing

\* Without an interrupt, a run that ends has told of every target of its list,
\* scanned or failed, whatever happened at the others.
THEOREM EveryTargetIsTold == Spec => []NoTargetAbandoned
<1>1. Init => Behind /\ Ended
  BY ListAssumption, LenProperties DEF Init, Behind, Ended, Running
<1>2. TypeOK /\ Behind /\ Ended => NoTargetAbandoned
  <2> SUFFICES ASSUME TypeOK, Behind, Ended, Finished, ~cancelled,
                      NEW k \in DOMAIN List
               PROVE  \E f \in written : /\ f.matched = List[k]
                                         /\ f.resource \in {"scan", "target"}
    BY DEF NoTargetAbandoned
  <2>1. phase = "exit" /\ pos = Len(List) /\ Told(Target)
    BY DEF Finished, Ended, Behind
  <2>2. Len(List) \in Nat /\ DOMAIN List = 1..Len(List)
    BY ListAssumption, LenProperties
  <2>3. Told(List[k])
    BY <2>1, <2>2 DEF Behind, Target
  <2> QED BY <2>3 DEF Told, Tells
<1> QED BY <1>1, <1>2, TypeCorrect, BehindStep, PTL DEF Spec

-----------------------------------------------------------------------------
\* What of the queue is left when one workload of it has been taken out.
LEMMA DequeueKeeps ==
  ASSUME queue \in Seq(Workload), NEW i \in DOMAIN queue,
         NEW k \in DOMAIN queue, k # i
  PROVE  \E j \in DOMAIN Dequeue(i) : Dequeue(i)[j] = queue[k]
<1> DEFINE s == SubSeq(queue, 1, i - 1)
           t == SubSeq(queue, i + 1, Len(queue))
<1>1. /\ Len(queue) \in Nat /\ i \in 1..Len(queue) /\ k \in 1..Len(queue)
      /\ \A n \in 1..Len(queue) : queue[n] \in Workload
  BY LenProperties, ElementOfSeq
<1>2. /\ s \in Seq(Workload) /\ Len(s) = i - 1
      /\ \A n \in 1..(i - 1) : s[n] = queue[n]
  <2>1. \A n \in 1..(i - 1) : queue[n] \in Workload
    BY <1>1
  <2> QED BY <1>1, <2>1, SubSeqProperties
<1>3. /\ t \in Seq(Workload) /\ Len(t) = Len(queue) - i
      /\ \A n \in 1..(Len(queue) - i) : t[n] = queue[i + n]
  <2>1. \A n \in (i + 1)..Len(queue) : queue[n] \in Workload
    BY <1>1
  <2> QED BY <1>1, <2>1, SubSeqProperties
<1>4. Dequeue(i) = s \o t
  BY DEF Dequeue
<1> HIDE DEF s, t
<1>5. /\ DOMAIN (s \o t) = 1..(Len(queue) - 1)
      /\ \A n \in 1..(Len(queue) - 1) :
           (s \o t)[n] = IF n < i THEN s[n] ELSE t[n - (i - 1)]
  BY <1>1, <1>2, <1>3, ConcatProperties, LenProperties
<1>6. CASE k < i
  BY <1>1, <1>2, <1>4, <1>5, <1>6
<1>7. CASE k > i
  <2>1. k - 1 \in 1..(Len(queue) - 1) /\ ~(k - 1 < i)
    BY <1>1, <1>7
  <2>2. (s \o t)[k - 1] = queue[k]
    <3>1. k - i \in 1..(Len(queue) - i) /\ k - 1 - (i - 1) = k - i
          /\ i + (k - i) = k
      BY <1>1, <1>7
    <3>2. t[k - i] = queue[i + (k - i)]
      BY <1>3, <3>1
    <3> QED BY <1>5, <2>1, <3>1, <3>2
  <2> QED BY <1>4, <1>5, <2>1, <2>2
<1> QED BY <1>1, <1>6, <1>7

\* What follows a gap until it is written: its target is about to fail; what
\* tells of it is in hand, or with a workload that preparation stopped and
\* the engine will refuse; or it is the missing key, or the interrupt, that
\* scanTarget and engine.Run tell of at their end.
StoppedTells(q, w) ==
  \E i \in DOMAIN q : /\ q[i].stopped /\ q[i].id = w
                      /\ Tells(q[i].findings, Target, TellsOf(w))
OnItsWay(w) ==
  \/ phase = "failed"
  \/ Tells(all, Target, TellsOf(w))
  \/ /\ phase \in {"prepare", "assess", "emit"} /\ route = "keyless"
     /\ w = Supabase
  \/ phase \in {"prepare", "assess"} /\ StoppedTells(queue, w)
  \/ phase = "assess" /\ cancelled
Followed(gap) ==
  \/ Tells(written, gap[1], TellsOf(gap[2]))
  \/ gap[1] = Target /\ OnItsWay(gap[2])
GapsAreFollowed == \A gap \in unexamined : Followed(gap)

\* Where something of R tells of w, a finding about R tells of it.
LEMMA TellsOfPart ==
  ASSUME NEW S, NEW t, NEW r, NEW w, NEW id, r \in TellsOf(w),
         Says(id, t, r) \in S
  PROVE  Tells(S, t, TellsOf(w))
BY SaysTells

\* A step that only records what it finds or refuses, and the gaps it leaves,
\* follows them on if it follows the ones of the target at hand.
LEMMA FollowOn ==
  ASSUME GapsAreFollowed, UNCHANGED <<pos, written>>,
         unexamined' \subseteq Targets \X (Works \cup {"target"}),
         \A w : OnItsWay(w) => OnItsWay(w)',
         \A gap \in unexamined' : gap \notin unexamined
           => gap[1] = Target /\ OnItsWay(gap[2])'
  PROVE  GapsAreFollowed'
<1>1. Target' = Target
  BY DEF Target
<1> QED BY <1>1, Zenon DEF GapsAreFollowed, Followed

LEMMA GapsStep ==
  TypeOK /\ Accounted /\ GapsAreFollowed /\ [Next]_vars => GapsAreFollowed'
<1> SUFFICES ASSUME TypeOK, Accounted, GapsAreFollowed, [Next]_vars
             PROVE  GapsAreFollowed'
  OBVIOUS
<1>0. /\ Target \in Targets
      /\ unexamined' \subseteq Targets \X (Works \cup {"target"})
      /\ all' \subseteq Finding
  BY ListIsTyped, TypedStep DEF TypeOK, Target
<1>1. CASE Discover
  <2>1. /\ phase = "discover" /\ UNCHANGED <<pos, written, unexamined>>
        /\ all = {}
    BY <1>1 DEF Discover, RunState, Accounted
  <2>2. \A w : ~OnItsWay(w)
    BY <2>1 DEF OnItsWay, Tells
  <2> QED BY <2>1, <2>2, <1>0, FollowOn
<1>2. CASE Locate
  <2>1. phase = "locate" /\ UNCHANGED <<pos, written>> /\ all \subseteq all'
    BY <1>2 DEF Locate, RunState
  <2>2. Target' = Target /\ \A w : Tells(all, Target, TellsOf(w))
                                     => Tells(all', Target, TellsOf(w))
    BY <2>1, TellsMore DEF Target
  <2>3. \A w : OnItsWay(w) => OnItsWay(w)'
    BY <2>1, <2>2 DEF OnItsWay
  <2>4. ASSUME NEW gap \in unexamined', gap \notin unexamined
        PROVE  gap[1] = Target /\ OnItsWay(gap[2])'
    <3>1. /\ gap = <<Target, Supabase>> /\ phase' = "prepare"
          /\ route' = "keyless" \/ SkippedStage(Supabase) \in all'
      BY <1>2, <2>4 DEF Locate
    <3>2. Supabase \in TellsOf(Supabase)
      BY DEF TellsOf
    <3>3. SkippedStage(Supabase) \in all'
             => Tells(all', Target, TellsOf(Supabase))
      BY <3>2, TellsOfPart DEF SkippedStage
    <3> QED BY <3>1, <3>3, <2>2 DEF OnItsWay
  <2> QED BY <2>1, <2>3, <2>4, <1>0, FollowOn
<1>3. CASE PrepareProvider
  <2> DEFINE p == Head(detections)
  <2>1. /\ phase = "prepare" /\ UNCHANGED <<pos, written, phase, route, all>>
        /\ Target' = Target
    BY <1>3 DEF PrepareProvider, RunState, Target
  <2>2. PICK q : /\ queue' = Append(queue, q)
                 /\ \/ UNCHANGED unexamined
                    \/ /\ unexamined' = unexamined \cup {<<Target, p>>}
                       /\ q.stopped /\ q.id = p
                       /\ Tells(q.findings, Target, TellsOf(p))
    <3>1. Tells({NotAssessed(p)}, Target, TellsOf(p))
      BY TellsOfPart DEF NotAssessed, TellsOf
    <3>2. p = Supabase => Tells({PrefixUnresolved}, Target, TellsOf(p))
      BY TellsOfPart DEF PrefixUnresolved, TellsOf
    <3>3. \A F : /\ Stopped(p, F).stopped /\ Stopped(p, F).id = p
                /\ Stopped(p, F).findings = F
      BY DEF Stopped
    <3>4. \/ /\ queue' = Append(queue, Stopped(p, {NotAssessed(p)}))
             /\ unexamined' = unexamined \cup {<<Target, p>>}
          \/ /\ queue' = Append(queue, Stopped(p, {PrefixUnresolved}))
             /\ unexamined' = unexamined \cup {<<Target, p>>} /\ p = Supabase
          \/ UNCHANGED unexamined /\ \E q : queue' = Append(queue, q)
      BY <1>3 DEF PrepareProvider
    <3> HIDE DEF p
    <3> QED BY <3>1, <3>2, <3>3, <3>4
  <2>3. /\ Len(queue) \in Nat /\ DOMAIN queue = 1..Len(queue)
        /\ DOMAIN queue' = 1..(Len(queue) + 1)
        /\ \A k \in DOMAIN queue : queue'[k] = queue[k]
        /\ queue'[Len(queue) + 1] = q
    BY <2>2, AppendProperties, LenProperties DEF TypeOK
  <2>4. \A w : StoppedTells(queue, w) => StoppedTells(queue, w)'
    BY <2>1, <2>3 DEF StoppedTells
  <2>5. \A w : OnItsWay(w) => OnItsWay(w)'
    BY <2>1, <2>4 DEF OnItsWay
  <2>6. ASSUME NEW gap \in unexamined', gap \notin unexamined
        PROVE  gap[1] = Target /\ OnItsWay(gap[2])'
    <3>1. /\ gap[1] = Target /\ q.stopped /\ q.id = gap[2]
          /\ Tells(q.findings, Target, TellsOf(gap[2]))
      BY <2>2, <2>6
    <3> HIDE DEF p
    <3>2. StoppedTells(queue, gap[2])'
      BY <3>1, <2>1, <2>3 DEF StoppedTells
    <3> QED BY <3>1, <3>2, <2>1 DEF OnItsWay
  <2> QED BY <2>1, <2>5, <2>6, <1>0, FollowOn
<1>4. CASE Prepared
  <2>1. /\ phase = "prepare" /\ phase' = "assess" /\ Target' = Target
        /\ UNCHANGED <<pos, written, unexamined, route, all, queue, cancelled>>
    BY <1>4 DEF Prepared, RunState, Target
  <2>2. \A w : OnItsWay(w) => OnItsWay(w)'
    BY <2>1 DEF OnItsWay, StoppedTells
  <2> QED BY <2>1, <2>2, <1>0, FollowOn
<1>5. CASE RefuseWorkload
  <2>1. PICK i \in DOMAIN queue : Refuse(i)
    BY <1>5 DEF RefuseWorkload
  <2>2. /\ phase = "assess" /\ Target' = Target
        /\ UNCHANGED <<pos, written, phase, route, cancelled>>
        /\ all \subseteq all' /\ queue' = Dequeue(i)
    BY <1>5, <2>1 DEF RefuseWorkload, Refuse, RunState, Target
  <2>3. \A w : Tells(all, Target, TellsOf(w)) => Tells(all', Target, TellsOf(w))
    BY <2>2, TellsMore
  <2>4. NotAssessed(queue[i].id) \in all'
          => Tells(all', Target, TellsOf(queue[i].id))
    <3>1. queue[i].id \in TellsOf(queue[i].id)
      BY DEF TellsOf
    <3> QED BY <3>1, TellsOfPart DEF NotAssessed
  <2>5. ASSUME NEW w, StoppedTells(queue, w)
        PROVE  Tells(all', Target, TellsOf(w)) \/ StoppedTells(queue', w)
    <3>1. PICK k \in DOMAIN queue :
            /\ queue[k].stopped /\ queue[k].id = w
            /\ Tells(queue[k].findings, Target, TellsOf(w))
      BY <2>5 DEF StoppedTells
    <3>2. CASE k = i
      <4>1. \/ NotAssessed(queue[i].id) \in all'
            \/ queue[i].findings \subseteq all'
        BY <2>1 DEF Refuse
      <4> QED BY <3>1, <3>2, <4>1, <2>4, TellsMore
    <3>3. CASE k # i
      <4>1. PICK j \in DOMAIN Dequeue(i) : Dequeue(i)[j] = queue[k]
        BY <2>1, <3>3, DequeueKeeps DEF TypeOK
      <4> QED BY <3>1, <4>1, <2>2 DEF StoppedTells
    <3> QED BY <3>2, <3>3
  <2>6. \A w : OnItsWay(w) => OnItsWay(w)'
    <3>1. \A w : StoppedTells(queue', w) = StoppedTells(queue, w)'
      BY <2>2 DEF StoppedTells
    <3> QED BY <2>2, <2>3, <2>5, <3>1 DEF OnItsWay
  <2>7. ASSUME NEW gap \in unexamined', gap \notin unexamined
        PROVE  gap[1] = Target /\ OnItsWay(gap[2])'
    <3>1. gap = <<Target, queue[i].id>> /\ NotAssessed(queue[i].id) \in all'
      BY <2>1, <2>7 DEF Refuse
    <3> QED BY <3>1, <2>2, <2>4 DEF OnItsWay
  <2> QED BY <2>2, <2>6, <2>7, <1>0, FollowOn
<1>6. CASE RunWorkload
  <2>1. PICK i \in DOMAIN queue, F \in SUBSET Exposures[Target] : Run(i, F)
    BY <1>6 DEF RunWorkload
  <2>2. /\ phase = "assess" /\ Target' = Target
        /\ UNCHANGED <<pos, written, phase, route, cancelled>>
        /\ all \subseteq all' /\ queue' = Dequeue(i) /\ ~queue[i].stopped
    BY <1>6, <2>1 DEF RunWorkload, Run, RunState, Target
  <2>3. \A w : Tells(all, Target, TellsOf(w)) => Tells(all', Target, TellsOf(w))
    BY <2>2, TellsMore
  <2>4. ASSUME NEW w, StoppedTells(queue, w) PROVE StoppedTells(queue', w)
    <3>1. PICK k \in DOMAIN queue :
            /\ queue[k].stopped /\ queue[k].id = w
            /\ Tells(queue[k].findings, Target, TellsOf(w))
      BY <2>4 DEF StoppedTells
    <3>2. PICK j \in DOMAIN Dequeue(i) : Dequeue(i)[j] = queue[k]
      BY <2>1, <2>2, <3>1, DequeueKeeps DEF TypeOK
    <3> QED BY <3>1, <3>2, <2>2 DEF StoppedTells
  <2>5. \A w : OnItsWay(w) => OnItsWay(w)'
    <3>1. \A w : StoppedTells(queue', w) = StoppedTells(queue, w)'
      BY <2>2 DEF StoppedTells
    <3> QED BY <2>2, <2>3, <2>4, <3>1 DEF OnItsWay
  <2>6. ASSUME NEW gap \in unexamined', gap \notin unexamined
        PROVE  gap[1] = Target /\ OnItsWay(gap[2])'
    <3> DEFINE w == queue[i].id
    <3>1. /\ gap = <<Target, w>>
          /\ \E hint \in Gaps(w) : hint \subseteq all'
      BY <2>1, <2>6 DEF Run
    <3>2. PICK hint \in Gaps(w) : hint \subseteq all'
      BY <3>1
    <3> HIDE DEF w
    <3>3. \/ cancelled
          \/ NotAssessed(w) \in all'
          \/ SkippedStage(w) \in all'
          \/ w = Supabase /\ Truncated \in all'
      BY <3>2 DEF Gaps
    <3>4. w \in TellsOf(w) /\ "routine-discovery" \in TellsOf(Supabase)
      BY DEF TellsOf
    <3>5. cancelled \/ Tells(all', Target, TellsOf(w))
      BY <3>3, <3>4, TellsOfPart DEF NotAssessed, SkippedStage, Truncated
    <3> QED BY <3>1, <3>5, <2>2 DEF OnItsWay
  <2> QED BY <2>2, <2>5, <2>6, <1>0, FollowOn
<1>7. CASE CloseEngine
  <2>1. PICK F \in SUBSET Exposures[Target] :
          all' = Finalize(all \cup F \cup Ending)
    BY <1>7 DEF CloseEngine
  <2>2. /\ phase = "assess" /\ phase' \in {"emit", "failed"} /\ queue = <<>>
        /\ UNCHANGED <<pos, written, unexamined, route, cancelled>>
        /\ Target' = Target
    BY <1>7 DEF CloseEngine, RunState, Target
  <2>3. all \cup F \cup Ending \in SUBSET Finding
    BY <1>0, SaidIsFinding, ExposuresAssumption DEF Ending, TypeOK
  <2>4. \A w : Tells(all, Target, TellsOf(w)) \/ cancelled
                 => Tells(all', Target, TellsOf(w))
    <3>1. ASSUME NEW w, cancelled
          PROVE  Tells(all \cup F \cup Ending, Target, TellsOf(w))
      <4>1. Interrupted \in all \cup F \cup Ending
        BY <3>1 DEF Ending
      <4> QED BY <4>1, TellsOfPart DEF Interrupted, TellsOf
    <3>2. ASSUME NEW w, Tells(all, Target, TellsOf(w))
          PROVE  Tells(all \cup F \cup Ending, Target, TellsOf(w))
      BY <3>2, TellsMore
    <3> QED BY <3>1, <3>2, <2>1, <2>3, FinalizeTells
  <2>5. \A w : OnItsWay(w) => OnItsWay(w)'
    <3>1. \A w : ~StoppedTells(queue, w)
      BY <2>2 DEF StoppedTells
    <3> QED BY <2>2, <2>4, <3>1 DEF OnItsWay
  <2> QED BY <2>2, <2>5, <1>0, FollowOn
<1>8. CASE Emit
  <2>1. phase = "emit" /\ Target' = Target /\ UNCHANGED unexamined
    BY <1>8 DEF Emit, Target
  <2>2. \/ phase' = "failed" /\ written \subseteq written'
        \/ /\ phase' = "next" /\ written \subseteq written'
           /\ \A R : Tells(all, Target, R) => Tells(written', Target, R)
           /\ route = "keyless" => Tells(written', Target, {"backend"})
    BY <1>8, EmitTells
  <2>3. \A t, R : Tells(written, t, R) => Tells(written', t, R)
    BY <2>2, TellsMore
  <2>4. ASSUME NEW w, OnItsWay(w)
        PROVE  phase' = "failed" \/ Tells(written', Target, TellsOf(w))
    <3>1. \/ Tells(all, Target, TellsOf(w))
          \/ route = "keyless" /\ w = Supabase
      BY <2>1, <2>4 DEF OnItsWay
    <3>2. Tells(written', Target, {"backend"})
            => Tells(written', Target, TellsOf(Supabase))
      BY DEF Tells, TellsOf
    <3> QED BY <3>1, <3>2, <2>2
  <2>5. ASSUME NEW gap \in unexamined' PROVE Followed(gap)'
    <3>1. Followed(gap)
      BY <2>1 DEF GapsAreFollowed
    <3> QED BY <3>1, <2>1, <2>3, <2>4 DEF Followed, OnItsWay
  <2> QED BY <2>5 DEF GapsAreFollowed
<1>9. CASE NextTarget
  <2>1. /\ phase = "next" /\ UNCHANGED <<written, unexamined>> /\ all = {}
    BY <1>9 DEF NextTarget, Accounted
  <2>2. \A w : ~OnItsWay(w)
    BY <2>1 DEF OnItsWay, Tells
  <2> QED BY <2>1, <2>2 DEF GapsAreFollowed, Followed
<1>10. CASE FailTarget
  <2>1. phase = "failed" /\ unexamined' = unexamined \cup {<<Target, "target">>}
    BY <1>10 DEF FailTarget
  <2>2. \A gap \in unexamined' : \/ Tells(written, gap[1], TellsOf(gap[2]))
                                 \/ gap[1] = Target
    BY <2>1 DEF GapsAreFollowed, Followed
  <2>3. CASE written' = written \cup {TargetFailed}
    <3>1. \A w : Tells(written', Target, TellsOf(w))
      BY <2>3, TellsOfPart DEF TargetFailed, TellsOf
    <3>2. \A t, R : Tells(written, t, R) => Tells(written', t, R)
      BY <2>3, TellsMore
    <3> QED BY <2>2, <3>1, <3>2 DEF GapsAreFollowed, Followed
  <2>4. CASE UNCHANGED <<written, phase, pos>>
    BY <2>1, <2>2, <2>4 DEF GapsAreFollowed, Followed, OnItsWay, Target
  <2> QED BY <1>10, <2>3, <2>4 DEF FailTarget
<1>11. CASE Interrupt
  <2>1. /\ UNCHANGED <<pos, phase, route, all, queue, written, unexamined>>
        /\ Target' = Target /\ cancelled' = TRUE
    BY <1>11 DEF Interrupt, Target
  <2>2. \A w : OnItsWay(w) => OnItsWay(w)'
    BY <2>1 DEF OnItsWay, StoppedTells
  <2> QED BY <2>1, <2>2, <1>0, FollowOn
<1>12. CASE Exit \/ Done \/ UNCHANGED vars
  <2>1. /\ UNCHANGED <<pos, phase, route, all, queue, written, unexamined,
                       cancelled>>
        /\ Target' = Target
    BY <1>12 DEF Exit, Done, vars, Target
  <2>2. \A w : OnItsWay(w) => OnItsWay(w)'
    BY <2>1 DEF OnItsWay, StoppedTells
  <2> QED BY <2>1, <2>2, <1>0, FollowOn
<1> QED BY <1>1, <1>2, <1>3, <1>4, <1>5, <1>6, <1>7, <1>8, <1>9, <1>10,
           <1>11, <1>12 DEF Next

\* A run that ends with an exit code about its report has declared whatever
\* may hide something it did not find, for every list, every set of backends
\* and every order of refusals, failures and interrupts.
THEOREM SilenceIsNeverClean == Spec => []EveryGapIsDeclared
<1>1. Init => Accounted /\ GapsAreFollowed
  BY DEF Init, Accounted, GapsAreFollowed, Running
<1>2. Accounted /\ GapsAreFollowed => EveryGapIsDeclared
  <2> SUFFICES ASSUME Accounted, GapsAreFollowed, Finished,
                      NEW gap \in unexamined
               PROVE  Tells(written, gap[1], TellsOf(gap[2]))
    BY DEF EveryGapIsDeclared, Tells
  <2>1. phase = "exit" /\ all = {}
    BY DEF Accounted, Finished
  <2> QED BY <2>1 DEF GapsAreFollowed, Followed, OnItsWay, Tells
<1> QED BY <1>1, <1>2, TypeCorrect, AccountedStep, GapsStep, PTL DEF Spec
=============================================================================
