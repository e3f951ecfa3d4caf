------------------------------- MODULE Sweep -------------------------------
(***************************************************************************)
(* The run of the command over its list of targets: run and scanTarget     *)
(* (cmd/unruly/main.go) around engine.Run (internal/engine), up to the     *)
(* exit code.  Every target is discovered, located, prepared, assessed     *)
(* workload by workload, and reported; an interrupt may come at any time,  *)
(* a target may fail, and so may the report's destination.                 *)
(*                                                                         *)
(* A workload's pipeline is one step here (module Pipeline opens it): it   *)
(* finds some of what is exposed, and when that may not be all of it the   *)
(* pair is entered in unexamined.                                          *)
(***************************************************************************)
EXTENDS Findings, Sequences

CONSTANTS List,        \* what options.targets returns
          Others,      \* what else discovery detects at each target, in order
          Resolutions, \* workload ids a provider's Prepare may settle on
          Rank,        \* the order of workload ids
          Exposures,   \* what may be found at a target
          Interrupts   \* whether the operator may interrupt

Application == "application"
Supabase    == "supabase"
Detected(t) == {Others[t][k] : k \in DOMAIN Others[t]}
Backends    == (UNION {Detected(t) : t \in Targets}) \cup {Supabase}
Works       == Backends \cup {Application}
Places      == Works \cup {"target", "scan:interrupted", "scan", "backend",
                           "rest-prefix", "routine-discovery"}

ASSUME ListAssumption ==
  /\ List \in Seq(Targets) /\ List # <<>>
  /\ \A i, j \in DOMAIN List : List[i] = List[j] => i = j
ASSUME OthersAssumption == Others \in [Targets -> Seq(STRING)]
ASSUME WorksAssumption ==
  /\ Places \subseteq Resources
  /\ Resolutions \in [Backends -> SUBSET Backends]
  /\ Rank \in [Works -> Nat]
ASSUME ExposuresAssumption ==
  /\ Exposures \in [Targets -> SUBSET Finding]
  /\ \A t \in Targets : \A f \in Exposures[t] :
       f.matched = t /\ f.id = ExposedID
ASSUME InterruptsAssumption == Interrupts \in BOOLEAN

VARIABLES
  pos,        \* position of run's loop in List
  phase,      \* what scanTarget does next
  cancelled,  \* ctx.Err() # nil
  route,      \* how the Supabase surface was resolved
  all,        \* findings in hand for this target: all, then out.Findings
  detections, \* providers still to prepare
  queue,      \* workloads still to run
  seen,       \* engine.Run's seen
  written,    \* findings handed to every destination
  worst,      \* run's worst
  blind,      \* run's blindSurfaces is not empty
  exit,       \* the exit code
  \* history
  found,      \* what discovery and the pipelines found
  unexamined, \* <<target, workload>> that may hide what was not found
  probes      \* times each workload's pipeline was run for this target

vars == <<pos, phase, cancelled, route, all, detections, queue, seen,
          written, worst, blind, exit, found, unexamined, probes>>

Running == -1
Target  == List[pos]

Phases == {"discover", "locate", "prepare", "assess", "emit", "failed",
           "next", "exit"}
Routes == {"none", "skipped", "keyless", "located"}

\* "refused" is a plan without stages or one validateWorkload does not accept.
Plans == {"refused", "runnable"}

Workload == [id : Works, stopped : BOOLEAN,
             plan : Plans, findings : SUBSET Finding]

NotAssessed(w)   == Says(NotAssessedID, Target, w)
SkippedStage(w)  == Says(SkippedID, Target, w)
Interrupted      == Says(NotAssessedID, Target, "scan:interrupted")
TargetFailed     == Says(NotAssessedID, Target, "target")
PrefixUnresolved == Says(PrefixID, Target, "rest-prefix")
TargetRefused    == Says(RefusedID, Target, "target")
Truncated        == Says(ExhaustedID, Target, "routine-discovery")
ScanSummary      == Says(SummaryID, Target, "scan")
BackendUnknown   == Says(NotAssessedID, Target, "backend")

TheApplication == [id |-> Application, stopped |-> FALSE, plan |-> "runnable",
                   findings |-> {}]

Init == /\ pos = 1 /\ phase = "discover" /\ cancelled = FALSE
        /\ route = "none" /\ all = {} /\ detections = <<>> /\ queue = <<>>
        /\ seen = {} /\ written = {} /\ worst = Info /\ blind = FALSE
        /\ exit = Running /\ found = {} /\ unexamined = {}
        /\ probes = [w \in Works |-> 0]

RunState == <<pos, written, worst, blind, exit>>

\* An interrupt cancels the context of everything still in flight.
Interrupt == /\ Interrupts /\ ~cancelled /\ exit = Running
             /\ cancelled' = TRUE
             /\ UNCHANGED <<pos, phase, route, all, detections, queue, seen,
                            written, worst, blind, exit, found, unexamined,
                            probes>>

\* scanTarget up to the engine's request.  Reading the application may
\* already disclose something; a target nothing can be read from fails.
Discover ==
  /\ phase = "discover"
  /\ \/ \E F \in SUBSET Exposures[Target] :
          /\ all' = F /\ found' = found \cup F
          /\ phase' = "locate"
     \/ phase' = "failed" /\ UNCHANGED <<all, found>>
  /\ queue' = <<TheApplication>> /\ seen' = {} /\ detections' = <<>>
  /\ route' = "none" /\ probes' = [w \in Works |-> 0]
  /\ UNCHANGED <<cancelled, unexamined, RunState>>

\* Which providers enter the engine's request.  A conflicting credential and
\* a project that cannot be located fail the target; a target with no sign of
\* Supabase, or with no key for it, is assessed without it.
Locate ==
  /\ phase = "locate"
  /\ \/ /\ phase' = "failed" /\ UNCHANGED <<route, all, detections, unexamined>>
     \/ /\ route' = "skipped" /\ phase' = "prepare"
        /\ detections' = Others[Target]
        /\ all' = all \cup {SkippedStage(Supabase)}
        /\ unexamined' = unexamined \cup {<<Target, Supabase>>}
     \/ /\ route' = "keyless" /\ phase' = "prepare"
        /\ detections' = Others[Target]
        /\ unexamined' = unexamined \cup {<<Target, Supabase>>}
        /\ UNCHANGED all
     \/ /\ route' = "located" /\ phase' = "prepare"
        /\ detections' = Append(Others[Target], Supabase)
        /\ UNCHANGED <<all, unexamined>>
  /\ UNCHANGED <<cancelled, queue, seen, found, probes, RunState>>

\* runtimeWorkloads and PrepareFor for one provider: it has no transport, no
\* owner, no consent or spent more than it declared; PostgREST refused the
\* mount and no other was confirmed; or it is ready, under the project its
\* Prepare settled on.
Stopped(p, F) == [id |-> p, stopped |-> TRUE, plan |-> "refused",
                  findings |-> F]

PrepareProvider ==
  /\ phase = "prepare" /\ detections # <<>>
  /\ LET p == Head(detections) IN
     \/ /\ queue' = Append(queue, Stopped(p, {NotAssessed(p)}))
        /\ unexamined' = unexamined \cup {<<Target, p>>}
     \/ /\ p = Supabase
        /\ queue' = Append(queue, Stopped(p, {PrefixUnresolved}))
        /\ unexamined' = unexamined \cup {<<Target, p>>}
     \/ \E id \in Resolutions[p], plan \in Plans :
          /\ queue' = Append(queue, [id |-> id, stopped |-> FALSE,
                                     plan |-> plan, findings |-> {}])
          /\ UNCHANGED unexamined
  /\ detections' = Tail(detections)
  /\ UNCHANGED <<phase, cancelled, route, all, seen, found, probes, RunState>>

Prepared == /\ phase = "prepare" /\ detections = <<>>
            /\ phase' = "assess"
            /\ UNCHANGED <<cancelled, route, all, detections, queue, seen,
                           found, unexamined, probes, RunState>>

\* engine.Run takes the workloads in the order of their ids (SliceStable).
IsNext(i) == \A j \in DOMAIN queue :
               \/ Rank[queue[i].id] < Rank[queue[j].id]
               \/ Rank[queue[i].id] = Rank[queue[j].id] /\ i <= j

Dequeue(i) == SubSeq(queue, 1, i - 1) \o SubSeq(queue, i + 1, Len(queue))

\* Mutant of Repeated: the engine does not remember what it ran.
NeverRepeated(w) == w.id \in {}

Repeated(w) == w.id \in seen

\* The loop of engine.Run on a workload it does not run: one it has seen, one
\* preparation stopped, and one whose plan is empty or may not be run.
Refuse(i) == LET w == queue[i] IN
  /\ IsNext(i) /\ queue' = Dequeue(i)
  /\ seen' = seen \cup {w.id}
  /\ \/ /\ Repeated(w)
        /\ all' = all \cup {NotAssessed(w.id)}
        /\ unexamined' = unexamined \cup {<<Target, w.id>>}
     \/ /\ ~Repeated(w) /\ w.stopped
        /\ all' = all \cup w.findings /\ UNCHANGED unexamined
     \/ /\ ~Repeated(w) /\ ~w.stopped /\ w.plan = "refused"
        /\ all' = all \cup w.findings \cup {NotAssessed(w.id)}
        /\ unexamined' = unexamined \cup {<<Target, w.id>>}

RefuseWorkload ==
  /\ phase = "assess"
  /\ \E i \in DOMAIN queue : Refuse(i)
  /\ UNCHANGED <<phase, cancelled, route, detections, found, probes, RunState>>

\* What tells of a workload that was run and may not have been examined: some
\* stage could not look, the plan skipped it, its budget bound; an interrupted
\* stage may end early and say nothing.
Gaps(w) == {{NotAssessed(w)}}
           \cup (IF w = Application THEN {{SkippedStage(w)}} ELSE {})
           \cup (IF w = Supabase THEN {{Truncated}} ELSE {})
           \cup (IF cancelled THEN {{}} ELSE {})

\* scan.Pipeline.Run, which finds F.
Run(i, F) == LET w == queue[i] IN
  /\ IsNext(i) /\ queue' = Dequeue(i)
  /\ ~Repeated(w) /\ ~w.stopped /\ w.plan = "runnable"
  /\ seen' = seen \cup {w.id}
  /\ probes' = [probes EXCEPT ![w.id] = @ + 1]
  /\ found' = found \cup F
  /\ \/ all' = all \cup F /\ UNCHANGED unexamined
     \/ \E gap \in Gaps(w.id) :
          /\ all' = all \cup F \cup gap
          /\ unexamined' = unexamined \cup {<<Target, w.id>>}

RunWorkload ==
  /\ phase = "assess"
  /\ \E i \in DOMAIN queue, F \in SUBSET Exposures[Target] : Run(i, F)
  /\ UNCHANGED <<phase, cancelled, route, detections, RunState>>

\* Mutant of Ending: an interrupted engine ends as any other.
NoEnding == {}

Ending == IF cancelled THEN {Interrupted} ELSE {}

\* The end of engine.Run: what departs from the operator's intent, the
\* interruption, which is the last thing it records, and Finalize.
CloseEngine ==
  /\ phase = "assess" /\ queue = <<>>
  /\ \E F \in SUBSET Exposures[Target] :
       /\ found' = found \cup F
       /\ all' = Finalize(all \cup F \cup Ending)
  /\ phase' = IF route = "keyless" /\ all' = {} THEN "failed" ELSE "emit"
  /\ seen' = {} /\ probes' = [w \in Works |-> 0]
  /\ UNCHANGED <<cancelled, route, detections, queue, unexamined, RunState>>

\* What scanTarget adds to the engine's report on each of its exits.
Additions ==
  {ScanSummary} \cup (IF route = "keyless" THEN {BackendUnknown} ELSE {})

\* Mutant of Worse: each target's severity replaces the one before.
Latest(s) == s

Worse(s) == IF s > worst THEN s ELSE worst

\* emitAll after an engine run, with the notice of a client that gave up.  A
\* destination may fail, and then scanTarget returns the error.
Write(report) ==
  \/ /\ written' = written \cup report
     /\ worst' = Worse(Worst(report))
     /\ blind' = (blind \/ CoverageIncomplete(report))
     /\ phase' = "next"
  \/ /\ \E W \in Prefixes(report) : written' = written \cup W
     /\ phase' = "failed" /\ UNCHANGED <<worst, blind>>

Emit ==
  /\ phase = "emit"
  /\ \E gaveUp \in SUBSET (IF route = "located" THEN {TargetRefused} ELSE {}) :
       Write(Finalize(all \cup Additions \cup gaveUp))
  /\ all' = {}
  /\ UNCHANGED <<pos, exit, cancelled, route, detections, queue, seen, found,
                 unexamined, probes>>

\* Mutant of Advance: the loop runs one past the list.
AdvancePast == IF pos > Len(List)
               THEN phase' = "exit" /\ UNCHANGED pos
               ELSE phase' = "discover" /\ pos' = pos + 1

\* run's range over its list.
Advance == IF pos = Len(List) THEN phase' = "exit" /\ UNCHANGED pos
                              ELSE phase' = "discover" /\ pos' = pos + 1

\* Mutant of AfterFailure: the first target that fails ends the run.
StopAfterFailure == phase' = "exit" /\ UNCHANGED pos

AfterFailure == Advance

\* The loop after a target that was scanned stops when interrupted; after one
\* that failed it goes on, and stops only if its failure cannot be written.
NextTarget ==
  /\ phase = "next"
  /\ \/ ~cancelled /\ Advance
     \/ cancelled /\ phase' = "exit" /\ UNCHANGED pos
  /\ UNCHANGED <<cancelled, route, all, detections, queue, seen, written,
                 worst, blind, exit, found, unexamined, probes>>

FailTarget ==
  /\ phase = "failed" /\ exit = Running
  /\ blind' = TRUE /\ all' = {} /\ queue' = <<>>
  /\ unexamined' = unexamined \cup {<<Target, "target">>}
  /\ \/ /\ written' = written \cup {TargetFailed}
        /\ UNCHANGED exit /\ AfterFailure
     \/ /\ exit' = 1 /\ UNCHANGED <<written, phase, pos>>
  /\ UNCHANGED <<cancelled, route, detections, seen, worst, found, probes>>

\* Mutant of ExitCode: a high finding counts only if there is a worse one.
ExitCodeStrict == IF worst > High THEN 2 ELSE IF blind THEN 3 ELSE 0

\* 2 outranks 3.
ExitCode == IF worst >= High THEN 2 ELSE IF blind THEN 3 ELSE 0

Exit == /\ phase = "exit" /\ exit = Running
        /\ exit' = ExitCode
        /\ UNCHANGED <<pos, phase, cancelled, route, all, detections, queue,
                       seen, written, worst, blind, found, unexamined, probes>>

Done == exit # Running /\ UNCHANGED vars

Next == \/ Discover \/ Locate \/ PrepareProvider \/ Prepared
        \/ RefuseWorkload \/ RunWorkload \/ CloseEngine \/ Emit
        \/ NextTarget \/ FailTarget \/ Exit
        \/ Interrupt \/ Done

Spec == Init /\ [][Next]_vars

-----------------------------------------------------------------------------

TypeOK ==
  /\ pos \in DOMAIN List /\ phase \in Phases /\ cancelled \in BOOLEAN
  /\ route \in Routes /\ all \subseteq Finding
  /\ detections \in Seq(Backends) /\ queue \in Seq(Workload)
  /\ seen \subseteq Works /\ written \subseteq Finding
  /\ worst \in Severity /\ blind \in BOOLEAN
  /\ exit \in {Running, 0, 1, 2, 3} /\ found \subseteq Finding
  /\ unexamined \subseteq Targets \X (Works \cup {"target"})
  /\ probes \in [Works -> Nat]

Finished == exit \in {0, 2, 3}

\* An exposure that any stage of any target found never ends in exit 0:
\* neither the duplicate it was merged with, nor the target that failed after
\* it was found, nor an interrupt or a full disk loses it (run, scanTarget,
\* engine.Finalize).
HighNeverExitsZero ==
  exit = 0 => \A f \in found : f.severity < High

\* The exit code says what the written report says: 0 is a report without a
\* high finding and without a blind one, 2 has a high finding to show and 3 a
\* surface that could not be assessed (the end of run, CoverageIncomplete).
ExitMatchesReport ==
  /\ exit = 0 => \A f \in written : f.severity < High /\ ~IsBlind(f)
  /\ exit = 2 => \E f \in written : f.severity >= High
  /\ exit = 3 => \E f \in written : IsBlind(f)

\* What was found is in the report, at its severity or a higher one, unless
\* the report says that its target could not be scanned (Dedup, emitAll).
FoundIsReported ==
  Finished => \A f \in found :
    \/ \E g \in written : /\ Fingerprint(g) = Fingerprint(f)
                          /\ f.severity <= g.severity
    \/ Says(NotAssessedID, f.matched, "target") \in written

\* The resources that tell a reader that a workload was not fully examined.
TellsOf(w) == {w, "target", "scan:interrupted"}
  \cup (IF w = Supabase THEN {"backend", "rest-prefix", "routine-discovery"}
                        ELSE {})

\* Silence never reads as clean: whatever may hide something unfound is named
\* in the report, whether it was refused, stopped, skipped, truncated or cut
\* short by an interrupt (engine.Run's central rule).
EveryGapIsDeclared ==
  Finished => \A gap \in unexamined : \E f \in written :
    f.matched = gap[1] /\ f.resource \in TellsOf(gap[2])

\* One target that cannot be scanned does not abandon the rest: without an
\* interrupt a run that ends has something to say of every target (the
\* error branch of run's loop).
NoTargetAbandoned ==
  Finished /\ ~cancelled => \A t \in {List[k] : k \in DOMAIN List} :
    \E f \in written : f.matched = t /\ f.resource \in {"scan", "target"}

\* No workload is probed twice, although two detections may settle on one
\* project while they are prepared (engine.Run's seen).
ProbedOnce == \A w \in Works : probes[w] <= 1

\* What the usage text says of exit 0, "clean and fully measured": it is not
\* given while a workload the scan could not look at went unexamined, other
\* than one the operator's choices or the default bounds left out.
ExitZeroIsMeasured ==
  exit = 0 => \A gap \in unexamined : \E f \in written :
    /\ f.matched = gap[1]
    /\ \/ f.resource = gap[2] /\ f.id = SkippedID
       \/ gap[2] = Supabase /\ f.resource = "routine-discovery"

\* The same text of a list: exit 0 is not given while a target of it was never
\* looked at.
ExitZeroCoversTheList ==
  exit = 0 => \A t \in {List[k] : k \in DOMAIN List} :
    \E f \in written : f.matched = t
=============================================================================
