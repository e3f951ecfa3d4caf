------------------------------ MODULE Pipeline ------------------------------
(***************************************************************************)
(* One workload of the engine: validateWorkload (engine.go), then          *)
(* scan.Pipeline.Run with the artifact store of scan.State.  Between its   *)
(* start and its return a stage may Put and Get any artifact, whatever it  *)
(* declared, and the scan may be cancelled at any time.                    *)
(*                                                                         *)
(* Left out: what stages find, notes, spending, and the texts of reasons.  *)
(***************************************************************************)
EXTENDS ScanPlan

CONSTANT Plans  \* the plans providers may construct

ASSUME PlansAssumption == Plans \subseteq Seq(Stage)

VARIABLES
  plan, consent,  \* Workload.Stages and Workload.Consent
  cancelled,      \* ctx.Err() # nil
  pc,             \* "validate", "loop", "stage" or "done"
  i,              \* position of the loop
  store,          \* keys of State.artifacts; the map is nil before the first
  label,          \* State.Stage
  reads, writes,  \* State.artifactReads and State.artifactWrites
  findings,       \* what State.Add and the engine recorded
  \* history
  started,        \* positions whose Run was called
  completed,      \* positions whose Run returned nil
  missed,         \* <<position, artifact>> of a Get that found nothing
  wrote           \* <<position, artifact>> of a Put

vars == <<plan, consent, cancelled, pc, i, store, label, reads, writes,
          findings, started, completed, missed, wrote>>

\* What a finding is about: a stage, or the whole workload.
Workload == "workload"
Finding  == [what  : {"notAssessed", "skipped"},
             about : IDs \cup {NoID, Workload}]
NotAssessed(x) == [what |-> "notAssessed", about |-> x]
Skipped(x)     == [what |-> "skipped", about |-> x]

Init == /\ plan \in Plans /\ consent \in Consent
        /\ cancelled = FALSE /\ pc = "validate" /\ i = 1
        /\ store = {} /\ label = NoID
        /\ reads = [x \in IDs |-> {}] /\ writes = [x \in IDs |-> {}]
        /\ findings = {} /\ started = {} /\ completed = {}
        /\ missed = {} /\ wrote = {}

\* What is left alone by the steps that touch no stage.
Exchange == <<store, reads, writes, missed, wrote>>

\* engine.Run: validateWorkload before the first stage.
ValidateWorkload ==
  /\ pc = "validate"
  /\ \/ /\ Validate(plan) /\ CheckConsent(plan, consent)
        /\ pc' = "loop" /\ UNCHANGED findings
     \/ /\ ~(Validate(plan) /\ CheckConsent(plan, consent))
        /\ pc' = "done" /\ findings' = findings \cup {NotAssessed(Workload)}
  /\ UNCHANGED <<plan, consent, cancelled, i, label, started, completed>>
  /\ UNCHANGED Exchange

\* Mutant: the loop leaves at the first cancelled stage.
UnreachedBreak ==
  /\ pc = "loop" /\ i \in DOMAIN plan /\ cancelled
  /\ findings' = findings \cup {NotAssessed(plan[i].id)}
  /\ pc' = "done"
  /\ UNCHANGED <<plan, consent, cancelled, i, label, started, completed>>
  /\ UNCHANGED Exchange

\* Pipeline.Run on a cancelled context: the stage is not run, and that is said.
Unreached ==
  /\ pc = "loop" /\ i \in DOMAIN plan /\ cancelled
  /\ findings' = findings \cup {NotAssessed(plan[i].id)}
  /\ i' = i + 1
  /\ UNCHANGED <<plan, consent, cancelled, pc, label, started, completed>>
  /\ UNCHANGED Exchange

\* A skipped stage returns notRun at once; `continue` leaves State.Stage set.
SkipStage ==
  /\ pc = "loop" /\ i \in DOMAIN plan /\ ~cancelled /\ plan[i].kind = "skipped"
  /\ label' = plan[i].id
  /\ findings' = findings \cup {Skipped(plan[i].id)}
  /\ i' = i + 1
  /\ UNCHANGED <<plan, consent, cancelled, pc, started, completed>>
  /\ UNCHANGED Exchange

StartStage ==
  /\ pc = "loop" /\ i \in DOMAIN plan /\ ~cancelled /\ plan[i].kind # "skipped"
  /\ label' = plan[i].id
  /\ started' = started \cup {i}
  /\ pc' = "stage"
  /\ UNCHANGED <<plan, consent, cancelled, i, findings, completed>>
  /\ UNCHANGED Exchange

\* Get: a nil store answers before the read is recorded.
Get(a) ==
  /\ pc = "stage"
  /\ reads' = IF store = {} THEN reads
                            ELSE [reads EXCEPT ![label] = @ \cup {a}]
  /\ missed' = IF a \in store THEN missed ELSE missed \cup {<<i, a>>}
  /\ UNCHANGED <<plan, consent, cancelled, pc, i, store, label, writes,
                 findings, started, completed, wrote>>

\* Put: replaces, and records the write.
Put(a) ==
  /\ pc = "stage"
  /\ store' = store \cup {a}
  /\ writes' = [writes EXCEPT ![label] = @ \cup {a}]
  /\ wrote' = wrote \cup {<<i, a>>}
  /\ UNCHANGED <<plan, consent, cancelled, pc, i, label, reads, findings,
                 started, completed, missed>>

\* Mutant: only reads are held against the descriptor.
KeepsContractReadsOnly(s) == reads[s.id] \subseteq s.requires \cup s.optional

\* validateRuntimeArtifacts: what the stage did is what it declared.
KeepsContract(s) == /\ writes[s.id] \subseteq s.produces
                    /\ reads[s.id] \subseteq s.requires \cup s.optional

\* Run returns nil or an error; then the runtime contract is checked, and a
\* stage that broke it ends the pipeline: the engine reports the workload.
ReturnStage ==
  /\ pc = "stage"
  /\ \E failed \in BOOLEAN :
       /\ completed' = IF failed THEN completed ELSE completed \cup {i}
       /\ findings' = findings
            \cup (IF failed THEN {NotAssessed(plan[i].id)} ELSE {})
            \cup (IF KeepsContract(plan[i]) THEN {}
                  ELSE {NotAssessed(Workload)})
  /\ pc' = IF KeepsContract(plan[i]) THEN "loop" ELSE "done"
  /\ i' = IF KeepsContract(plan[i]) THEN i + 1 ELSE i
  /\ label' = NoID
  /\ UNCHANGED <<plan, consent, cancelled, started>>
  /\ UNCHANGED Exchange

Finish ==
  /\ pc = "loop" /\ i \notin DOMAIN plan
  /\ pc' = "done"
  /\ UNCHANGED <<plan, consent, cancelled, i, label, findings, started,
                 completed>>
  /\ UNCHANGED Exchange

Cancel ==
  /\ ~cancelled /\ pc # "done"
  /\ cancelled' = TRUE
  /\ UNCHANGED <<plan, consent, pc, i, label, findings, started, completed>>
  /\ UNCHANGED Exchange

Next == \/ ValidateWorkload \/ Unreached \/ SkipStage \/ StartStage
        \/ \E a \in Artifacts : Get(a) \/ Put(a)
        \/ ReturnStage \/ Finish \/ Cancel

Spec == Init /\ [][Next]_vars

-----------------------------------------------------------------------------
TypeOK ==
  /\ plan \in Plans /\ consent \in Consent /\ cancelled \in BOOLEAN
  /\ pc \in {"validate", "loop", "stage", "done"}
  /\ i \in 1..(Len(plan) + 1) /\ (pc = "stage" => i \in LiveAt(plan))
  /\ store \subseteq Artifacts
  /\ label \in IDs \cup {NoID}
  /\ reads \in [IDs -> SUBSET Artifacts] /\ writes \in [IDs -> SUBSET Artifacts]
  /\ findings \subseteq Finding
  /\ started \subseteq LiveAt(plan) /\ completed \subseteq started
  /\ missed \subseteq LiveAt(plan) \X Artifacts
  /\ wrote \subseteq LiveAt(plan) \X Artifacts

Blamed == NotAssessed(Workload) \in findings

\* The disposition of the stage at position k is known to the report.
Accounted(k) == \/ k \in completed
                \/ NotAssessed(plan[k].id) \in findings
                \/ plan[k].kind = "skipped" /\ Skipped(plan[k].id) \in findings

\* A workload that ends without being blamed as a whole accounts for each of
\* its stages: it came back with nil, or a finding of its own says that it
\* failed, was cancelled before it ran, or was turned off.  So a report with
\* no "not assessed" means that every live stage ran.
EveryStageAccounted ==
  pc = "done" /\ ~Blamed => \A k \in DOMAIN plan : Accounted(k)

\* Between two stages the store holds only artifacts a stage above declared:
\* no stage ever starts with an input written around the plan.
StoreWithinPlan ==
  pc = "loop" => \A a \in store : ProducedBefore(plan, a, i)

\* An input a stage declared and did not find is never published afterwards:
\* the plan checks leave no declared reader above its producer.
NoLateArtifact ==
  \A m \in missed, w \in wrote :
    (/\ m[2] = w[2]
     /\ m[2] \in plan[m[1]].requires \cup plan[m[1]].optional
     /\ w[2] \in plan[w[1]].produces) => w[1] <= m[1]

\* A required input that is absent is the doing of the one live stage that
\* declared it and was run above -- it failed, was cut off, or chose to
\* publish nothing -- and never of the order of the plan or of a Skip.
MissingInputHasACulprit ==
  \A m \in missed : m[2] \in plan[m[1]].requires =>
    \E k \in started : /\ k < m[1] /\ m[2] \in plan[k].produces
                       /\ <<k, m[2]>> \notin wrote

\* Not so: no stage that writes is started by a workload without consent to
\* write.  CheckConsent is to make that structural, "the plan as a whole is
\* compared against the permission as a whole, before anything runs" (plan.go:
\* 156), and "a scan configured to write must SAY it writes" (plan_test.go:32 in
\* backend/supabase); but it compares what is declared, and ProbeStage declares
\* nothing (descriptors.go:60).  What is left is the guard in the stage itself.
WritersAreConsented == \A k \in started : plan[k].writes => consent.write

\* Comment of Pipeline.Run's check (stage.go:86): it "proves the running code
\* did not write around that plan", and state.go:29: the ledgers make "the
\* runtime exchange auditable against StageDescriptor".  Read as: a stage that
\* came back has read nothing it had not declared, or the workload is blamed.
UndeclaredReadsAreCaught ==
  pc \in {"loop", "done"} /\ ~Blamed =>
    \A m \in missed : m[2] \in plan[m[1]].requires \cup plan[m[1]].optional
=============================================================================
