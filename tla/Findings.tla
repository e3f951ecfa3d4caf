------------------------------ MODULE Findings ------------------------------
(***************************************************************************)
(* Findings and the contract every report passes through: finding.Sort,    *)
(* finding.Dedup, finding.CoverageIncomplete and engine.Finalize.          *)
(*                                                                         *)
(* A report is the SET of its findings: Sort's order shows only in what    *)
(* Dedup keeps (Kept) and in how much of a report was written when a       *)
(* destination failed (Prefixes).  Texts and evidence are left out; the    *)
(* protocol, the fourth part of a fingerprint, follows from the id.        *)
(***************************************************************************)
EXTENDS Integers, FiniteSets

CONSTANTS Targets,   \* what a finding is Matched with
          Resources, \* what a finding is about
          SortRank   \* the order of ids, and of resources under an id

Info == 0   Low == 1   Medium == 2   High == 3   Critical == 4
Severity == Info..Critical

NotAssessedID == "unruly-surface-not-assessed"
ExhaustedID   == "unruly-probe-budget-exhausted"
SkippedID     == "unruly-stage-skipped"
PrefixID      == "unruly-rest-prefix-unresolved"
RefusedID     == "unruly-target-refused"
SummaryID     == "unruly-scan-summary"
ExposedID     == "exposure"  \* any check that says something of the target

IDs == {NotAssessedID, ExhaustedID, SkippedID, PrefixID, RefusedID,
        SummaryID, ExposedID}

ASSUME SortRankAssumption == SortRank \in [IDs \X Resources -> Nat]

Finding == [id : IDs, severity : Severity, matched : Targets,
            resource : Resources]

Says(id, t, r) == [id |-> id, severity |-> Info, matched |-> t, resource |-> r]

\* The ids that mean the scan COULD NOT look; the others of the code's map
\* (not discriminating, degraded, unresolved) behave as NotAssessedID does.
BlindIDs == {NotAssessedID, ExhaustedID}

\* Bounds that bind on ordinary projects stay out of the exit code.
NotBlind == {<<ExhaustedID, "routine-discovery">>}

IsBlind(f) == f.id \in BlindIDs /\ <<f.id, f.resource>> \notin NotBlind

CoverageIncomplete(S) == \E f \in S : IsBlind(f)

Fingerprint(f) == <<f.id, f.matched, f.resource>>

\* Dedup keeps the first of each fingerprint, and Sort has put the most
\* severe of them first.
Kept(f, S) == \A g \in S : Fingerprint(g) = Fingerprint(f)
                             => g.severity <= f.severity
FirstKept(f, S) == \A g \in S : Fingerprint(g) = Fingerprint(f)
                                  => f.severity <= g.severity

\* Mutant of Finalize: Sort puts the least severe first.
FinalizeLeast(S) == {f \in S : FirstKept(f, S)}

Finalize(S) == {f \in S : Kept(f, S)}

\* Sort, for the findings of one target: most severe first, then by id and
\* resource.
Precedes(f, g) ==
  \/ f.severity > g.severity
  \/ /\ f.severity = g.severity
     /\ SortRank[<<f.id, f.resource>>] < SortRank[<<g.id, g.resource>>]

\* What has been written when a destination fails on one of the findings.
Prefixes(S) == {{f \in S : Precedes(f, g)} : g \in S}

\* Report.Worst: the highest severity, Info when there is no finding.
Worst(S) == CHOOSE s \in Severity :
              /\ s = Info \/ \E f \in S : f.severity = s
              /\ \A f \in S : f.severity <= s
=============================================================================
