------------------------------- MODULE Workload -------------------------------
(***************************************************************************)
(* What the workloads of one engine run share: the operator's options, the *)
(* replies that say nothing, what was created on the target, the one       *)
(* report, and what a stage hands to the next one.                         *)
(***************************************************************************)
EXTENDS Sample, FiniteSets, FiniteSetsExt, Functions

CONSTANTS
  Targets,     \* what may be scanned
  Options,     \* -write with its confirmation, -invoke, -no-residue, a token
  FaultKinds,  \* "lost" and "throttled" (429)
  MaxFaults    \* bound: replies that say nothing

ASSUME WorkloadAssumption ==
  /\ MaxFaults \in Nat
  /\ FaultKinds \subseteq {"lost", "throttled"}

VARIABLES
  target, opts,
  pc,      \* what the workload does next
  held,    \* what it created and still has in hand
  left,    \* what it is through with and that may still be there
  named,   \* what of that the report names
  faults,  \* history: the replies that said nothing, and how
  report,
  asked,   \* what was asked, and answered, before there was an account
  todo,    \* what is still to be probed, in order
  session  \* the account in use

scan == <<target, opts>>
footprint == <<held, left, named>>
work == <<asked, todo, session>>

Control == "control"

\* Replies to these requests that say nothing, as many as are left of the bound.
Failures(requests) ==
  LET n == MaxFaults - Cardinality(faults)
  IN  UNION {[S -> FaultKinds] :
        S \in {{}} \cup {Range(g) : g \in [1..n -> requests]}}

One(request) == Failures({request})
Fine(f) == DOMAIN f = {}
IsLost(f, r) == r \in DOMAIN f /\ f[r] = "lost"
Refuses(f, r) == r \in DOMAIN f /\ f[r] = "throttled"
Suffer(f) == faults' = faults \cup {<<pc, r, f[r]>> : r \in DOMAIN f}
Failed(step) == \E x \in faults : x[1] = step

Found(id, of) == <<id, of>>
NotAssessed(what) == Found("not-assessed", what)
Say(S) == report' = report \cup S
Reported(id, of) == Found(id, of) \in report
Declared(what) == NotAssessed(what) \in report

-----------------------------------------------------------------------------
\* Create is one request: a lost reply does not say whether it was received.
Creates(x) == held' = held \cup {x} /\ UNCHANGED <<left, named>>

MayHaveCreated(x) ==
  /\ left' \in {left, left \cup {x}}
  /\ UNCHANGED <<held, named>>

NothingCreated == UNCHANGED footprint

Removes(x) == held' = held \ {x} /\ UNCHANGED <<left, named>>

\* Given up, and named as far as the report says so.  After a lost reply it
\* may be gone all the same.
GivesUp(S, says, f) ==
  \E gone \in {{}} \cup (IF Fine(f) THEN {} ELSE {S}) :
    /\ held' = held \ S
    /\ left' = left \cup (S \ gone)
    /\ named' = named \cup {y[2] : y \in {z \in says : z[1] = "left-behind"}}

-----------------------------------------------------------------------------
\* What each provider declares that it does not establish; the application's
\* workload is not a provider's.
FirebaseCannot   == {"write", "listing"}
NeonCannot       == {"read", "storage", "execute", "realtime"}
PocketBaseCannot == {"storage", "write", "listing", "execute", "realtime"}

Cannot ==
  CASE target.kind = "firebase"   -> FirebaseCannot
    [] target.kind = "neon"       -> NeonCannot
    [] target.kind = "pocketbase" -> PocketBaseCannot
    [] target.kind = "application" -> {}

\* provider.NotMeasuredFor: one finding for each of them.
NotMeasured == {NotAssessed(c) : c \in Cannot}

\* Where the stages of a workload begin.
FirstStage ==
  CASE target.kind = "firebase"   -> "firestore"
    [] target.kind = "pocketbase" -> "collections"
    [] target.kind = "application" -> "inventory"
    [] target.kind = "neon"       -> IF opts.bearer THEN "enumerate" ELSE "reach"

\* engine.runtimeWorkloads: the limits first, then the stages.
Begin ==
  /\ pc = "plan"
  /\ Say(NotMeasured)
  /\ pc' = FirstStage
  /\ UNCHANGED <<scan, footprint, work, faults>>
===============================================================================
