------------------------------ MODULE ScanPlan ------------------------------
(***************************************************************************)
(* scan/plan.go: what a stage declares about itself, and the two checks a  *)
(* plan has to pass before its first request.  A plan is a sequence of     *)
(* stages; the checks are stated over positions of that sequence, which is *)
(* what the maps `seen` and `produced` of the code amount to.              *)
(***************************************************************************)
EXTENDS Naturals, Sequences

CONSTANTS Artifacts, \* ArtifactType values
          IDs        \* stage names other than the empty one

\* A stage is live (it describes itself), skipped (wrapped by Skip, which does
\* not implement Describer) or opaque (no descriptor at all).
Kinds == {"live", "skipped", "opaque"}

NoID == "none"  \* the empty ID

\* scan.StageDescriptor, and one thing it does not say: whether the stage, as
\* configured, writes to the target.  Every stage's Name() is its descriptor's ID.
Stage == [id : IDs \cup {NoID}, kind : Kinds,
          requires : SUBSET Artifacts, optional : SUBSET Artifacts,
          produces : SUBSET Artifacts,
          mutates : BOOLEAN, sendsSecrets : BOOLEAN, writes : BOOLEAN]

Consent == [write : BOOLEAN, thirdParty : BOOLEAN]

\* Mutant: Skip forwards the descriptor of the stage it wraps.
LiveOrSkipped(s) == s.kind # "opaque"

Live(s) == s.kind = "live"

\* Positions of the live stages of a plan.
LiveAt(p) == {i \in DOMAIN p : Live(p[i])}

\* producedLater: some stage after the first one called `consumer` produces a.
ProducedLater(p, a, consumer) ==
  \E j \in LiveAt(p) : /\ a \in p[j].produces
                       /\ p[j].id # consumer
                       /\ \E k \in LiveAt(p) : k < j /\ p[k].id = consumer

ProducedBefore(p, a, i) == \E j \in LiveAt(p) : j < i /\ a \in p[j].produces

\* Mutant: an optional input is not checked against the stages below.
ValidateNoOptional(p) ==
  /\ \A i \in DOMAIN p : p[i].kind # "opaque"
  /\ \A i \in LiveAt(p) :
       /\ p[i].id # NoID
       /\ \A a \in p[i].requires : ProducedBefore(p, a, i)
       /\ \A j \in LiveAt(p) :
            j # i => p[j].id # p[i].id /\ p[j].produces \cap p[i].produces = {}

\* Validate finds no problem: every stage that will run describes itself under
\* a name of its own, requires only what is produced above, optionally reads
\* nothing produced below, and shares no artifact with another producer.
Validate(p) ==
  /\ \A i \in DOMAIN p : p[i].kind # "opaque"
  /\ \A i \in LiveAt(p) :
       /\ p[i].id # NoID
       /\ \A a \in p[i].requires : ProducedBefore(p, a, i)
       /\ \A a \in p[i].optional : ~ProducedLater(p, a, p[i].id)
       /\ \A j \in LiveAt(p) :
            j # i => p[j].id # p[i].id /\ p[j].produces \cap p[i].produces = {}

\* CheckConsent finds no problem: it compares what is declared.
CheckConsent(p, c) ==
  \A i \in LiveAt(p) : /\ p[i].mutates => c.write
                       /\ p[i].sendsSecrets => c.thirdParty
=============================================================================
