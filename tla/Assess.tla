-------------------------------- MODULE Assess --------------------------------
(***************************************************************************)
(* The Supabase stages that say what an anonymous caller can reach:        *)
(* relations, self-check, probe, schemas, GraphQL and coverage             *)
(* (backend/supabase), in the order of Stages().  Enumerate and ReadStage  *)
(* are their oracle and their sweep, run once for the default schema and   *)
(* once for each schema that PostgREST names besides.                      *)
(***************************************************************************)
EXTENDS ReadStage, TLC

CONSTANTS
  Targets,      \* projects: a schema's name to how it answers
  Default,      \* the schema served without Accept-Profile
  Pinned,       \* the seed names
  Generic,      \* names that RelationCandidates derives from the seeds
  Family,       \* names that share a prefix
  FamilyNames,  \* that prefix crossed with the seeds
  MaxRelation   \* -max-relation-probes

ASSUME AssessAssumption ==
  /\ Pinned \cup Generic \cup Family \cup FamilyNames \subseteq Names
  /\ MaxRelation \in Nat
  /\ \A t \in Targets : Default \in DOMAIN t

\* What the code takes for granted of a schema: the refusal by SQLSTATE is the
\* database's own and says that the relation is there, a gateway's refusal
\* comes before the schema and meets every name alike, and the hint of a 404
\* leads to a relation.
IsSchema(s) ==
  /\ DOMAIN s.status \subseteq Names
  /\ \A n \in DOMAIN s.status :
       \/ s.status[n] \in {"exposed", "empty", "refused"}
       \/ s.status[n] = "denied" /\ s.masks = "denied"
  /\ s.masks \in {"exposed", "empty", "denied", "absent", "unknown"}
  /\ \A n \in DOMAIN s.hint :
       /\ s.hint[n] \in Names
       /\ s.masks = "absent" => s.hint[n] \in DOMAIN s.status
  /\ \A n \in DOMAIN s.stems : s.stems[n] \subseteq Names

ASSUME TargetsAssumption ==
  \A t \in Targets : \A s \in DOMAIN t : IsSchema(t[s])

VARIABLES
  target,     \* the project being scanned, a member of Targets
  stage,      \* the stage that runs
  schema,     \* the schema that api belongs to
  extra,      \* schemas named by PostgREST and not scanned yet
  harvested,  \* the application yielded vocabulary
  first,      \* result of the first pass, once there is a second
  dropped,    \* history: candidates the budget left out
  found0,     \* EnumerateOutcome.Names()
  exposed0,   \* Result.ReadExposed() of the default schema
  missed,     \* history: relations whose read got no answer
  proven,     \* history: verbs a write probe was let through for
  report,     \* findings
  facts       \* scan.Access

stageVars == <<target, stage, schema, extra, harvested, first, dropped,
               found0, exposed0, missed, proven, report, facts>>
vars == <<api, opts, lost, passVars, sweepVars, stageVars>>

Say(id, of) == [id |-> id, schema |-> schema, of |-> of]

Nothing == [found |-> {}, unresolved |-> 0, denied |-> 0, hints |-> 0,
            asked |-> 0, trusted |-> TRUE]

Init ==
  /\ target \in Targets /\ schema = Default /\ api = target[Default]
  /\ stage = "relations" /\ harvested \in BOOLEAN
  /\ opts \in [measure : BOOLEAN, write : BOOLEAN]
  /\ lost = 0 /\ Idle /\ NotSweeping
  /\ extra = {} /\ first = Nothing /\ dropped = {}
  /\ found0 = {} /\ exposed0 = {} /\ missed = {} /\ proven = {}
  /\ report = {} /\ facts = {}

-----------------------------------------------------------------------------
\* EnumerateStage

\* Mutant: a second pass that found something replaces the first.
MergedByReplacing ==
  IF found = {} THEN first
  ELSE [found |-> found, unresolved |-> unresolved, denied |-> denied,
        hints |-> hints, asked |-> Cardinality(seeds), trusted |-> trusted]

\* This pass, folded into the one before it.
Merged ==
  [found |-> first.found \cup found,
   unresolved |-> first.unresolved + unresolved,
   denied |-> first.denied + denied,
   hints |-> first.hints + hints,
   asked |-> first.asked + Cardinality(seeds),
   trusted |-> first.trusted /\ trusted]

StartRelations ==
  /\ stage = "relations" /\ enPhase = "idle"
  /\ Begin(Pinned)
  /\ UNCHANGED <<api, opts, lost, sweepVars, stageVars>>

ShouldExpand ==
  trusted /\ hints > 0 /\ (~harvested \/ found = {})

\* The families found lead the candidates; the generic ones follow.
Led == IF Cardinality(found \cap Family) >= 2 THEN FamilyNames ELSE {}

Shortlist(all) ==
  {s \in SUBSET all :
     /\ Cardinality(s) = Lesser(Cardinality(all), MaxRelation)
     /\ Led \subseteq s \/ s \subseteq Led}

\* BudgetFinding compares what was sent with the generic candidates alone.
Truncated(sent) == Cardinality(Generic) > Cardinality(sent)

Expand ==
  /\ stage = "relations" /\ enPhase = "done" /\ first = Nothing /\ ShouldExpand
  /\ first' = Merged
  /\ \E sent \in Shortlist(Led \cup Generic) :
       /\ Begin(sent)
       /\ dropped' = (Led \cup Generic) \ sent
       /\ report' = report \cup
            IF Truncated(sent) THEN {Say("budget", "relations")} ELSE {}
  /\ UNCHANGED <<api, opts, lost, sweepVars, target, stage, schema, extra, harvested,
                 found0, exposed0, missed, proven, facts>>

\* ControlFinding and UnresolvedFinding.
Doubts(r) ==
  (IF r.trusted THEN {} ELSE {Say("not-discriminating", "relations")})
  \cup (IF r.unresolved = 0 THEN {} ELSE {Say("unresolved", "relations")})

FinishRelations ==
  /\ stage = "relations" /\ enPhase = "done"
  /\ first # Nothing \/ ~ShouldExpand
  /\ first' = Merged
  /\ found0' = first'.found
  /\ report' = report \cup Doubts(first')
  /\ stage' = "selfcheck" /\ enPhase' = "idle"
  /\ UNCHANGED <<api, opts, lost, sweepVars, seeds, found, probed, frontier, round,
                 trusted, unresolved, denied, hints, target, schema, extra,
                 harvested, dropped, exposed0, missed, proven, facts>>

-----------------------------------------------------------------------------
\* SelfCheckStage

\* A majority of the seeds was refused: the key is wrong.
CredentialRefused == first.denied * 2 > first.asked

\* The client counted requests without an answer.
TransportLossy == lost > 0

\* Mutant: hints alone are missed, although nothing was found.
OracleMuteOnce == first.hints = 0 /\ first.found # {}

\* No relation, and not one name volunteered.
OracleMute == first.hints = 0 /\ first.found = {}

\* Two more capabilities are asked for on the spot, with a request each.
Degraded(silent) ==
  {c \in {"credential", "transport", "hints"} :
     CASE c = "credential" -> CredentialRefused
       [] c = "transport"  -> TransportLossy
       [] c = "hints"      -> OracleMute}
  \cup silent

SelfCheck ==
  /\ stage = "selfcheck"
  /\ \E silent \in Silences({"routines", "codes"}) :
       /\ report' = report \cup {Say("degraded", c) : c \in Degraded(silent)}
       /\ lost' = lost + Cardinality(silent)
  /\ stage' = "probe"
  /\ UNCHANGED <<api, opts, passVars, sweepVars, target, schema, extra, harvested,
                 first, dropped, found0, exposed0, missed, proven, facts>>

-----------------------------------------------------------------------------
\* ProbeStage

StartProbe ==
  /\ stage = "probe" /\ rdPhase = "idle"
  /\ BeginSweep(found0)
  /\ UNCHANGED <<api, opts, lost, passVars, stageVars>>

Observed(verb, names, allowed) ==
  {[schema |-> schema, of |-> n, verb |-> verb, allowed |-> allowed] : n \in names}

\* Mutant: a relation that is empty counts as one that refuses.
FactsOfEmpty ==
  Observed("read", Reads({"exposed"}), TRUE)
  \cup Observed("read", Reads({"denied", "empty"}), FALSE)

\* Mutant: a write that was not decided counts as one that is refused.
FactsOfUndecided ==
  UNION {Observed(v, WithVerb(v, "reached"), TRUE)
           \cup Observed(v, WithVerb(v, "inconclusive"), FALSE) : v \in Verbs}

\* accessFacts
Facts ==
  Observed("read", Reads({"exposed"}), TRUE)
  \cup Observed("read", Reads({"denied"}), FALSE)
  \cup UNION {Observed(v, WithVerb(v, "reached"), TRUE)
                \cup Observed(v, WithVerb(v, "blocked"), FALSE) : v \in Verbs}

\* Mutant: an abandoned sweep is waited for.
SweepOverIfDone == rdPhase = "done"

SweepOver == rdPhase \in {"done", "abandoned"}

Publish ==
  /\ report' = report
       \cup {[id |-> f.id, schema |-> schema, of |-> f.of] : f \in Findings}
       \cup IF schema = Default /\ Unclassified # {}
            THEN {Say("budget", "columns")} ELSE {}
  /\ facts' = facts \cup Facts
  /\ missed' = missed \cup
       {<<schema, n>> : n \in rest \cup
          {m \in DOMAIN rel : rel[m].read = "unknown"}}
  /\ proven' = proven \cup UNION
       {{Say(v, n) : n \in {m \in DOMAIN rel : rel[m].verbs[v] = "reached"}} :
          v \in Verbs}
  /\ rdPhase' = "idle" /\ batch' = {} /\ rest' = {} /\ rel' = <<>> /\ left' = 0

FinishProbe ==
  /\ stage = "probe" /\ SweepOver
  /\ Publish
  /\ exposed0' = Reads({"exposed"})
  /\ stage' = "schemas"
  /\ UNCHANGED <<api, opts, lost, passVars, target, schema, extra, harvested, first,
                 dropped, found0>>

-----------------------------------------------------------------------------
\* SchemasStage

scanRest == <<target, harvested, first, dropped, found0, exposed0>>

\* Served by every project and not worth a scan of their own.
DefaultSchemas == {Default, "graphql_public"}

\* PostgREST names its schemas when it is asked for one that cannot exist.  An
\* answer that is lost, or carries no such list, leaves no schema to scan.
Discover ==
  /\ stage = "schemas" /\ enPhase = "idle"
  /\ \E silent \in Silences({Control}) :
       /\ extra' = IF silent = {} THEN DOMAIN target \ DefaultSchemas ELSE {}
       /\ lost' = lost + Cardinality(silent)
  /\ report' = report \cup {Say("schema", s) : s \in extra'}
  /\ stage' = "each"
  /\ UNCHANGED <<api, opts, passVars, sweepVars, scanRest, schema, missed, proven,
                 facts>>

NextSchema ==
  /\ stage = "each" /\ enPhase = "idle" /\ extra # {}
  /\ \E s \in extra :
       schema' = s /\ api' = target[s] /\ extra' = extra \ {s}
  /\ Begin(Pinned)
  /\ UNCHANGED <<opts, lost, sweepVars, scanRest, stage, missed, proven, report,
                 facts>>

\* Silence about a schema is not a schema with nothing in it.
Blind == ~trusted \/ (found = {} /\ hints = 0)

SkipSchema ==
  /\ stage = "each" /\ enPhase = "done" /\ (~trusted \/ found = {})
  /\ report' = report \cup IF Blind THEN {Say("not-assessed", schema)} ELSE {}
  /\ enPhase' = "idle"
  /\ UNCHANGED <<api, opts, lost, sweepVars, seeds, found, probed, frontier, round,
                 trusted, unresolved, denied, hints, scanRest, stage, schema,
                 extra, missed, proven, facts>>

SweepSchema ==
  /\ stage = "each" /\ enPhase = "done" /\ trusted /\ found # {}
  /\ rdPhase = "idle"
  /\ BeginSweep(found)
  /\ UNCHANGED <<api, opts, lost, passVars, stageVars>>

FinishSchema ==
  /\ stage = "each" /\ SweepOver
  /\ Publish
  /\ enPhase' = "idle"
  /\ UNCHANGED <<api, opts, lost, seeds, found, probed, frontier, round, trusted,
                 unresolved, denied, hints, scanRest, stage, schema, extra>>

EndSchemas ==
  /\ stage = "each" /\ enPhase = "idle" /\ extra = {}
  /\ stage' = "graphql"
  /\ schema' = Default /\ api' = target[Default]
  /\ UNCHANGED <<opts, lost, passVars, sweepVars, scanRest, extra, missed, proven,
                 report, facts>>

-----------------------------------------------------------------------------
\* GraphQLStage, which -measure leaves out

\* What pg_graphql serves; a question without an answer reads as "absent".
Served(silent) == (found0 \cap api.graphql) \ silent

\* Mutant: the comparison with what REST reads is dropped.
NothingReadable == {}

RestReadable == exposed0

GraphQLFindings(silent) ==
  {Say("bypass", n) : n \in Served(silent) \ RestReadable}
  \cup {Say("graphql", n) : n \in Served(silent)}

GraphQL ==
  /\ stage = "graphql" /\ ~opts.measure
  /\ \E silent \in Silences(found0 \cup {Control}) :
       LET control == IF Control \in silent THEN "unknown"
                      ELSE api.pgGraphql
       IN  /\ control # "on" => silent \subseteq {Control}
           /\ lost' = lost + Cardinality(silent)
           /\ report' = report \cup
                CASE control = "on"  -> GraphQLFindings(silent)
                  [] control = "off" -> {}
                  [] OTHER           -> {Say("not-assessed", "graphql")}
  /\ stage' = "end"
  /\ UNCHANGED <<api, opts, passVars, sweepVars, scanRest, schema, extra,
                 missed, proven, facts>>

SkipGraphQL ==
  /\ stage = "graphql" /\ opts.measure
  /\ stage' = "end"
  /\ UNCHANGED <<api, opts, lost, passVars, sweepVars, scanRest, schema, extra,
                 missed, proven, report, facts>>

Oracle == PassStep /\ UNCHANGED <<opts, sweepVars, stageVars>>
Sweep == SweepStep /\ UNCHANGED <<api, opts, passVars, stageVars>>

Next ==
  \/ StartRelations \/ Expand \/ FinishRelations \/ SelfCheck
  \/ StartProbe \/ FinishProbe
  \/ Discover \/ NextSchema \/ SkipSchema \/ SweepSchema \/ FinishSchema
  \/ EndSchemas \/ GraphQL \/ SkipGraphQL
  \/ Oracle \/ Sweep

Spec == Init /\ [][Next]_vars
FairSpec == Spec /\ WF_vars(Next)
-----------------------------------------------------------------------------
TypeOK ==
  /\ target \in Targets /\ schema \in DOMAIN target /\ api = target[schema]
  /\ stage \in {"relations", "selfcheck", "probe", "schemas", "each",
                "graphql", "end"}
  /\ enPhase \in {"idle", "control", "seeds", "rounds", "stems", "done"}
  /\ rdPhase \in {"idle", "head", "rest", "done", "abandoned"}
  /\ {found, probed, frontier, seeds, dropped} \subseteq SUBSET Names
  /\ round \in 0..MaxRounds /\ lost \in 0..MaxLost
  /\ left \in 0..MaxColumnProbes
  /\ DOMAIN rel \subseteq Names \cup {Control}
  /\ \A n \in DOMAIN rel : rel[n].read \in ReadStates \ {"refused"}

\* What is reported as a relation is one: behind a router that answers to any
\* name, with a key that the gateway refuses, or with the control lost, nothing
\* is.  (706 relations were once reported of a host that has none.)
NoPhantom == /\ enPhase = "idle" \/ found \subseteq DOMAIN api.status
             /\ found0 \subseteq DOMAIN target[Default].status

\* A scan that found no relation never reads as a clean one: something in the
\* report says that the control failed, that probes stayed open, or that the
\* key, the transport or the oracle did not behave.
EmptyIsNeverClean ==
  stage = "end" /\ found0 = {} =>
    \E f \in report : /\ f.schema = Default
                      /\ f.id \in {"not-discriminating", "unresolved",
                                   "degraded"}

\* What a hint names is found, and so is what a truncation of it hints at,
\* unless a reply was lost: no name is asked for too early or dropped between
\* two rounds.
Hop(ns) ==
  {api.hint[n] : n \in {m \in ns \cap DOMAIN api.hint : Reply(m) = "absent"}}

HintedIsFound ==
  LET one  == Hop(seeds)
      stem == UNION {api.stems[n] : n \in (seeds \cup one) \cap
                                      DOMAIN api.stems \cap DOMAIN api.status}
      real == {n \in DOMAIN api.status : Exists(api.status[n])}
  IN  enPhase = "done" /\ trusted /\ lost = 0 /\ one \ seeds # {} =>
        /\ one \cap real \subseteq found
        /\ MaxRounds > 1 => Hop(stem) \cap real \subseteq found

\* The fallback expansion adds to the first pass and takes nothing away: names,
\* probes without an answer and hints are all kept.
ExpansionLosesNothing ==
  [][/\ first.found \subseteq first'.found
     /\ first.unresolved <= first'.unresolved
     /\ first.hints <= first'.hints]_vars

\* However the workers interleave, as many relations are classified as the
\* budget pays for in full, and no probe of it is spent on half a relation.
ColumnBudgetIsExact ==
  LET open == {n \in DOMAIN rel : rel[n].read = "exposed"}
      paid == {n \in open : ~rel[n].unprobed}
      full == MaxColumnProbes \div Candidates
  IN  SweepOver /\ opts.measure =>
        /\ left = MaxColumnProbes - Candidates * Cardinality(paid)
        /\ rdPhase = "done" =>
             Cardinality(paid) = Lesser(Cardinality(open), full)

\* A readable relation with sensitive columns is critical, or the report says
\* that the column budget ran out, or a reply was lost.
UnderstatedIsDeclared ==
  stage = "end" /\ lost = 0 =>
    \A f \in report :
      /\ f.id = "readable" /\ f.schema = Default
      /\ f.of \in target[Default].sensitive
      => \/ [id |-> "critical", schema |-> Default, of |-> f.of] \in report
         \/ [id |-> "budget", schema |-> Default, of |-> "columns"] \in report

\* A relation reported as writable is never rated as mere site content.
WritableIsNeverContent ==
  \A f \in report : f.id = "medium" =>
    \A v \in Verbs : [f EXCEPT !.id = v] \notin report

\* Is this write open to anyone?
Granted(f) ==
  /\ f.of \in DOMAIN target[f.schema].open
  /\ f.verb \in target[f.schema].open[f.of]

\* What the comparison with the declared intent is given as observed of a read
\* is so; of a write, that an INSERT or UPDATE is open, and while every request
\* was answered, that an INSERT or DELETE is not.
AccessFactsAreTrue ==
  \A f \in facts :
    /\ f.verb = "read" => target[f.schema].status[f.of] \in
                            IF f.allowed THEN {"exposed"} ELSE {"refused", "denied"}
    /\ f.verb \in {"insert", "update"} /\ f.allowed => Granted(f)
    /\ f.verb \in {"insert", "delete"} /\ ~f.allowed /\ lost = 0 => ~Granted(f)

\* A relation said to be readable through GraphQL although REST bars it is
\* barred by REST, unless the read of it got no answer.
BypassIsReal ==
  \A f \in report : f.id = "bypass" =>
    \/ target[Default].status[f.of] # "exposed"
    \/ <<Default, f.of>> \in missed

\* What the assessment of the relations says is so: of their existence, their
\* rating, the access to them as far as a probe can tell, and of GraphQL as a
\* way around REST.
AssessmentIsSound ==
  /\ TypeOK
  /\ NoPhantom
  /\ WritableIsNeverContent
  /\ AccessFactsAreTrue
  /\ BypassIsReal

\* What it does not say it owns up to: an empty result, a name behind a hint,
\* a column that was not probed, however the workers share the budget.
AssessmentIsComplete ==
  /\ EmptyIsNeverClean
  /\ HintedIsFound
  /\ ColumnBudgetIsExact
  /\ UnderstatedIsDeclared

\* Every stage ends: the oracle does not ask for ever.
AssessmentEnds == <>(stage = "end")

\* Not so: every access published as observed is the target's.  A write whose
\* probe got no answer is published as denied, and a DELETE whose verifying
\* read is throttled, or whose row the owner removed, as allowed.
AccessFactsHold ==
  \A f \in facts : f.verb \in Verbs => f.allowed = Granted(f)

\* Not so: a verb proven open is in the report.  A sweep that its control
\* abandons returns no relation, and no stage says that it was abandoned.
ProvenIsReported ==
  stage = "end" => proven \subseteq report

\* Not so: candidates that the budget cut off are declared.  The comparison
\* leaves out the candidates that families of found names put in front.
TruncationIsDeclared ==
  stage = "end" /\ dropped # {} =>
    [id |-> "budget", schema |-> Default, of |-> "relations"] \in report
==============================================================================
