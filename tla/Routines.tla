------------------------------- MODULE Routines -------------------------------
(***************************************************************************)
(* The RPC surface of one schema: enumerateRoutines asks for near misses   *)
(* of known words until PostgREST names a routine, callableRoutines calls  *)
(* what was named, sqlExecutionFindings asks whether one runs SQL.  Every  *)
(* schema beside the default one is swept first and draws on two budgets,  *)
(* then the default schema gets what is left (SchemasStage, SurfaceStage). *)
(***************************************************************************)
EXTENDS Sample, FiniteSets, FiniteSetsExt, Functions

CONSTANTS
  Targets,     \* projects that may be scanned
  Options,     \* -write, -invoke, -no-residue and -max-rpc-probes
  Default,     \* the default schema
  Snake,       \* seeds with an underscore, sorted
  Plain,       \* the other seeds, sorted
  Guesses,     \* composed names, asked verbatim
  Control,     \* a name that nothing has
  FaultKinds,  \* "lost", "throttled" (429), "down" (5xx)
  MaxFaults    \* bound: replies that say nothing

\* A project has a default schema, finitely many routines, and an answer to
\* each call of one.  The lists of seeds are lists.
ASSUME RoutinesAssumption ==
  /\ MaxFaults \in Nat
  /\ FaultKinds \subseteq {"lost", "throttled", "down"}
  /\ Snake \in Seq(Range(Snake)) /\ Plain \in Seq(Range(Plain))
  /\ IsFiniteSet(Guesses)
  /\ \A o \in Options : o.maxRPC \in Int
  /\ \A t \in Targets :
       /\ Default \in DOMAIN t.routines
       /\ \A s \in DOMAIN t.routines :
            /\ IsFiniteSet(DOMAIN t.routines[s])
            /\ \A r \in DOMAIN t.routines[s] :
                 t.routines[s][r].run \in {"denied", "args", "void", "rows"}

VARIABLES
  target, opts,
  pc,       \* what the scan does next
  schema,   \* the schema whose routines are swept
  todo,     \* schemas PostgREST named and that are still to be swept
  extra,    \* what is left of the budget of those schemas
  rpc,      \* what is left of the budget of the scan
  asked,    \* history: candidates sent, by schema
  known,    \* routines disclosed, by schema
  verdict,  \* what calling them said, by schema
  faults,   \* history: the replies that said nothing, and how
  report

routineVars == <<schema, todo, extra, rpc, asked, known, verdict>>
scanVars == <<target, opts>>

\* Replies to these requests that say nothing.
Failures(requests) ==
  UNION {[S -> FaultKinds] : S \in
    UNION {kSubset(k, requests) : k \in 0..(MaxFaults - Cardinality(faults))}}

Suffer(f) == faults' = faults \cup {<<pc, schema, r, f[r]>> : r \in DOMAIN f}

Found(id, of) == [id |-> id, schema |-> schema, of |-> of]
Say(S) == report' = report \cup S

\* The services a scan could not assess.
NotAssessed(service) == Found("not-assessed", service)

-----------------------------------------------------------------------------
\* scan.Budget

NewBudget(n) == IF n < 0 THEN 0 ELSE n
Take(left, n) == IF n <= 0 THEN 0 ELSE Lesser(n, left)

-----------------------------------------------------------------------------
\* routineCandidates: three prefixes of each seed, of a sample as large as the
\* budget pays for.

DefaultCandidates == 1200
Cuts == 3

Prefixes(xs) ==
  [i \in 1..(Cuts * Len(xs)) |-> <<xs[((i - 1) \div Cuts) + 1], i % Cuts>>]

\* Each of the two groups stops at the maximum; the second adds to the first.
RoutineCandidates(maximum) ==
  LET max == IF maximum <= 0 THEN DefaultCandidates ELSE maximum
      per == max \div Cuts
  IN  First(Prefixes(Strided(Snake, per)) \o Prefixes(Strided(Plain, per)), max)

Wanted == Len(RoutineCandidates(Cuts * (Len(Snake) + Len(Plain)) + 1))

-----------------------------------------------------------------------------
\* enumerateRoutines

Routine(r) == target.routines[schema][r]
Exists(r) == r \in DOMAIN target.routines[schema]

\* PostgREST names a routine in its hint, whoever asks.
Hinted(answered) ==
  {r \in DOMAIN target.routines[schema] : Routine(r).near \cap answered # {}}

\* A name asked for is itself a routine: it writes, or answers.
Hit(n, discriminates) ==
  \/ Exists(n) /\ Routine(n).get = "writes"
  \/ (target.catchAll \/ (Exists(n) /\ Routine(n).get = "ok")) /\ discriminates

\* Mutant: without an answer, the control passes.
DiscriminatesUnlessAnswered(f) == Control \in DOMAIN f \/ ~target.catchAll

\* The control is answered as a routine that is not there.
Discriminates(f) == Control \notin DOMAIN f /\ ~target.catchAll

Disclosed(names, f) ==
  LET answered == names \ DOMAIN f
  IN  Hinted(answered) \cup {n \in answered : Hit(n, Discriminates(f))}

\* Mutant: the extra schemas may spend all of it.
AllForExtra(n) == NewBudget(n)

\* Secondary schemas may spend half between them.
HalfForExtra(n) == NewBudget(n \div 2)

Allowance == IF schema = Default THEN rpc ELSE extra

Bound == Len(RoutineCandidates(Allowance)) < Wanted

\* spentOn: RoutineCandidatesWanted is set where the budget was bound.
SpentOn == Lesser(IF Bound THEN Wanted ELSE 0, Allowance)

\* Mutant: the truncation of another schema is not reported.
BudgetFindingOfDefault ==
  IF Bound /\ schema = Default THEN {Found("budget", "routine-discovery")} ELSE {}

BudgetFinding == IF Bound THEN {Found("budget", "routine-discovery")} ELSE {}

\* SurfaceStage looks at the budget and does not charge it.
SweepRoutines ==
  /\ pc = "sweep"
  /\ LET sent == RoutineCandidates(Allowance)
         names == Range(sent) \cup Guesses
         granted == IF schema = Default THEN 0 ELSE Take(extra, SpentOn)
     IN  \E f \in Failures(names \cup {Control}) :
           /\ Suffer(f)
           /\ asked' = [asked EXCEPT ![schema] = Len(sent)]
           /\ known' = [known EXCEPT ![schema] = Disclosed(names, f)]
           /\ extra' = extra - granted
           /\ rpc' = rpc - Take(rpc, granted)
           /\ Say(BudgetFinding)
  /\ pc' = "call"
  /\ UNCHANGED <<scanVars, schema, todo, verdict>>

-----------------------------------------------------------------------------
\* callableRoutines and routineFinding

\* Mutant: a routine that wants arguments is called callable.
SaysArgsCallable(r, f) ==
  IF r \in DOMAIN f THEN "unknown"
  ELSE IF Routine(r).run = "denied" THEN "denied" ELSE "callable"

\* Any reply but the two that are known means that the routine ran, the
\* throttled and the failed ones included.
Says(r, f) ==
  IF r \in DOMAIN f THEN IF f[r] = "lost" THEN "unknown" ELSE "callable"
  ELSE CASE Routine(r).run = "denied" -> "denied"
         [] Routine(r).run = "args"   -> "unknown"
         [] OTHER                     -> "callable"

\* routineFinding and routineDataFinding
RoutineFinding(r, says) == Found(says, r)
DataFinding(r) == Found("returns-data", r)
ReturnsData(r) == opts.invoke /\ Routine(r).run = "rows"

CallRoutines ==
  /\ pc = "call"
  /\ \E f \in Failures(IF opts.invoke THEN known[schema] ELSE {}) :
       /\ Suffer(f)
       /\ verdict' = [verdict EXCEPT ![schema] =
            [r \in known[schema] |-> IF opts.invoke THEN Says(r, f) ELSE "unknown"]]
       /\ Say({RoutineFinding(r, verdict'[schema][r]) : r \in known[schema]}
              \cup {DataFinding(r) :
                      r \in {r \in known[schema] \ DOMAIN f : ReturnsData(r)}})
  /\ pc' = "sql"
  /\ UNCHANGED <<scanVars, schema, todo, extra, rpc, asked, known>>

\* Mutant: the statement coming back is taken for its result.
EchoExecutes(r) == Routine(r).sql # "none"

\* executedTheStatement
Executes(r) == Routine(r).sql \in {"primary", "secondary"}

\* A routine that was disclosed is tried with every parameter name, one of the
\* well-known names with the primary ones.
TriedForSQL ==
  {r \in DOMAIN target.routines[schema] :
     /\ Routine(r).executor
     /\ r \in known[schema] \/ (Routine(r).wellKnown /\ Routine(r).sql # "secondary")}

ArbitrarySQL(r) == Found("arbitrary-sql", r)

AskForSQL ==
  /\ pc = "sql"
  /\ \E f \in Failures(TriedForSQL) :
       /\ Suffer(f)
       /\ Say({ArbitrarySQL(r) : r \in {r \in TriedForSQL \ DOMAIN f : Executes(r)}})
  /\ IF schema = Default THEN pc' = "dial" /\ UNCHANGED <<schema, todo>>
     ELSE IF todo = {} THEN pc' = "auth" /\ schema' = Default /\ UNCHANGED todo
     ELSE /\ pc' = "sweep"
          /\ schema' \in todo
          /\ todo' = todo \ {schema'}
  /\ UNCHANGED <<scanVars, extra, rpc, asked, known, verdict>>
==============================================================================
