------------------------------ MODULE Enumerate ------------------------------
(***************************************************************************)
(* One pass of internal/enumerate: which relations does a PostgREST schema *)
(* have?  A control name that cannot exist is asked for first.  Then the   *)
(* seeds are asked for, and for a few rounds the names that the server     *)
(* volunteers on a near miss, and the truncations of the names found.      *)
(*                                                                         *)
(* Requests of a batch run concurrently, but client.Map hands their        *)
(* outcomes back together and nothing is shared meanwhile, so a batch is   *)
(* one step; which of its requests stay without an answer is a choice.     *)
(***************************************************************************)
EXTENDS Naturals, FiniteSets

CONSTANTS
  Names,       \* names that may be asked for, the control excepted
  Control,     \* ControlRelationName
  MaxRounds,   \* rounds of following hints; the code turns 0 into 3
  MaxLost      \* bound: requests the network or the server loses

ASSUME EnumerateAssumption ==
  /\ IsFiniteSet(Names) /\ Control \notin Names
  /\ MaxRounds \in Nat \ {0} /\ MaxLost \in Nat

\* How PostgREST, or what stands in front of it, answers a GET: with rows,
\* with none, 401/403 with SQLSTATE 42501, 401/403 without one, 404, or
\* something that cannot be read as any of these.
ReadStates == {"exposed", "empty", "refused", "denied", "absent", "unknown"}

VARIABLES
  api,         \* the schema being asked: external, it does not change
  lost,        \* requests without an answer so far (the client's failed)
  enPhase,     \* "idle", "control", "seeds", "rounds", "stems", "done"
  seeds,       \* Options.Seeds of this pass
  found,       \* names of the relations recorded
  probed,      \* names asked for
  frontier,    \* hinted names not asked for yet
  round,
  trusted,     \* Result.Discriminating
  unresolved,  \* Result.Unresolved
  denied,      \* Result.Denied
  hints        \* Result.HintsObserved

passVars == <<enPhase, seeds, found, probed, frontier, round, trusted,
              unresolved, denied, hints>>

\* The schema's own answer to a name.  masks is what it says of a name it
\* does not have: 404, or whatever a proxy makes of that.
Reply(n) == IF n \in DOMAIN api.status THEN api.status[n] ELSE api.masks

Answer(n, silent) == IF n \in silent THEN "unknown" ELSE Reply(n)

\* Up to MaxLost requests of a scan are lost: some of this batch.
Silences(batch) ==
  {s \in SUBSET batch : Cardinality(s) + lost <= MaxLost}

Hinted(batch, silent) ==
  {n \in batch : /\ Answer(n, silent) = "absent"
                 /\ n \in DOMAIN api.hint}

\* A relation is recorded when it answered, or when the database itself
\* refused it; a refusal by the gateway says nothing about the schema.
Exists(s) == s \in {"exposed", "empty", "refused"}

\* record, over a batch.
Record(batch, silent) ==
  /\ found' = found \cup {n \in batch : Exists(Answer(n, silent))}
  /\ unresolved' = unresolved
       + Cardinality({n \in batch : Answer(n, silent) = "unknown"})
  /\ denied' = denied
       + Cardinality({n \in batch : Answer(n, silent) \in
                                      {"refused", "denied"}})
  /\ hints' = hints + Cardinality(Hinted(batch, silent))
  /\ lost' = lost + Cardinality(silent)
  /\ probed' = probed \cup batch

Fresh(batch, silent) ==
  {api.hint[n] : n \in Hinted(batch, silent)} \ (probed \cup batch)

\* Truncations of the names found, three characters and longer.
Stems == (UNION {api.stems[n] : n \in found \cap DOMAIN api.stems}) \ probed

Idle ==
  /\ enPhase = "idle" /\ seeds = {} /\ found = {} /\ probed = {}
  /\ frontier = {} /\ round = 0 /\ trusted = TRUE
  /\ unresolved = 0 /\ denied = 0 /\ hints = 0

\* A new call of Run.
Begin(names) ==
  /\ enPhase' = "control" /\ seeds' = names /\ found' = {} /\ probed' = {}
  /\ frontier' = {} /\ round' = 0 /\ trusted' = TRUE
  /\ unresolved' = 0 /\ denied' = 0 /\ hints' = 0

\* Mutant: only a control that answers like a relation ends the pass.
TrustworthyIfLost(s) == s \notin {"exposed", "empty"}

\* A control that answers like a relation, or not at all, ends the pass.
Trustworthy(s) == s \notin {"exposed", "empty", "unknown"}

AskControl ==
  /\ enPhase = "control"
  /\ \E silent \in Silences({Control}) :
       /\ trusted' = Trustworthy(Answer(Control, silent))
       /\ lost' = lost + Cardinality(silent)
  /\ enPhase' = IF trusted' THEN "seeds" ELSE "done"
  /\ UNCHANGED <<api, seeds, found, probed, frontier, round, unresolved,
                 denied, hints>>

AskSeeds ==
  /\ enPhase = "seeds"
  /\ \E silent \in Silences(seeds) :
       /\ Record(seeds, silent)
       /\ frontier' = Fresh(seeds, silent)
  /\ enPhase' = "rounds"
  /\ UNCHANGED <<api, seeds, round, trusted>>

\* Mutant: the last round is not run.
MayGoOnShort == round + 1 < MaxRounds /\ frontier \ probed # {}

\* The loop goes on while there is something new to ask and a round left.
MayGoOn == round < MaxRounds /\ frontier \ probed # {}

FollowHints ==
  /\ enPhase = "rounds" /\ MayGoOn
  /\ LET next == frontier \ probed IN
     \E silent \in Silences(next) :
       /\ Record(next, silent)
       /\ frontier' = Fresh(next, silent)
  /\ enPhase' = "stems"
  /\ UNCHANGED <<api, seeds, round, trusted>>

AskStems ==
  /\ enPhase = "stems"
  /\ \E silent \in Silences(Stems) :
       /\ Record(Stems, silent)
       /\ frontier' = frontier \cup Fresh(Stems, silent)
  /\ round' = round + 1
  /\ enPhase' = "rounds"
  /\ UNCHANGED <<api, seeds, trusted>>

EndPass ==
  /\ enPhase = "rounds" /\ ~MayGoOn
  /\ enPhase' = "done"
  /\ UNCHANGED <<api, lost, seeds, found, probed, frontier, round, trusted,
                 unresolved, denied, hints>>

PassStep == AskControl \/ AskSeeds \/ FollowHints \/ AskStems \/ EndPass
==============================================================================
