------------------------------- MODULE Workloads ------------------------------
(***************************************************************************)
(* One workload of an engine run, whichever backend it addresses, then the *)
(* comparison with what the project intends; and what every workload       *)
(* promises: module Footprint, of what it creates.                         *)
(***************************************************************************)
EXTENDS Firebase, NeonApi, PocketBase, Routes, Intent

IsList(xs) == xs \in Seq(Range(xs))
Distinct(xs) == \A i, j \in DOMAIN xs : xs[i] = xs[j] => i = j

\* A manifest that Parse rejects ends the run before anything is asked; a bound
\* that is not positive is the default one (routes.Run), and -max-collections
\* need not be (sample.Take).
ASSUME OptionsAssumption ==
  \A o \in Options :
    /\ o.intent \subseteq Expectation
    /\ {o.routes, o.bypass, o.bundles} \subseteq Nat \ {0}
    /\ o.collections \in Int
    /\ IsList(o.supplied)

\* What a target can be.  Neon contributes no stage without a name to ask for
\* (neon.Stages), and no table has the name of the control (ReachStage); an order
\* has whatever a scan of the target can come to ask.  A refusal and a body
\* without a record are short.
ASSUME TargetsAssumption ==
  \A t \in Targets :
    \/ /\ t.kind = "firebase" /\ IsList(t.names) /\ IsList(t.harvested)
       /\ Range(t.functions) \subseteq {"public-function", "private-function"}
       /\ \A c \in DOMAIN t.functions : c = <<c[1], c[2]>>
    \/ /\ t.kind = "neon" /\ t.token \in {"accepted", "refused"}
       /\ IsList(t.order) /\ Distinct(t.order)
       /\ t.seeds # {} /\ t.seeds \cup t.hints \subseteq Range(t.order)
       /\ \A n \in DOMAIN t.tables : t.tables[n].read \in {"rows", "empty", "denied"}
       /\ Control \notin DOMAIN t.tables
    \/ t.kind = "pocketbase"
    \/ /\ t.kind = "application" /\ IsList(t.bundles)
       /\ IsList(t.order) /\ Distinct(t.order)
       /\ (UNION Range(t.bundles)) \cup t.har \cup t.spec \subseteq Range(t.order)
       /\ \A r \in DOMAIN t.served : \A caller \in {"anyone", "a", "b"} :
            t.served[r][caller] \in {"record", "own", "empty", "refused", "hidden"}
       /\ \A body \in DOMAIN t.long : body[1] \in {"record", "own", "home", "index"}

vars == <<scan, pc, footprint, work, faults, report>>

Init ==
  /\ target \in Targets
  /\ opts \in Options
  /\ pc = "plan"
  /\ held = {} /\ left = {} /\ named = {}
  /\ faults = {} /\ report = {}
  /\ asked = {} /\ todo = <<>> /\ session = "none"

\* firebaseAccess: what was read and written, which its findings say.
Readings(id, service, subject) ==
  {Fact(<<service, x[2]>>, "read", subject, "unknown", TRUE) :
     x \in {y \in report : y[1] = id}}

FirebaseAccess ==
  Readings("firestore-read", "document", "anonymous")
    \cup Readings("rtdb-read", "key", "anonymous")
    \cup Readings("member-read", "document", "authenticated")
    \cup {Fact(x[2], "write", "anonymous", "unknown", TRUE) :
            x \in {y \in report : y[1] = "write"}}

\* routeAccess: what a caller without credentials was answered, on whichever
\* origin; 404 may be a stale path and is no denial.
RouteAccess ==
  {Fact(PathOf(r), "read", "anonymous", "unknown", Got(r, "GET").code = 200) :
     r \in {x \in Range(todo) : Got(x, "GET").code \in {200, 401, 403}}}

\* Only these two measure access for the comparison.
Facts ==
  CASE target.kind = "firebase"    -> FirebaseAccess
    [] target.kind = "application" -> RouteAccess
    [] OTHER                       -> {}

Violation(e) == Found("intent-violation", e)
Unverified(e) == Found("intent-unverified", e)

\* intent.Findings, when every workload has ended (engine.Run).
VerifyIntent ==
  /\ pc = "done"
  /\ \E list \in Orders({x \in Facts : \E e \in opts.intent : About(x, e)}) :
       Say({Violation(e) : e \in
              {x \in opts.intent : Outcome(x, list) = "violated"}}
             \cup {Unverified(e) : e \in
              {x \in opts.intent : Outcome(x, list) = "unverified"}})
  /\ pc' = "closed"
  /\ UNCHANGED <<scan, footprint, work, faults>>

Step ==
  \/ Begin \/ VerifyIntent
  \/ target.kind = "firebase" /\ FirebaseStep
  \/ target.kind = "neon" /\ NeonStep
  \/ target.kind = "pocketbase" /\ PocketBaseStep
  \/ target.kind = "application" /\ RoutesStep

Done == pc = "closed" /\ UNCHANGED vars

Next == Step \/ Done

Spec == Init /\ [][Next]_vars

\* The stages run one after the other, and every request ends.
FairSpec == Spec /\ WF_vars(Step)
-----------------------------------------------------------------------------
\* A sign-in that is refused to an account just created is an excuse as well:
\* PocketBase then leaves the account, and says it could not be created.  What a
\* POST to an application's route created is never asked.
Excuses ==
  faults \cup (IF target.kind = "pocketbase" /\ ~target.signin
                 THEN {<<"signIn", "refused">>} ELSE {})
         \cup (IF target.kind = "application" /\ AllowPOST
                 THEN {<<"POST", "not read">>} ELSE {})

Promise == INSTANCE Footprint WITH excuses <- Excuses

\* Whatever a provider creates it removes or names in the report, unless a
\* reply did not say what became of it: writeFindings, anonymousSignInEnabled,
\* finishSession, WriteStage and the two PocketBase checks all keep to this.
FootprintKept == Promise!Spec

\* Types, and the bound on the replies that fail.
TypeOK ==
  /\ target \in Targets /\ opts \in Options
  /\ Cardinality(faults) <= MaxFaults
  /\ session \in {"none", "kept", "fresh", "member"}

\* Without -write nothing is created on a target: not by a write probe, and not
\* as an account (writeFindings, authFindings, WriteStage, EscalationStage).
NothingWithoutConsent == ~opts.write => held \cup left \cup named = {}
-----------------------------------------------------------------------------
At(kind) == target.kind = kind
Ended(kind) == At(kind) /\ pc = "closed"

\* Nothing is left under -no-residue where the target lets the scan take back
\* what it creates: the document, the visitor and the account of a Firebase
\* scan (ScanOptions.NoResidue), and no row of a Neon one at all.
NothingStaysUnwanted ==
  /\ pc = "closed" /\ opts.noResidue /\ faults = {}
  /\ At("firebase") => target.removable
  /\ ~At("pocketbase")
  => held = {} /\ left = {}

\* A write probe is sent only where a read was answered with data: a write to
\* a collection that was only guessed would create it (writeFindings).
WritesGoWhereReadsDid ==
  At("firebase") =>
    \A x \in held \cup left :
      /\ x[1] = "document" => x[2] \in asked /\ Admits(Where(x).read, "anyone")
      /\ x[1] = "key" => Reported("rtdb-read", x[2])

\* A reply that is about the project ends the sweep it is a reply to
\* (firestoreTerminal), in the anonymous one and in the one of the account.
TerminalEndsTheSweep ==
  At("firebase") =>
    \A sweep \in {"firestore", "escalate"} :
      Cardinality({x \in faults : x[1] = sweep /\ x[3] = "throttled"}) <= 1

\* A function somebody named, deployed where the scan looks, is in the report,
\* or the budget is; and never the budget for one the operator named, unless
\* the operator named too many (functionCandidates).
FunctionsAreReportedOrDeclared ==
  Ended("firebase") /\ opts.invoke /\ ~Failed("functions") =>
    \A c \in DOMAIN target.functions :
      /\ c[1] \in {"default-region", target.region}
      /\ c[2] \in Range(opts.supplied \o target.harvested)
      => \/ Reported(target.functions[c], c[2])
         \/ /\ Reported("budget", "functions")
            /\ c[2] \in Range(opts.supplied) => Len(opts.supplied) > FunctionCap

\* What an account is said to add was asked without one and not answered with
\* data (escalationFindings; PocketBase's EscalationStage), where it was asked.
GainIsReal ==
  /\ At("firebase") =>
       \A n \in asked : Reported("member-read", n) => target.store[n].read = "member"
  /\ At("pocketbase") /\ ~Failed("gain") =>
       \A n \in PocketBaseNames : Reported("gain", n) => target.rules[n] # "anyone"

\* A table said to be readable has rows that are not the scan's own: the write
\* stage is the last (neon.Stages).
NoRowOfItsOwn ==
  At("neon") =>
    \A n \in DOMAIN target.tables : Reported("member-read", n) => Table(n).read = "rows"

\* What the hints name is asked for in the same scan (Relations), not in the
\* next one.
VolunteeredNamesAreTested ==
  Ended("neon") /\ Token = "accepted" /\ faults = {} =>
    \A n \in target.seeds \cup target.hints :
      Exists(n) /\ Table(n).read = "rows" => Reported("member-read", n)

\* A token nobody accepts is no clean result, even if replies are lost too.
RefusedTokenIsDeclared ==
  Ended("neon") /\ Token = "refused" => Declared("escalation")

\* A target that answers alike for what is there and what cannot be is said to
\* be unmeasured, and one that does not is not (ReachStage), if it answers.
BlindnessIsSaid ==
  Ended("neon") /\ ~Failed("reach") =>
    (Reported("not-discriminating", "relations") <=> Token # "accepted")

\* Every workload comes to its end, and has nothing in hand but the account
\* that is kept for the next scan.
EveryWorkloadEnds ==
  <>(pc = "closed" /\ held \subseteq {x \in {ProbeAccount} : session = "kept"})

-----------------------------------------------------------------------------
\* What an application names is not scope: only the site and the origins the
\* operator listed are asked for anything, whatever a bundle, a capture or a
\* specification says (noteOrigins, filterRefs).
ScopeIsTheOperators ==
  At("application") => \A r \in asked \cup Range(todo) : Origin(r) \in Scope

\* A large inventory does not use up the budget before another origin in scope
\* is asked (fairTargets): no origin is two routes ahead of one that has more.
NoOriginIsStarved ==
  At("application") =>
    LET Asked(o) == {r \in Range(todo) : Origin(r) = o}
    IN  \A r \in asked \ Range(todo) : \A o \in Scope :
          Cardinality(Asked(o)) <= Cardinality(Asked(Origin(r))) + 1

\* A route that serves a stranger what is worth protecting, and that something
\* read by the scan names, is in the report, or the budget is, or its reply
\* failed (Run: one route may have no family at all).  That holds of a record
\* that is no longer than what is kept of it.
OpenRoutesAreReportedOrDeclared ==
  Ended("application") =>
    \A r \in asked \cap DOMAIN target.served :
      /\ target.served[r].anyone = "record" /\ target.served[r].secret
      /\ Made(r) \notin DOMAIN target.long
      => \/ Reported("exposure", r)
         \/ Reported("budget", "-max-routes") /\ r \notin Range(todo)
         \/ Failure(r, "GET") # {}

\* A request that is said to get past a refusal was served what is refused: not
\* the start page, not the page a catch-all host answers with (bypassFindings).
\* That holds if the two controls were answered, and of another method not at all.
BypassReachesTheRecord ==
  At("application") =>
    \A r \in Range(todo), v \in Variants \ {"method"} :
      Reported("bypass", <<r, v>>) =>
        \/ r \in DOMAIN target.served /\ v \in target.served[r].loose
        \/ \E x \in faults : x[1] = "bypass" /\ x[2][1] = <<Origin(r)>>

\* What an account is served at a route, in full.
Body(r, account) ==
  IF target.served[r][account] = "record" THEN Made(r) ELSE <<"own", r, account>>

OneHead(bodies) ==
  /\ bodies \subseteq DOMAIN target.long
  /\ \A x, y \in bodies : target.long[x] = target.long[y]

\* What is said to be another account's record is refused to a stranger, if the
\* stranger was answered, and both accounts are served: the very same record,
\* or two bodies that are both longer than what is compared and begin alike.  A
\* page that shows everyone their own is else not one (crossIdentity).
SharedPagesBeginAlike ==
  At("application") =>
    \A r \in Range(todo) :
      Reported("cross-identity", r) /\ Failure(r, "GET") = {} =>
        LET s == target.served[r] IN
        /\ s.anyone \in {"refused", "hidden"}
        /\ {s.a, s.b} \subseteq {"record", "own"}
        /\ \/ s.a = "record" /\ s.b = "record"
           \/ OneHead({Body(r, "a"), Body(r, "b")})

\* An expectation that was met was measured; one that denies was met only if
\* every origin that was asked and answered refused, in whatever order the
\* answers are looked at (Verify, combineObservation).
DeniedWhereverAsked ==
  pc = "closed" =>
    \A e \in opts.intent :
      ~Reported("intent-violation", e) /\ ~Reported("intent-unverified", e) =>
        /\ \E x \in Facts : About(x, e)
        /\ ~e.allowed => \A x \in Facts : About(x, e) => ~x.allowed

-----------------------------------------------------------------------------
\* What the workloads do to a target: nothing stays against the operator's word,
\* nothing is written to a name that was guessed, nothing is asked beyond the
\* scope, and nothing more after a reply that is about the whole project.
TargetsAreSpared ==
  /\ TypeOK
  /\ NothingWithoutConsent
  /\ NothingStaysUnwanted
  /\ WritesGoWhereReadsDid
  /\ TerminalEndsTheSweep
  /\ ScopeIsTheOperators

\* What they say is so: gains, rows, bypasses, bodies that two accounts share as
\* far as they are compared, and expectations that were met.
ClaimsAreReal ==
  /\ GainIsReal
  /\ NoRowOfItsOwn
  /\ BypassReachesTheRecord
  /\ SharedPagesBeginAlike
  /\ DeniedWhereverAsked

\* What they do not say they own up to: a function or a route that a budget cut,
\* an open route whose record is short enough to be decoded, a name that was
\* volunteered, a token nobody accepts, a target that answers alike to everything.
GapsAreDeclared ==
  /\ FunctionsAreReportedOrDeclared
  /\ VolunteeredNamesAreTested
  /\ RefusedTokenIsDeclared
  /\ BlindnessIsSaid
  /\ NoOriginIsStarved
  /\ OpenRoutesAreReportedOrDeclared

\* Not so: a collection an account unlocks was refused to a caller without one.
\* -max-collections keeps names from being asked anonymously, and
\* escalationFindings asks all of them.
UnlockedWasRefused ==
  At("firebase") /\ faults = {} =>
    \A n \in Range(target.names) :
      Reported("member-read", n) => target.store[n].read = "member"

\* Not so: the account of the scan is not what the scan finds.  The users
\* collection shows a member the member's own record.
OwnAccountIsNoGain ==
  At("pocketbase") =>
    \A n \in PocketBaseNames : Reported("gain", n) => target.rules[n] = "member"

\* Not so: what is called a violation was measured to be one.  No stage measures
\* whose rows it saw, and an expectation about one's own rows is then violated.
ViolationIsMeasured ==
  \A e \in opts.intent :
    Reported("intent-violation", e) =>
      \E x \in Facts : About(x, e) /\ (x.allowed # e.allowed \/ x.scope # "unknown")

\* Not so: of what is called unverified nothing was measured.  A Firebase write
\* is published as "write", which no manifest can name; it says "insert".
UnverifiedWasNotMeasured ==
  At("firebase") =>
    \A e \in opts.intent :
      Reported("intent-unverified", e) /\ e.operation = "insert" =>
        ~Reported("write", e.of)

\* Not so: what is called a bypass serves what was refused.  A server that
\* describes a route's methods to OPTIONS answers 200 and a body.
EveryBypassReachesTheRecord ==
  At("application") /\ faults = {} =>
    \A r \in Range(todo) :
      Reported("bypass", <<r, "method">>) => "method" \in target.served[r].loose

\* Not so: a stranger is refused what is called another account's record.  A
\* reply that was lost, or asked to wait, is no refusal.
StrangersWereRefused ==
  At("application") =>
    \A r \in Range(todo) :
      Reported("cross-identity", r) => Refused(Got(r, "GET"))

\* Not so: what is called another account's record is one record.  Two bodies
\* are compared by their first 300 bytes, and pages that show everyone their own
\* may begin alike.
CrossIdentityIsOneRecord ==
  At("application") =>
    \A r \in Range(todo) :
      Reported("cross-identity", r) /\ Failure(r, "GET") = {} =>
        target.served[r].a = "record" /\ target.served[r].b = "record"

\* Not so: an open route is reported however long its record.  What was cut at
\* 300 bytes cannot be decoded and holds nothing worth protecting.
LongRecordsAreReported ==
  Ended("application") /\ faults = {} =>
    \A r \in Range(todo) \cap DOMAIN target.served :
      target.served[r].anyone = "record" /\ target.served[r].secret
      => Reported("exposure", r)

\* Not so: an expectation that was met holds wherever the application serves
\* the path; origins share one verdict, and one of them may not have been asked.
MetMeansClosed ==
  Ended("application") =>
    \A e \in opts.intent : \A r \in asked :
      /\ ~e.allowed /\ e.of = PathOf(r)
      /\ ~Reported("intent-violation", e) /\ ~Reported("intent-unverified", e)
      => Served(r, "anyone").code # 200
===============================================================================
