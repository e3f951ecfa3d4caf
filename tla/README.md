# unruly: specifications, model checks and proofs

`unruly` scans a deployed web application from the outside and reports what an
anonymous visitor, or somebody who merely signed up, can read and write in the
backend behind it (Supabase first; also Firebase, Neon and PocketBase). Its
results are claims about somebody else's system, drawn from HTTP answers that
may be late, lost, throttled or ambiguous. What can go wrong is therefore
rarely a crash. It is a **sentence in a report that is not true**: "reached"
where a policy bars the way, "clean" where nothing was looked at, "verified
gone" of a row that is still there, exit code 0 after an interrupt.

These modules specify the parts of the scanner that decide such sentences, TLC
checks them on small instances, and TLAPS proves the most important ones for
every instance. Every definition follows the Go source; `PROJECT.json` maps
each to the lines it stands for.

Contents: 1 the system; 2 the modules and how they follow the code; 3 the runs;
4 bounds and fairness; 5 what is proved; 6 disagreements between code and
documentation; 7 what is only model-checked, and abstractions; 8 what is not
modelled; 9 the plan.

## 1. The system

    cmd/unruly: run, for each target of a list
      scanTarget -- discovery, choice of credential and providers
        engine.Run (internal/engine)
          provider.PrepareFor  one workload per detected backend
          for each workload, in the order of ids:
            validateWorkload      scan.Validate, scan.CheckConsent
            scan.Pipeline.Run     stages, one after the other, which exchange
              stage               artifacts by name through scan.State and
                client.Map        send many requests at once through
                  client.Do       one Client, with retries and a breaker
          finding.Finalize      sort, deduplicate
      emitAll -- every destination; worst severity and blind surfaces
      exit code

A run is one process. Targets, workloads and stages are sequential; inside a
stage up to 64 workers call one HTTP client. Nothing is persisted but the
report and the file of accounts the scanner created (internal/identity). Fault
tolerance is a matter of answers (lost, refused, ambiguous), of the operator's
interrupt, and of parts failing while the rest goes on.

### Components that carry the program's own logic

**HTTP transport and breaker** (`internal/client/client.go`). *State*: eight
atomics shared by a client and all clients derived from it (sent, failed,
refusals, useful, gaveUp, authRejects, accepted, keyRejected); the locals of
each `Do`. *Operations*: `Do` with retries and backoff, `record`, `noteAuth`,
the derivations (`WithKey`, `WithBase`...). *Interaction*: called by every
stage's workers; the command reads its statistics and `GaveUp`. *Hard*: the
atomics have no lock in common, so workers interleave between any two;
`gaveUp` is read at entry and after a refusal, and not after a backoff;
there are several ways out of the retry loop and one of them counts. *Correct
when*: the breaker opens only on evidence counted once and stays open; workers
stop promptly; the statistics do not overstate; every call ends.

**Scan plans, pipeline, artifact store** (`scan/`). *State*: the list of stages
with their descriptors (required, optional and produced artifacts, mutations,
disclosure); the store of artifacts and its two ledgers; the findings.
*Operations*: `Validate`, `CheckConsent`, `Pipeline.Run`, `Put`, `Get`, `Skip`.
*Interaction*: providers build plans, the engine validates and runs them,
stages exchange artifacts. *Hard*: order of producers and consumers; a stage
that fails, is cancelled or is turned off in the middle; code that departs from
its descriptor. *Correct when*: every stage's fate is in the report, nothing
undeclared flows, a missing input is somebody's doing and never the order's,
and a plan that declares a write or a disclosure starts only with consent to it.

**Execution engine** (`internal/engine`). *State*: the workloads of one target,
the ids already run, the findings. *Operations*: preparation of providers, the
loop over workloads, verification of intent, `Finalize`. *Hard*: two detections
settling on one project while they are prepared; an interrupt between two looks
at the context; deduplication depending on order. *Correct when*: no project is
probed twice and everything not looked at is named.

**Command: run and scanTarget** (`cmd/unruly/main.go`, `emit.go`). *State*:
worst severity, whether a surface was blind, the destinations. *Operations*:
discovery, the three exits of scanTarget, `emitAll`, failure of a target, the
exit code. *Hard*: findings in hand when a target fails; a destination that
fails half way; an interrupt in a list. *Correct when*: the exit code says what
the report says and the report says what was found and what was not seen.

**Findings** (`internal/finding`). Severity, fingerprint, sort order,
`Dedup`, the set `blindIDs` that decides exit 3, and the findings about the
scan itself. *Hard*: `Dedup` keeps the first of two findings with one
fingerprint, so the severe one survives only by the order; the blind set is a
list kept in another file than the findings.

**Write probes** (`internal/probe/probe.go`, `internal/postgrest/classify.go`).
*State*: the sampled row, the row the scan created, the verdicts, the
complaint. *Operations*: `insertProbe` in two phases, `deleteRow` with its
verification, `updateProbe` with two bodies, `Trigger`. *Interaction*: the
client resends; the relation has policies, grants and constraints of its own;
its owner goes on using it. *Hard*: one code (42501) for two causes; a reply
lost after a commit; a sample that is stale; a cleanup that fails. *Correct
when*: no false "reached", `-no-residue` writes nothing, the target's rows
survive, and what is left behind is reported.

**Read probes** (`internal/probe`). *State*: one read state per relation, a
budget of column probes that 64 workers draw on, the evidence of a sample and
its control. *Operations*: `Run`, the read stage of `probeOne`, the probes of
pinned columns, the rating of what was found. *Hard*: a worker takes its share
all or nothing, so the schedule decides which relations go unclassified; a
control that reads like everything else must cancel the sweep. *Correct when*:
the budget pays for as many relations as it can, what it does not pay for is
declared, and nothing writable is rated as site content.

**Enumeration** (`internal/enumerate`), **self-check**, **schemas**, **GraphQL**.
*State*: the names found, the frontier, what the control answered. *Operations*:
an oracle that asks for names that cannot be meant and reads the names the
server volunteers, in bounded rounds; a fallback expansion; the same for every
further schema. *Hard*: a router or a gateway that answers alike to every name;
a lost control; two passes merged into one. *Correct when*: no name is reported
that is not there, none that a hint led to is lost, and an empty result never
reads as a clean one.

**Escalation and acquisition** (`internal/escalate`, `identity`, `mailbox`).
*State*: the account on the target, the file that remembers it, an inbox.
*Operations*: look up, sign in, register (with or without confirmation by
mail), remember, recover, compare. *Hard*: a reply lost between two of them, a
process killed between truncating the file and writing it, two scans at once.
*Correct when*: a project gets one account per address however often it is
scanned, `-no-residue` registers nothing, no account of another project is
forgotten, and an inbox that could not be removed is at least in the log.

**Auth, storage, functions, routines** (`internal/surface`). *State*: what each
service answered; two budgets of candidates, drawn on by one sweep per schema.
*Hard*: controls that are lost, objects of the scan's own that stay behind, the
default schema coming last. *Correct when*: what is exposed is reported or its
service declared, and the first sweeps leave the default schema its half.

**Realtime** (`internal/realtime`). *State*: one socket per schema, one deadline
for all of its subscriptions. *Hard*: replies are matched by reference, and one
that never comes uses up the time of every later one. *Correct when*: a stream
is claimed only where acknowledgements discriminate, and silence is declared.

**Firebase, Neon, PocketBase** (`internal/provider`, `backend/neon`,
`backend/pocketbase`). *State*: what was readable, what was created and is still
to be removed, the account in use. *Operations*: reads, write probes with their
removal, sign-up and sign-out, comparison. *Hard*: a write to a collection that
was only guessed creates it; the delete of what a probe created is refused or
not answered; a refusal of the whole project in the middle of a sweep; a token
without which every answer looks alike. *Correct when*: what the scan creates it
removes or names, and silence is told from emptiness.

**Application routes** (`internal/routes`, `backend/application`). *State*: the
inventory, what each route answered whom. *Operations*: gather, select under a
budget, ask, try variants of a refused request, compare two identities. *Hard*:
an application names hosts that are nobody's to scan; a budget that is used up
by one origin; a page served for any path reads as the protected record.

**Intent** (`internal/intent`). *State*: the manifest and the observations the
stages published. *Operations*: `Verify`, `combineObservation`. *Hard*: several
interfaces measured one resource, in no fixed order. *Correct when*: an
expectation is met only if it was measured, and a denial counts only if nobody
was let in.

**Around them**: credential, origin and provider selection; report formats and
rendering; historical and preview keys; classification of values; handoff;
exploitation of answer keys; evaluation; estate reports; the browser build;
corpus and fixtures.

`PROJECT.json` lists all of them with their status, and under `hazards` what in
each is hard to test, at its line.

## 2. The modules and how they follow the code

| module | models | uses |
|---|---|---|
| `Breaker` | what the circuit breaker promises: the abstract specification | |
| `Transport` | `Client.Do`, `record`, `noteAuth` by concurrent workers | refines `Breaker` |
| `ScanPlan` | stages, `Validate`, `CheckConsent` (`scan/plan.go`) | |
| `Pipeline` | `validateWorkload`, `Pipeline.Run`, the artifact store | `ScanPlan` |
| `PostgrestTable` | one relation behind PostgREST; external | |
| `WriteProbe` | the write stage of `probeOne`, and `Trigger` | `PostgrestTable` |
| `Findings` | severity, fingerprint, `Sort`, `Dedup`, blind findings | |
| `Sweep` | `run`, `scanTarget`, `engine.Run`, `emitAll`, the exit code | `Findings` |
| `Enumerate` | one pass of the hint oracle | |
| `ReadStage` | `probe.Run`: control, sample, reads, columns, ratings | `Enumerate` |
| `Assess` | the stages of a Supabase scan about relations, in their order | `ReadStage` |
| `Account` | acquisition, mailbox, identity store, comparison, by concurrent scans | |
| `Sample` | which items a budget keeps (`internal/sample`) | |
| `Routines` | routine discovery, calls, SQL execution, the two budgets | `Sample` |
| `Surface` | auth settings, storage, Edge Functions | `Routines` |
| `Realtime` | the socket of one schema | `Routines` |
| `Services` | the stages of a Supabase scan beyond relations, in their order | `Surface`, `Realtime` |
| `Footprint` | what every probe that creates something promises: abstract | |
| `Workload` | options, replies that fail, residue and report of one workload | `Sample` |
| `Firebase`, `NeonApi`, `PocketBase`, `Routes` | the stages of each backend, and of an application's own routes | `Workload` |
| `Intent` | `Verify`, `combineObservation` | |
| `Workloads` | one workload of any kind, then the comparison with the intent | the five above; refines `Footprint` |
| `MC*` | instances for TLC | |
| `*Proofs` | theorems about `Transport`, `Pipeline`, `WriteProbe`, `Sweep`, `Account`, `Assess`, `Sample`, `Services`, `Intent`, `Workloads` | |

Definitions have the names of the code where they can. An action is a handler,
or the part of one between two points where something else may happen: between
two atomics (`Transport`), between a request and its answer (`WriteProbe`),
between two exchanges of a stage (`Pipeline`), between two looks at the context
(`Sweep`). Variables called history in their comments record what really
happened, which no variable of the code holds; the properties compare the two,
and no guard reads them. A definition commented "Mutant" is a plausible slip in
the definition below it; it is used by no specification, and each is there to
show that some property tells it from the code.

**Transport.** `sent ... keyRejected` are the eight atomics. Each worker has a
program counter, the attempt number, the last answer and the value its `Add`
returned. One action per atomic operation: `Call` (the entry check of
`gaveUp`), `BadRequest` (a request that cannot be built), `Send`, `Receive`,
then `record` as `RefusalAdd`, `RefusalCheck` (which loads `useful`),
`OpenBreaker`, or `UsefulAdd`, `ResetRefusals`, and `noteAuth` as `AuthLoad`,
`AuthAdd`, `KeyStore`, `KeyOpen`, `Accept`; then `StopHere`, `OutOfAttempts`,
`TryAgain`, `Backoff`. A transport error is retried at once, a 429 or 5xx after
a wait that the context may end. A cancelled attempt is a transport error, as
`record` takes it.

**Pipeline.** The loop of `Pipeline.Run` with its four ways to leave a stage:
unreached after a cancellation, skipped, failed or returned; and the contract
check against the ledgers. While a stage runs it may `Get` and `Put` anything,
declared or not: the model does not trust the descriptors.

**WriteProbe.** `pc` is the request in flight. `Answered`, `LoseReply`,
`Undelivered` and `Truncate` are what may become of it, each ending in `Settle`,
which is `Do`'s decision to send again; `OwnerDeletes` is the application at
work. `InsertAnswered`, `BareAnswered`, `DeleteAnswered`, `VerifyAnswered` and
`UpdateAnswered` are the code after each reply with all its early returns, and
`ToUpdate` is the passage from `insertProbe` to `updateProbe`. In
`PostgrestTable` a statement is a function from a relation and its rows to a
reply and new rows. Its order of checks (rewriting, privilege, row policy,
constraint; RETURNING needs SELECT) is the one that `classify.go` states and
relies on. A row has an identity next to its key, so that two rows with one key,
or a copy of a row, remain distinguishable to the properties.

**Sweep.** `phase` is where scanTarget is. `Discover` may already find something
or fail; `Locate` takes one of the routes (no Supabase here, no key for it,
located) or fails; `PrepareProvider` stops a workload or settles on the id of a
project; `RefuseWorkload` and `RunWorkload` are the loop of `engine.Run` in the
order of ids; `CloseEngine` is what the engine adds at its end, with `Finalize`;
`Emit` the rest of scanTarget with a destination that may fail on any finding;
`NextTarget` and `FailTarget` the two branches of the loop of `run`; `Exit` the
exit code. `found`, `unexamined` and `probes` are history: what was found, what
may hide something, and how often each pipeline ran.

**Assess.** `stage` is the stage of `backend/supabase.Stages` at work. Inside
`relations` and `each` the oracle of `Enumerate` runs (`enPhase`: control,
seeds, rounds, stems), inside `probe` the sweep of `ReadStage`, where `rel` holds
what each worker knows of its relation and `left` is what remains of the column
budget. A batch of `client.Map` that shares nothing is one step; the column
probes share a budget, so each relation's share is a step of its own. `lost` and
`missed` are the replies that did not come. `target` says of every schema how
each relation answers, which names hint at which, what is sensitive and what is
open. The verdict of a write probe is a choice here: it is `WriteProbe`'s.

**Account.** One record per scan, in `run`, with its program counter; `users`
and `inboxes` are on the target's side, `store` is the identity file, `made`
the history of who registered what. `Load`, `Truncate` and `Write` are
`Remember` under its mutex, which two processes do not share; `Kill` may come
between any two steps and the scan is run again. `Await` is the wait for a mail,
which ends with the mail or without one.

**Services.** `Routines`, `Surface` and `Realtime` have one action per request,
or per batch of requests that are sent together; `faults` records which replies
failed and how (lost, throttled, or a gateway that is down), and each action
takes the branch the code takes for it. `rpc` and `extra` are the two budgets.
In `Realtime`, `socket = "expired"` is the deadline having passed: every later
read of the socket fails at once.

**Workloads.** `Workload` holds what the four backends share. `held`, `left` and
`named` are what a scan created and has in hand, what it gave up, and what its
report names; only `report` and `named` exist in the code, the other two are
what is on the target. `todo` is what is still to be probed, `asked` what was
asked before there was an account, `session` the account in use. An action is
one request, or one batch; `One` and `Failures` choose which of its replies are
lost or answered 429, up to `MaxFaults` in all. After a lost reply to a create
the thing may be there (`MayHaveCreated`); after a lost reply to a delete it may
be gone (`GivesUp`). `Firebase` follows `assess`, `NeonApi` the order of
`neon.Stages`, `PocketBase` its two stages, `Routes` `routes.Run`; `VerifyIntent`
is the end of `engine.Run`, with the observations in any order, because
`Observations` sorts by what they are about only. A budget of routes is a set,
`FairTargets`: a route is kept if its `Turn` is within the budget, and turns go
round by round over the origins, as the loops of `fairTargets` do. A list of
what is known to be small is what `Only` leaves of the list a target or the
operator gives it in (`InTurn`, `Rest`, `Sorted`).

The modules meet as follows: `WriteProbe`'s `Settle` is the retry loop that
`Transport` opens up; `WriteProbe`'s verdicts are what `Assess` chooses from;
`Assess`, `Account`, `Services` and `Workloads` are what the stages do that
`Pipeline` runs; `Pipeline` is the step `RunWorkload` of `Sweep`, and
`Pipeline`'s theorem that every stage is accounted for is what justifies
`Sweep`'s `Gaps`: a pipeline that may have missed something says so, except when
it was interrupted while a stage ran.

## 3. The runs

| run | properties | question |
|---|---|---|
| `transport` | `TypeOK`, `StopsWithinOneRequest`, `FailedCountsUnanswered`, `BreakerSpec`, `EveryCallReturns` | Are eight unlocked atomics enough? |
| `transport_sequential` | `NeverAbandonsATalker` | Is the "never give up on a host that talks" rule exact with one caller? |
| `pipeline` | `EveryStageAccounted`, `StoreWithinPlan`, `NoLateArtifact`, `MissingInputHasACulprit` | Do the static checks and the runtime contract together keep every plan honest? |
| `write_probe` | `ReachedIsSound`, `ForbiddenWritesNothing`, `TargetUntouched` | What survives any two faults, retries and a busy owner? |
| `write_probe_absorbed` | `RefusalIsSound`, `RemovalIsSound`, `ResidueIsReported` | Are all verdicts right in both directions where the retry absorbs the fault? |
| `write_probe_verify` | violates `VerifiedGone` | Is "verified gone" verified? |
| `sweep` | `TypeOK`, `HighNeverExitsZero`, `ExitMatchesReport`, `FoundIsReported`, `EveryGapIsDeclared`, `NoTargetAbandoned`, `ProbedOnce` | Does the report say what was found and what was not seen? |
| `assess` | `AssessmentIsSound`, `AssessmentIsComplete`, `ExpansionLosesNothing`, `AssessmentEnds` | Is what is said of relations so, and is the rest owned up to? |
| `account` | `AccountsAreSound`, `ResidueIsKnown`, `StoreForgetsNothing`, `EveryScanEnds` | Do scans that interleave, die and are repeated keep to one account and one truth about it? |
| `services` | `ServicesAreSound`, `ServicesAreComplete`, `ServicesEnd` | The same for auth, storage, functions, routines and Realtime |
| `workloads` | `TargetsAreSpared`, `ClaimsAreReal`, `GapsAreDeclared`, `FootprintKept`, `EveryWorkloadEnds` | What do the other backends leave behind, claim, and leave out? |
| `workloads_intent` | violates `UnverifiedWasNotMeasured` | Does a measured access reach the expectation it is about? |

Some properties are conjunctions of named parts, which are what a reader should
look at. Each part has its own comment, and the mutants of the parts are listed
under the conjunction:

- `AssessmentIsSound`: `NoPhantom`, `WritableIsNeverContent`,
  `AccessFactsAreTrue`, `BypassIsReal`. `AssessmentIsComplete`:
  `EmptyIsNeverClean`, `HintedIsFound`, `ColumnBudgetIsExact`,
  `UnderstatedIsDeclared`.
- `AccountsAreSound`: `OneAccountPerProject`, `WeakVerdictIsStable`,
  `GainIsReal`. `ResidueIsKnown`: `NoResidueIsKept`, `LeftBehindIsTrue`,
  `InboxIsRemoved`.
- `ServicesAreSound`: `NothingIsInvented`, `VerdictIsMeasured`,
  `AnonWriteIsReal`, `StreamIsReal`. `ServicesAreComplete`: `NothingIsSilent`,
  `CutRoutineIsDeclared`, `DefaultKeepsHalf`, `ObjectIsReported`,
  `QuietIsDeclared`.
- `TargetsAreSpared`: `NothingWithoutConsent`, `NothingStaysUnwanted`,
  `WritesGoWhereReadsDid`, `TerminalEndsTheSweep`, `ScopeIsTheOperators`.
  `ClaimsAreReal`: `GainIsReal`, `NoRowOfItsOwn`, `BypassReachesTheRecord`,
  `SharedPagesBeginAlike`, `DeniedWhereverAsked`. `GapsAreDeclared`:
  `FunctionsAreReportedOrDeclared`, `VolunteeredNamesAreTested`,
  `RefusedTokenIsDeclared`, `BlindnessIsSaid`, `NoOriginIsStarved`,
  `OpenRoutesAreReportedOrDeclared`.

A definition whose comment begins with "Not so" is a property that one would
expect and that the code does not have; section 6 says why. It is checked by no
run, except for two of them.

What the passing runs show:

- **Transport.** Another worker's answer may fall between any two steps of
  `record`, and still the breaker opens only after `RefusalBudget` refusals or
  `AuthBudget` rejected keys that really happened, each counted once; it never
  closes; after it opens each worker sends one more request at most, because
  `gaveUp` is not read again after a backoff; `failed` is exact until then and
  never overstates. With several callers the breaker *may* open on a host whose
  useful answer is in flight (between `refusals.Add` and `useful.Load`): the
  code accepts this, so `NeverAbandonsATalker` is claimed of one caller only.
- **Pipeline.** A report with no "not assessed" entry means that every live
  stage came back. A missing required input is always the doing of one stage
  above, and never of the order of a plan or of a stage that was turned off.
- **Write probe.** No combination of lost replies, resends, throttling,
  truncation and concurrent deletions yields a false "reached". With a unique
  key `-no-residue` writes no tuple and no row of the target is touched. The
  other direction ("blocked" is never wrong, a residue is always reported)
  holds exactly when the faults are ones the retry absorbs; `write_probe_verify`
  shows one way in which it fails beyond that, and section 6 names the others.
- **Sweep.** A high finding never ends in exit 0, whatever fails afterwards; a
  workload that was refused, stopped, skipped, truncated or interrupted is named
  in the report; one failing target does not take the others with it.
- **Assess.** Behind a router that answers to any name, a gateway that refuses
  the key, a proxy that turns every 404 into a 403, and with any reply lost, no
  relation is invented and an empty list is never a clean result. However the
  workers take turns, the column budget pays for exactly as many relations as it
  can, and a relation it did not pay for is declared if that understates it. Of
  the access facts that intent verification is given, what is said of reads is
  true, and so is that an INSERT or UPDATE is open; that an INSERT or DELETE is
  refused is true while every request was answered. The rest is not promised:
  a DELETE is called open when the verifying read was throttled, and an UPDATE
  refused when the owner took its row away (`AccessFactsHold`, section 6).
- **Account.** Two scans, in one process or in two, killed once and losing one
  reply: a project has one account per address; what is said to be left behind
  was made; nobody waits for ever for a mail or for the mutex. In one process,
  no account of another project is forgotten; `StoreForgetsNothing` is restricted
  to it because two processes that write the file at once do lose one.
- **Services.** Every exposed service is reported or declared, and every claim is
  real, with one reply of any request lost, throttled or answered by a gateway
  that is down. The exceptions are written into the properties where the code
  has them (a lost control of the bucket sweep, a throttled call of a routine, a
  lost reply to an upload), and named in section 6.
- **Workloads.** What any of the four backends creates is removed or named,
  unless a reply did not say what became of it (`FootprintKept`, a refinement).
  Nothing is created without `-write`, nothing stays under `-no-residue` where
  the target lets the scan remove it, no name that was only guessed is written
  to, and no host is asked that the operator did not put in scope. Gains
  and bypasses are real, but for those that section 6 names. What is called
  another account's record is refused to a stranger, if the stranger was answered,
  and is one record or two that are longer than the 300 bytes that are compared
  and begin alike. An open route is reported, or the budget that left it out is,
  unless its record is longer than that. Budgets, refused tokens and
  targets that answer alike to everything are declared; a denial is believed
  only where nobody was let in, whatever the order of the observations.

## 4. Bounds and fairness

| instance | bounds | why they are enough |
|---|---|---|
| `MCTransport.cfg` | 2 workers, 1 retry, budgets of 2, 3 calls | both workers can be between the same two atomics; 3 calls with a retry give 6 attempts, so each budget is met, exceeded and met again after a reset |
| `MCTransportSequential.cfg` | 1 worker, 6 calls | refusals, a reset and refusals again up to the budget |
| `MCPipeline.cfg` | all plans of 1 to 3 stages from a menu of 6, 2 artifacts | the menu has a producer, a requiring consumer (which writes and does not declare it, like `ProbeStage`), an optional consumer that declares its writes, a stage that discloses, one that is turned off and one without descriptor; 3 suffice for a producer, a consumer and one in between, in every order and with repetition |
| `MCWriteProbe.cfg` | at most 2 rows, keys equal or different, 2 faults of 5 kinds, 1 retry, owner deletes | collision needs two keys, staleness one deleted row; two faults exhaust one retry, or hit two different requests |
| `MCWriteProbeAbsorbed.cfg` | 1 fault of 2 kinds, every shape of relation | the fault is absorbed by the retry, which is what the run is about |
| `MCWriteProbeVerify.cfg` | 1 fault | the smallest instance with the case |
| `MCSweep.cfg` | 2 targets, twin backends that may settle on one project, one exposure at two severities, interrupts | duplicates within a workload and between two, a failing target first or last, a destination failing between findings |
| `MCAssess.cfg` | 7 names in 8 projects, 2 rounds, 1 lost reply, column budget of 4 with 2 candidates each, sample of 2 | a seed hints at a relation, a truncation of that at another, a generic candidate at a third; 3 readable relations compete for a budget of 2; one lost reply may be any control; the verdicts of a write probe are drawn from a menu with each verb open, refused and undecided; one project serves `graphql_public` |
| `MCAccount.cfg` | 2 scans in 16 pairings, 8 policies of the targets, 1 lost reply, 1 kill | two scans of one project in two processes, of two projects in one; one kill between any two steps, after which both are run again |
| `MCServices.cfg` | 16 projects, 4 option sets, 1 failed reply of 3 kinds | up to 3 schemas, a budget that no, one or every sweep exhausts, 2 relations on a socket; every reply can be the one that fails |
| `MCWorkloads.cfg` | 17 targets, 5 option sets, 2 failed replies of 2 kinds | per backend the rules a check tells apart; two failures reach a create and its removal, or a control and what it controls; function, reach, route and bypass budgets that do and do not bind |
| `MCWorkloadsIntent.cfg` | as above | the expectation concerned is one of the options |

The bounds on calls (`MaxCalls`), faults (`MaxFaults`, `MaxLost`), kills
(`MaxKills`) and rounds are guards of the models; nothing else is cut. Deadlock
is checked in `Sweep` and `Workloads`, which have an explicit final step. The
other modules really end (when the calls are used up, the workload, the probe,
the scans are done), so their configurations turn the check off, and their
liveness properties rule out that they end anywhere else.

Fairness:

- `Transport`: weak fairness of each worker's own steps. It stands for three
  facts: the Go runtime schedules a runnable goroutine; the limiter admits each
  reserved request; and `http.Client.Timeout`, which `New` never leaves at zero,
  ends every flight. Nothing obliges a caller to call, or the operator to cancel.
- `Account`: weak fairness of each scan's steps. Requests end as above, the wait
  for a mail has a deadline, and the mutex is held for one read and one write.
  Nothing obliges anybody to kill a process.
- `Assess`, `Services`, `Workloads`: weak fairness of the next step of the one
  loop over the stages. Requests end as above; the Realtime socket has a
  deadline.

Symmetry is not used: the runs with liveness properties must not, and the
targets, keys and rows of the others are ordered.

## 5. What is proved

Every safety invariant and every action property that a run checks is proved.
The theorems hold for every value of the
constants, under the named assumptions of the modules: finitely many workers,
scans and names; positive budgets, and at least one round of the oracle; plans
that are sequences of stages; tables that are finite and whose keys lie below
the ones the database hands out next; a non-empty list of targets without
repetition; projects and policies of the two backends that have accounts, whose
data are not what the scan itself writes (`PlansAssumption`); schemas that
answer as the code takes for granted (`IsSchema` in `Assess`: a refusal by
SQLSTATE is of something that is there, a gateway refuses every name alike, and
a hint leads to a relation); projects whose services have finitely many
routines, a default schema and an answer to each call, and buckets only behind a
storage host (`RoutinesAssumption`, `SurfaceAssumption`); targets and options of the backends that are well
formed (`TargetsAssumption`, `OptionsAssumption` in `Workloads`: lists are
lists, bounds are the positive ones the code substitutes, a name has one of the
answers the models give a meaning). The bounds of the models (`MaxCalls`,
`MaxFaults`, `MaxLost`, `MaxKills`, `Retries`) are arbitrary naturals there.

**TransportProofs.** `TypeCorrect`: the counters and locals are typed; the
number of an attempt never exceeds `Retries`, for which `RetryLeft` is needed (a
worker about to retry has an attempt left). `OvershootBound`: the inductive
form is `LateIsStuck`: a worker that has sent after the breaker opened is past
every way back to another send. `FailedCounts`. `ImplementsBreaker`: every step
of the counters is a step of `Breaker` or a stutter, because what is counted
plus what is on its way to being counted never exceeds what was seen
(`RefusalEvidence`, `RejectEvidence`, over the cardinality of the set of
workers still holding an answer), so that a worker that reaches the opening of
the breaker carries the evidence with it. `CatchIsExact`: where no two calls
overlap, a host that answered usefully is never given up on and a key that was
accepted never reported as rejected (`ReadsHold`: what a worker between two
atomics has read still holds). With overlapping calls the code does not promise
it, and the hypothesis `OneAtATime` says so.

**PipelineProofs.** One inductive invariant, `Ind`, in named parts: nothing is
started before both checks passed (`Approved`), positions are visited in order
(`InOrder`), the store is what the ledger says and a stage that was left behind
kept to its descriptor (`StoreIsLedger`), and each position below the loop has
its disposition (`AllAccounted`). From it `StagesAreAccounted`,
`StoreKeepsToPlan`, `InputsFollowPlan` (an absent declared input is never
published later), `AbsenceIsExplained` (an absent required one has a culprit,
which ran above and did not publish).
The lemma `NoProducerBelow` says what `Validate` buys: below a consumer there
is no producer of what it declares.

**WriteProbeProofs.** First lemmas about the relation, one per statement, on
what its reply proves and what it can change; then one lemma per action. The
invariant: an answer that will be read as "reached" was given by an open
relation (`RepliesTell`); the row the cleanup aims at has a key that no row of
the target has (`CleanupIsOurs`); under `-no-residue` the colliding INSERT never
lands, so neither phase B nor the cleanup is reached (`NothingLands`). From it
`NoFalsePositive`, `NoResidueKept` and `TargetKept`. The last two assume a
unique key and an owner who removed nothing; the model check shows why (without
them the collision has nothing to collide with). A second invariant,
`IndAbsorbed`, holds where the retries absorb the faults (`Absorbed`: requests
are lost on the way there only, and fewer than are sent again), as in the run
`write_probe_absorbed`: then every reply that is acted upon is the database's
own, to the statement that was sent last (`Answers`), and the verdicts are right
in the other direction too: `RemovalStaysSound`, `ResidueIsTold`, and
`NoFalseRefusal`, where nobody else removes rows. Without the hypothesis they
are false, and `write_probe_verify` shows one way.

**SweepProofs.** `TypeCorrect`; `NeverProbedTwice` from `Once` (an id not seen
was not run); `ExitIsHonest` from `Bound` (only a report cut short by its
destination is ahead of `worst` and `blind`, and then the target is about to
fail, which sets `blind`); `NothingFoundIsLost` from `Accounted` (each thing
found is written, or in hand, or its target is about to be declared failed);
`HighIsNeverClean` from both. `EveryTargetIsTold`: each position below the loop
has its summary or its failure. `SilenceIsNeverClean`: what was not examined is
told in a report that was written, or it is on its way there (`OnItsWay`: its
target is about to fail, it is in hand, it waits in the queue of a workload that
was stopped, or the engine was interrupted and says so at its end), and no
finalizing or deduplication on that way drops it. They rest on lemmas about reports:
`FinalizeKeeps` (for every finding the deduplicated report has one of the same
fingerprint, at least as severe), `WorstBounds` and `FinalizeIsPart`.

**AccountProofs.** One inductive invariant, `Ind`. Of a single scan (`Sane`):
it goes the way of its backend and of its operator (a Supabase scan under
`-no-residue` registers nothing, only one with a mailbox waits for a mail), what
it says of a password is so and said once it has a session, it calls an account
its own only if it made it, it leaves no inbox open without a warning in the log,
and it reports no
gain that a stranger has if no reply was lost. Of all of them: an address of the
scanner's is on a project once and whoever is there was made by a scan
(`AddressesAreOnce`); a scan that may leave nothing has on the project only what
it is about to remove, while no reply is lost and nothing killed
(`LeavesNothing`); of the scans of one process one writes the store
(`OneWriter`); and while there is one process and no kill, the account of a scan
that may keep one is in the store or in the copy about to be written
(`NothingForgotten`). From it `AccountsStaySound`, `ResidueStaysKnown`, and the
action property `StoreKeepsAccounts`.

**AssessProofs.** `StaysInductive`: `Ind` in named parts, for any vocabulary, any
project that `IsSchema` admits and any number of lost replies. Which stage has
the oracle or the sweep at work (`Staged`); that a pass its control let through
asks a schema which tells names apart, and a hint it saw has led somewhere unless
a probe stayed open (`Passing`); while no reply was lost, how far the chain of
hints has been followed, round by round (`Followed`); what the sweep knows of
each relation and what that has cost (`Sweeping`: what was paid for plus what is
left is the column budget, share by share); and what is kept and said (`Told`: a
schema is published once, an open relation was read or its read got no answer, an
empty result was explained or the self-check is about to). From it
`AssessmentStaysSound`, `AssessmentStaysComplete` and the action property
`ExpansionKeepsAll`.

**ServicesProofs.** First `Sample`, for lists and budgets of any size.
`StridedIsAPermutation`: the strided list is the list in another order.
`SampleSpansTheList`: what a budget reaches first has an item within one stride
before every item. Both from `StridedOrder`, which follows the passes one by one
(`PassTakesAClass`: a pass takes each item of a class of positions modulo the
stride, once). A recursive function is again unfolded by the smallest number at
which a claim fails (`SmallestExists`). From them `UncutAsksForEverything`: a
sweep whose budget finding is absent has asked for every candidate, so the
finding is all a reader needs.

Then one inductive invariant, `ServicesInv`, in named parts with a lemma each.
Where the scan is and what it has disclosed (`Ranged`, `Disclosing`); that the
faults stay within their bound (`FailuresAreFew`, by the size of an image); that
what is spent on another schema is spent of both budgets (`Charged`: `rpc -
extra` never changes, which gives the default schema its half); what makes a
bucket, an object and a subscription real (`Heard`, `Landed`, `Informative`: a
control that was accepted leaves nothing to subscribe to, one that got no reply
takes the socket with it); that each finding is so (`HonestReport`); and, stage
by stage, that what was due is told (`SurfaceTold`, `SweepsTold`, `ObjectsTold`,
`SessionsTold`). A finding stays true because the target does not change and
faults and report only grow (`Grows`), and a stage that is over stays told for
the same reason; so each part is disturbed by few actions. From it
`ServicesStaySound` and `ServicesStayComplete`. `ConsentToAct` needs one more
part, `Consented`: a listener that must not trigger has nothing left to write to.

**WorkloadsProofs.** `PromiseKept`: a workload of any kind implements
`Footprint`. Each way of creating, removing and giving up has a lemma
(`CreatesKeeps`, `RemovesKeeps`, `GivesUpKeeps`, `MayHaveCreatedKeeps`,
`FailureExcuses`), and each action is brought to one of them or to `QuietKeeps`.
Three strengthenings are needed: what a Neon scan holds are rows of tables it
looks through when it reports (`RowsAreOfTables`), an account that is fresh is
in hand until `finishSession` (`FreshIsHeld`), and the steps after a sign-up
come after consent (`AccountsAreConsented`). From the refinement follows
`ResidueIsNamed`: as long as every reply said what it had to, what is left on a
target is in the report. `ConsentToCreate`: without `-write` nothing is held,
left or named by any backend. The refinement map is the identity but for
`excuses`, which is `Excuses`: the replies that failed, a refused sign-in to a
PocketBase account just created, and a POST that an application accepted, which
are the two cases where the code leaves something without a word although every
reply arrived.

What else the runs check of a workload follows from a second invariant, `Holds`,
whose parts speak of one backend each and are kept by its own steps:

- *Firebase*: what waits to be written to answered a read with data
  (`ReadsFirst`); a sweep has heard at most one reply about the project
  (`SweepsEnd`, by `SweepEnds` on the cut of the list); what was readable
  without an account is reported before the account is asked
  (`GainsFirebase`); a function is found or the budget is declared
  (`FunctionsTold`, by `LeftOutByTheBudget` on the stride of the candidates);
  under `-no-residue`, while no reply failed, only the two accounts are in hand,
  at the steps that remove them (`KeepsNothing`);
- *Neon*: reads come before the write, and each stage leaves behind what it
  found, and said what it could not tell (`NeonTold`);
- *PocketBase*: `GainsPocketBase`;
- *routes*: what is asked is in scope, and what is left out is declared and fair
  (`RoutesPicked`). `TurnsAreFair`: with a budget of any size no origin is two
  routes ahead of one that has more, because a kept route is of a round no later
  than the first one left out (`RoundsBound`, `KeptBefore`). And what a stage
  says was true when it said it, and nobody said it before (`RoutesTold`);
- *intent*: the facts are finite (`FactsAreFinite`, from the names a scan can
  have measured, `MeasuresNames`), nobody but `VerifyIntent` closes a workload,
  and there `DenialIsWhole` applies.

From it `TypesAreKept`, `TargetsStaySpared`, `ClaimsStayReal` and
`GapsStayDeclared`.

The module begins with lemmas about `Intent`. What several measurements of one
resource come to does not depend on their order or grouping (`CombineCommutes`,
`CombineAssociates`, `CombineIsIdempotent`), up to the scope of a denial, which
nothing reads; and a resource is permitted exactly if one of them says so
(`PermitSurvives`). Then the two folds of the comparison over lists of any
length: `OnlyKeeps` (what a filter leaves, in which order, and that it repeats
nothing) and `PermitIsFound`. The recursive functions behind them are unfolded
by the least list on which a claim fails (`LeastExists`), which needs no theorem
of induction over an operator. `DenialIsWhole`: an expectation that was met was
measured, and one that denies was met only if nothing that was measured allows
it, in whichever order the measurements are looked at.

## 6. Where the code and its documentation disagree

Two are runs that TLC finds violated, listed under `findings` in `PROJECT.json`
with the text they contradict.

1. `write_probe_verify`: the verifying GET answered 429 or 401 decodes to no
   rows and reads as "verified gone".
2. `workloads_intent`: a Firebase write is published as `write`, which no
   manifest can name, so the denial it breaks is reported as never established.

The following are stated in the modules as definitions marked "Not so", and TLC
finds each of them violated on a small instance:

| definition | what the code does, against what is said |
|---|---|
| `Pipeline.UndeclaredReadsAreCaught` | `Get` returns before it records the read while the store is nil (`scan/artifact.go:71`), so an undeclared read before the first `Put` passes the contract (`scan/stage.go:86`) |
| `Pipeline.WritersAreConsented` | `CheckConsent` compares what stages declare; `ProbeStage` writes if its options let it and declares nothing (`descriptors.go:60`), so the plan-level check never sees the stage that writes most (`plan.go:156`; `backend/supabase/plan_test.go:32`). The command gives the plan and the stage the same permission, so nothing is written without one |
| `WriteProbe.NoSilentResidue` | a POST whose reply was lost is sent again (`probe.go:498`); two rows land, one is cleaned up, without a complaint (`probe.go:808`) |
| `WriteProbe.BlockedMeansRejected` | when phase B gets no answer, the ambiguous 42501 of phase A is reported as blocked (`probe.go:535`; `classify.go:57`) |
| `Sweep.ExitZeroIsMeasured` | an unresolved PostgREST mount stops the Supabase workload, and the run exits 0: `rest-prefix-unresolved` is not in `blindIDs` (`coverage.go:75`; `main.go:75`, `docs/how-it-works.md:58`) |
| `Sweep.ExitZeroCoversTheList` | an interrupt after the engine's last look at its context ends the list with exit 0 and no word about the remaining targets (`main.go:902`) |
| `Account.ResidueIsReported` | an account that waits for a confirmation nobody receives, or whose reply was lost and that is then signed in to, is not reported (`acquire.go:211`; `account.go:14`) |
| `Account.WeakVerdictIsStableEverywhere` | a Firebase account that is reused carries no verdict on its password (`firebase_auth.go:118`) |
| `Services.RoutineBudgetHolds` | a sweep within its budget is charged nothing, and a budget with nothing left reads as no budget (`schemas_stage.go:174`, `surface.go:1034`; `main.go:1249`, `scan/budget.go:9`) |
| `Services.NegativeIsMeasured` | a relation whose subscription was refused is triggered and counted as tested (`realtime.go:431`) |
| `Assess.ProvenIsReported` | a sweep that its control abandons returns no relation, and `ProbeStage` never looks at `Discriminating` (`probe_stage.go:55`; `control_test.go:47`) |
| `Assess.TruncationIsDeclared` | the number of generic candidates is compared, and not what was sent (`enumerate_stage.go:110`); seen with a family of names and a limit of 2 relations |
| `Assess.AccessFactsHold` | every verdict but "inconclusive" is published as a fact (`coverage_stage.go:106`): a bare INSERT without an answer as refused (`probe.go:535`), a DELETE whose verifying read was throttled, or whose row the owner removed, as open (`probe.go:857`) |
| `Workloads.UnlockedWasRefused` | `-max-collections` keeps names from being asked anonymously, and the account is asked for all of them, so what everybody reads is called unlocked (`firebase_scan.go:638`, `45`) |
| `Workloads.OwnAccountIsNoGain` | the `users` collection shows a member the scan's own record, which counts as a gain (`backend/pocketbase/escalation.go:208`) |
| `Workloads.StrangersWereRefused` | only `r.GET == 200` is skipped, so a lost or throttled anonymous reply makes a public record another account's (`routes.go:435`, `idor.go:78`; `docs/checks.md:78`) |
| `Workloads.CrossIdentityIsOneRecord` | bodies are compared by their first 300 bytes (`routes.go:682`, `idor.go:83`), so two pages that begin alike are "the same body" although each shows its own account (`docs/checks.md:78`) |
| `Workloads.LongRecordsAreReported` | what was cut at 300 bytes ends in "…" and is no JSON any more (`routes.go:710`, `exposed.go:92`), so an open route with a longer record is neither reported nor declared (`docs/checks.md:74`) |
| `Workloads.EveryBypassReachesTheRecord` | an OPTIONS that describes a route's methods is reported as a bypass (`bypass.go:114`; `docs/checks.md:77`) |
| `Workloads.MetMeansClosed` | `routeAccess` drops the origin, so origins share one verdict (`routes_stage.go:74`) |
| `Workloads.ViolationIsMeasured` | no stage publishes a scope, so an allow that is narrowed to the subject's own rows and was seen allowed is reported as violated (`intent.go:204`; `docs/checks.md:79`) |

Others were read in the code while it was modelled; the models follow the code.

- *Transport and command*: a cancelled scan counts as silence of the host and
  may open the breaker (`client.go:258`); clients derived by `WithKey` and others
  lose the body limit (`client.go:441`); the ids for a host that refused the scan
  are not blind although `scan.go` says that they lead to exit 3.
- *Probes*: the cleanup and the colliding PATCH filter by a column that need not
  be unique; `Trigger` discards what `insertProbe` says of the cleanup
  (`probe.go:1592`).
- *Accounts*: a store that cannot be parsed is replaced, which `load` says must
  not happen (`identity.go:98`); a comparison whose token is refused is silent; an inbox
  that could not be removed is a warning in the log and in no finding, although
  the comment says that it is reported (`acquire.go:155`).
- *Surface*: `functionsUnresolvedFinding` says that 5xx answers are unresolved,
  `classifyFunction` takes them for reached; a bucket sweep goes on without its
  control; a lost reply to an upload leaves an object that nothing names; a
  routine answered 429 or 5xx reads as callable; `residueFinding` says that
  writability was not established also where it was.
- *Realtime*: one reply that never comes uses up the deadline of the session, and
  what follows is silent; a reply to the control that cannot be read counts as a
  refusal; coverage is declared for the default schema only.
- *Firebase*: a readable root of the Realtime Database ends that check, so none
  of its paths is write-probed (`firebase_write.go:249` says otherwise); a
  document left by an earlier run refuses the write of the next one, in silence.
- *Neon*: the write stage counts refusals and reports none of them; a comparison
  to which every table answers 5xx is silent; one lost reply of the sample makes a
  target without a token look discriminating.
- *PocketBase*: a sign-in refused after a sign-up leaves the account, and the
  report says that none could be created.
- *Routes*: a catch-all or root control whose reply was lost lets the variants
  through; bundles beyond `-max-bundles` and pages beyond 120 are cut without a
  word; what a POST created is never named.

## 7. Only model-checked, and what the models leave out

Model-checked only:

- all liveness (`EveryCallReturns`, `EveryScanEnds`, `AssessmentEnds`,
  `ServicesEnd`, `EveryWorkloadEnds`): fairness and ENABLED are out of the
  prover's reach;
- `NeverAbandonsATalker` while calls overlap, and `RefusalIsSound`,
  `RemovalIsSound`, `ResidueIsReported` with faults that the retries do not
  absorb: there the code does not promise them and no run claims them.

The type invariants of `Pipeline` and `WriteProbe` are proved as far as the
proofs need them. No module uses a RECURSIVE operator; what folds over a list is
a recursive function.

Abstractions, and what they cost:

- *Transport* leaves out headers, bodies, URLs and the length of waits. The
  choice of `Retry-After` is therefore not checked. `MaxCalls` bounds callers,
  who in the code are bounded by the work at hand.
- *ScanPlan* takes `Name()` and the descriptor's id as one, which holds of all
  stages in the repository.
- *Pipeline* leaves out what stages find, notes and spending. Artifacts have no
  content.
- *WriteProbe* models one column as the key and "another column" as present or
  not. Values have no types, so the codes for conversions (22P02 and the like)
  do not occur; they are classified as 23502 is. A trigger that changes rows on
  its own is not modelled. The breaker is closed throughout: when it opens, a
  probe sees what `unsent` shows.
- *Findings* takes a report as the set of its findings; order shows only in what
  `Dedup` keeps and in how much is written before a destination fails. The
  protocol part of a fingerprint follows from the id. `matched` is the target;
  the code uses the API's base or the project for some. Three blind ids stand
  for all: the others behave alike.
- *Sweep* takes a pipeline as one step; leaves out the `-severity` filter, the
  texts that attribute blindness, the findings of account acquisition, and the
  note of what was not measured for a target. What discovery and flags decide is
  a choice among the outcomes. What intent verification reports is a choice at
  `CloseEngine`.
- *Assess*: which names hint at which, which columns are sensitive and which
  relations are site content is data of a target; how words are harvested and
  names classified is not modelled. Vocabulary is what `Pinned`, `Generic` and
  `FamilyNames` say. Write verdicts are chosen from a menu.
- *Account* knows passwords as weak or strong, and mails as sent or not. The file
  system does what was written, up to a kill between truncating and writing.
- *Services*: a name is a seed with the cut that was made of it; a row of data, a
  snippet or a column name does not occur. One failed reply per behaviour.
- *Workloads*: a rule of a Firebase collection is who may read and whether
  anybody may create and delete; rules that look at data do not occur. The
  requests that make up one sign-in are `Account`'s. A request the client sends
  again is one request: that a resent POST may land twice is seen in
  `WriteProbe` only. A body is who it belongs to, and of one longer than the
  300 bytes that the code keeps (`truncate`), how it begins (`target.long`,
  `Snippet`); templates and parameters of routes are filled in, specifications
  are sets of routes, and the limit of 120 pages is not modelled. What is worth
  protecting (`classify`) is data.

## 8. What is not modelled, and why

- The limiter is a token bucket of `golang.org/x/time/rate`; `Transport` assumes
  that it admits every request in the end.
- Credential, origin and provider selection and the detection of backends rank
  strings; `Sweep`'s `Locate` and `Discover` choose among their outcomes.
- Rendering, wording and file formats hold no state that a property is about.
- Historical and preview keys, classification of values, handoff: pattern
  matching over names and values, with little control.
- The corpus, fixtures, evaluation and exploitation harnesses test the scanner
  and are not part of a scan; the estate report aggregates stored reports; the
  browser build is a reduced scan without the engine.

## 9. The plan

Done, in this order: `Breaker` and `Transport`; `ScanPlan` and `Pipeline`;
`PostgrestTable` and `WriteProbe`; `Findings` and `Sweep`; `Enumerate`,
`ReadStage` and `Assess`; `Account`; `Routines`, `Surface`, `Realtime` and
`Services`; `Footprint`, `Workload`, the four backends, `Intent` and `Workloads`.
Proofs of all of them.

What would add most next:

1. The access facts of a Supabase scan as input of `VerifyIntent`, which composes
   `Assess` with `Intent`; and `Pipeline` as the step `RunWorkload` of `Sweep`.
2. Selection of credentials, origins and providers as a decision module against a
   reference definition, with which `Locate` and `Discover` become instances.
