-------------------------------- MODULE Firebase ------------------------------
(***************************************************************************)
(* firebase.assess: what a caller with the public web key can read, write, *)
(* list, call and fetch, and what an account adds.  Firestore answers 403  *)
(* for a protected collection and for one that does not exist.             *)
(***************************************************************************)
EXTENDS Workload

CONSTANT FunctionCap   \* maxFunctionProbes: calls a function's name may cost

ASSUME FirebaseAssumption == FunctionCap \in Nat \ {0}

Document(n) == <<"document", n>>
Key(n) == <<"key", n>>
ProbeAccount == <<"account", "kept or fresh">>
Visitor == <<"account", "anonymous">>
Where(x) == IF x[1] = "document" THEN target.store[x[2]] ELSE target.tree[x[2]]
Root == "/"

Admits(rule, caller) == rule \in {"anyone", caller}
-----------------------------------------------------------------------------
\* Mutant: the rest of the names are asked all the same.
NeverTerminal(n, f) == FALSE

\* firestoreTerminal: a reply about the project, after which no name is asked.
Terminal(n, f) == target.disabled \/ <<n, "throttled">> \in {<<m, f[m]>> : m \in DOMAIN f}

\* The names a sweep asks before it ends or is stopped.
Tried(names, f) ==
  LET stops == {i \in DOMAIN names : Terminal(names[i], f)}
  IN  Range(IF stops = {} THEN names ELSE First(names, Min(stops)))

Heard(names, f) == IF target.disabled THEN {} ELSE Tried(names, f) \ DOMAIN f

\* probeFirestore: documents came back.  A lost reply reads as a refusal.
Readable(names, f, caller) ==
  {n \in Heard(names, f) : Admits(target.store[n].read, caller)}

\* firestoreReadFinding and rtdbFinding
FirestoreRead(n) == Found("firestore-read", n)
RtdbRead(path) == Found("rtdb-read", path)

\* Mutant: what was asked is written to.
EveryName(open, names) == names

\* Only what was readable is written to: a write to a guessed collection would
\* create it.
WriteTargets(open, names) == open

\* firestoreFindings: at most MaxCollections names, spread over the list.
Collections ==
  IF target.key THEN Sampled(target.names, opts.collections) ELSE <<>>

Firestore ==
  /\ pc = "firestore"
  /\ \E f \in Failures(Range(Collections)) :
       LET open == Only(Collections, Readable(Collections, f, "anyone"))
       IN  /\ DOMAIN f \subseteq Tried(Collections, f)
           /\ Suffer(f)
           /\ asked' = Heard(Collections, f)
           /\ todo' = LET names == WriteTargets(open, Collections)
                       IN  [i \in DOMAIN names |-> Document(names[i])]
           /\ Say({FirestoreRead(n) : n \in Range(open)}
                    \cup {NotAssessed("firestore") : n \in Range(Collections)})
  /\ pc' = "rtdb"
  /\ UNCHANGED <<scan, footprint, session>>

\* rtdbProbe: the paths of the tree that come back.
Shown ==
  {n \in Range(target.names) : target.rtdb = "open" \/ target.tree[n].read = "anyone"}

\* rtdbFindings: a readable root settles the tree and no path is asked; a root
\* that answers with nothing is no refusal, and that is said.
RealtimeDatabase ==
  /\ pc = "rtdb"
  /\ \E f \in Failures(IF target.rtdb = "none" THEN {}
                         ELSE {Root} \cup Range(target.names)) :
       LET rootOpen == target.rtdb = "open" /\ Root \notin DOMAIN f
           paths == IF rootOpen \/ target.rtdb \in {"none", "stale"} THEN <<>>
                    ELSE Only(target.names, Shown \ DOMAIN f)
       IN  /\ rootOpen => Fine(f)
           /\ Suffer(f)
           /\ todo' = todo \o [i \in DOMAIN paths |-> Key(paths[i])]
           /\ Say({RtdbRead(n) : n \in Range(paths)}
                    \cup (IF rootOpen THEN {RtdbRead(Root)} ELSE {})
                    \cup (IF target.rtdb = "stale" /\ Root \notin DOMAIN f
                            THEN {NotAssessed("rtdb")} ELSE {}))
  /\ pc' = "write"
  /\ UNCHANGED <<scan, footprint, asked, session>>
-----------------------------------------------------------------------------
\* Mutant: consent to write is consent to leave something.
WriteIsConsent == opts.write

\* writeFindings: one item at a time.
MayWrite == opts.write /\ ~opts.noResidue

NoWrites ==
  /\ pc = "write" /\ ~MayWrite
  /\ Say({NotAssessed("firebase-write")})
  /\ pc' = "storage"
  /\ UNCHANGED <<scan, footprint, work, faults>>

\* The identifier is the same in every run: what an earlier one left collides.
Collides(x) == x[1] = "document" /\ x \in target.earlier

CreateProbe ==
  /\ pc = "write" /\ MayWrite /\ todo # <<>> /\ held = {}
  /\ \E f \in One("create") :
       LET x == Head(todo)
           admitted == Where(x).create /\ ~Collides(x)
       IN  /\ Suffer(f)
           /\ IF admitted /\ Fine(f)
                THEN Creates(x) /\ todo' = todo
                ELSE /\ todo' = Tail(todo)
                     /\ IF admitted /\ IsLost(f, "create")
                          THEN MayHaveCreated(x) ELSE NothingCreated
  /\ UNCHANGED <<scan, pc, report, asked, session>>

\* Mutant: only the write is reported.
NoResidueNamed(x) == {}

\* residueFinding, when the delete was not confirmed.
Residue(x) == {Found("left-behind", x)}

\* firestoreWriteFinding and rtdbWriteFinding
WriteAccepted(x) == Found("write", x)

\* Mutant: what could not be removed is tried again.
TriedAgain(gone) == IF gone THEN Tail(todo) ELSE todo

OneTry(gone) == Tail(todo)

RemoveProbe ==
  /\ pc = "write" /\ todo # <<>> /\ held = {Head(todo)}
  /\ \E f \in One("delete") :
       LET x == Head(todo)
           confirmed == Where(x).delete /\ Fine(f)
           says == {WriteAccepted(x)} \cup IF confirmed THEN {} ELSE Residue(x)
       IN  /\ Suffer(f)
           /\ Say(says)
           /\ todo' = OneTry(confirmed)
           /\ IF confirmed THEN Removes(x) ELSE GivesUp({x}, says, f)
  /\ UNCHANGED <<scan, pc, asked, session>>

WritesDone ==
  /\ pc = "write" /\ MayWrite /\ todo = <<>>
  /\ pc' = "storage"
  /\ UNCHANGED <<scan, footprint, work, faults, report>>
-----------------------------------------------------------------------------
\* storageOpenFinding and the others: what its answer says of the bucket.
Bucket(answer) == Found("bucket", answer)

\* storageFindings: 404, 403 and 200 are three answers.
Storage ==
  /\ pc = "storage"
  /\ \E f \in IF target.bucket = "unnamed" THEN Failures({}) ELSE One("bucket") :
       /\ Suffer(f)
       /\ Say(IF target.bucket = "unnamed" THEN {}
              ELSE {IF Fine(f) THEN Bucket(target.bucket) ELSE NotAssessed("bucket")})
  /\ pc' = "functions"
  /\ UNCHANGED <<scan, footprint, work>>

\* functionCandidates: what the operator named first, then every so-many-th of
\* what the application names.
Rest(supplied, harvested) == Only(harvested, Range(harvested) \ Range(supplied))

\* Mutant: the cap cuts the end of the list, whoever named it.
HarvestedFirst(supplied, harvested) ==
  First(Rest(supplied, harvested) \o supplied, FunctionCap)

FunctionCandidates(supplied, harvested) ==
  LET rest == Rest(supplied, harvested)
      room == FunctionCap - Len(supplied)
  IN  IF Len(supplied) >= FunctionCap THEN First(supplied, FunctionCap)
      ELSE IF Len(rest) <= room THEN supplied \o rest
      ELSE supplied \o [i \in 1..room |-> rest[((i - 1) * Len(rest)) \div room + 1]]

Dropped(supplied, harvested) ==
  Len(supplied) + Len(Rest(supplied, harvested)) > FunctionCap

\* regionsFor: the default, and the one the database's address names.
Regions == {"default-region", target.region}

Calls == Regions \X Range(FunctionCandidates(opts.supplied, target.harvested))

\* functionPublicFinding and functionPrivateFinding
FunctionFound(c) == Found(target.functions[c], c[2])

\* functionFindings: a name that answers 404 or not at all is no finding; when
\* none answered it is said where they were looked for.
CloudFunctions ==
  /\ pc = "functions"
  /\ \E f \in Failures(IF opts.invoke THEN Calls ELSE {}) :
       LET answered == IF opts.invoke
                         THEN (DOMAIN target.functions \cap Calls) \ DOMAIN f ELSE {}
       IN  /\ Suffer(f)
           /\ Say({FunctionFound(c) : c \in answered}
                    \cup (IF answered = {} THEN {NotAssessed("functions")} ELSE {})
                    \cup (IF opts.invoke /\ Dropped(opts.supplied, target.harvested)
                            THEN {Found("budget", "functions")} ELSE {}))
  /\ pc' = "config"
  /\ UNCHANGED <<scan, footprint, work>>

\* remoteConfigFinding: names, never values.
ConfigSecret == Found("config-secret", "config")

\* remoteConfigFindings, and what a missing key kept from being asked.
RemoteConfig ==
  /\ pc = "config"
  /\ \E f \in IF target.key /\ target.appId THEN One("config") ELSE Failures({}) :
       /\ Suffer(f)
       /\ Say((IF ~target.key \/ ~target.appId \/ ~Fine(f) THEN {NotAssessed("config")}
               ELSE IF target.config = "secret" THEN {ConfigSecret} ELSE {})
              \cup IF target.key THEN {} ELSE {NotAssessed("keyed surfaces")})
  /\ pc' = "auth"
  /\ UNCHANGED <<scan, footprint, work>>
-----------------------------------------------------------------------------
\* authFindings; the requests that make up a sign-in are module Account's.  An
\* account is kept for the next scan, and under -no-residue is to be removed.
\* Under it a lost reply is not made up for by signing in afterwards.
Denied(f) ==
  \/ ~target.signup /\ ~target.account
  \/ opts.noResidue /\ ~Fine(f)

\* openSignupFinding and anonymousSignInFinding
OpenSignup == Found("open-signup", "account")
AnonymousSignin == Found("anonymous-signin", "visitor")

\* Mutant: a key is enough.
KeyIsEnough == target.key

MaySignUp == target.key /\ opts.write

SignIn ==
  /\ pc = "auth" /\ MaySignUp
  /\ \E f \in One("signUp") :
       /\ Suffer(f)
       /\ \/ /\ target.signup \/ target.account
             /\ Say({OpenSignup})
             /\ session' = IF target.account \/ ~opts.noResidue THEN "kept" ELSE "fresh"
             /\ IF target.account THEN NothingCreated ELSE Creates(ProbeAccount)
          \/ /\ Denied(f)
             /\ Say({})
             /\ session' = "none"
             /\ IF target.signup /\ ~target.account /\ IsLost(f, "signUp")
                  THEN MayHaveCreated(ProbeAccount) ELSE NothingCreated
  /\ pc' = "visitor"
  /\ UNCHANGED <<scan, asked, todo>>

NoAccounts ==
  /\ pc = "auth" /\ ~MaySignUp
  /\ Say(IF target.key THEN {NotAssessed("signup")} ELSE {})
  /\ pc' = "done"
  /\ UNCHANGED <<scan, footprint, work, faults>>

\* anonymousSignInEnabled: a session for no credentials, removed at once.
AskVisitor ==
  /\ pc = "visitor" /\ Visitor \notin held
  /\ \E f \in One("anonymous") :
       /\ Suffer(f)
       /\ IF target.visitors /\ Fine(f)
            THEN Creates(Visitor) /\ pc' = pc
            ELSE /\ pc' = "escalate"
                 /\ IF target.visitors /\ IsLost(f, "anonymous")
                      THEN MayHaveCreated(Visitor) ELSE NothingCreated
  /\ UNCHANGED <<scan, work, report>>

\* deleteAccount, with the session of the account itself.
Discards(x, says, next) ==
  /\ \E f \in One("delete") :
       LET gone == target.removable /\ Fine(f)
           more == says \cup IF gone THEN {} ELSE Residue(x)
       IN  /\ Suffer(f)
           /\ Say(more)
           /\ IF gone THEN Removes(x) ELSE GivesUp({x}, more, f)
  /\ pc' = next
  /\ UNCHANGED <<scan, work>>

RemoveVisitor ==
  /\ pc = "visitor" /\ Visitor \in held
  /\ Discards(Visitor, {AnonymousSignin}, "escalate")

\* escalationFinding
MemberRead(n) == Found("member-read", n)

\* escalationFindings: every candidate that was not readable before.
Escalate ==
  /\ pc = "escalate"
  /\ LET names == IF session = "none" THEN <<>>
                  ELSE Only(target.names,
                            {n \in Range(target.names) : ~Reported("firestore-read", n)})
     IN  \E f \in Failures(Range(names)) :
           /\ DOMAIN f \subseteq Tried(names, f)
           /\ Suffer(f)
           /\ Say({MemberRead(n) : n \in Readable(names, f, "member")})
  /\ pc' = "finish"
  /\ UNCHANGED <<scan, footprint, work>>

\* finishSession: only the account of this run, and only if not to be kept.
Finish ==
  /\ pc = "finish" /\ session = "fresh"
  /\ Discards(ProbeAccount, {}, "done")

KeepAccount ==
  /\ pc = "finish" /\ session # "fresh"
  /\ pc' = "done"
  /\ UNCHANGED <<scan, footprint, work, faults, report>>

FirebaseStep ==
  \/ Firestore \/ RealtimeDatabase
  \/ NoWrites \/ CreateProbe \/ RemoveProbe \/ WritesDone
  \/ Storage \/ CloudFunctions \/ RemoteConfig
  \/ SignIn \/ NoAccounts \/ AskVisitor \/ RemoveVisitor
  \/ Escalate \/ Finish \/ KeepAccount
===============================================================================
