------------------------------- MODULE Surface -------------------------------
(***************************************************************************)
(* surface.Run: the services beside PostgREST.  GoTrue's settings are      *)
(* read, buckets are listed and asked for by name, every public one is     *)
(* offered an object under -write, and Edge Functions are called under     *)
(* -invoke.  The routines of the default schema follow.                    *)
(***************************************************************************)
EXTENDS Routines

CONSTANTS BucketSeeds, FunctionSeeds

\* Buckets are what a storage host serves.
ASSUME SurfaceAssumption ==
  /\ IsFiniteSet(BucketSeeds) /\ IsFiniteSet(FunctionSeeds)
  /\ \A t \in Targets :
       t.storage.host # "storage" => DOMAIN t.storage.buckets = {}

VARIABLES
  storageOK,  \* storage was listed, or a bucket found by name
  buckets,    \* the buckets in the result
  public,     \* public ones to look into; the one being written to is first
  writing,    \* the bucket that is offered an object, or none
  stored,     \* the object came back
  objects,    \* the scan's objects on the target
  uploads     \* history: buckets that were offered an object

surfaceVars == <<storageOK, buckets, public, writing, stored, objects, uploads>>

None == "none"
Storage == target.storage
Exposed(b) == b \in DOMAIN Storage.buckets /\ Storage.buckets[b].public

One(request) == Failures({request})
Fine(f) == DOMAIN f = {}

-----------------------------------------------------------------------------
\* A body without one of GoTrue's keys is not GoTrue's.
AuthFinding ==
  IF target.auth.open THEN {Found("open-signup", "auth")} ELSE {}

AnonymousSignInFinding ==
  IF target.auth.anonymous THEN {Found("anonymous-signin", "auth")} ELSE {}

Recognised == target.auth.up

FetchAuth ==
  /\ pc = "auth"
  /\ \E f \in One("settings") :
       /\ Suffer(f)
       /\ Say(IF Fine(f) /\ Recognised THEN AuthFinding \cup AnonymousSignInFinding
           ELSE {NotAssessed("auth")})
  /\ pc' = "list"
  /\ UNCHANGED <<scanVars, routineVars, surfaceVars>>

-----------------------------------------------------------------------------
\* fetchBuckets, then postgrestClaimedStoragePath if that said nothing

\* The anonymous role may see no bucket in the list.
Listed == IF Storage.listed THEN DOMAIN Storage.buckets ELSE {}

ListBuckets ==
  /\ pc = "list"
  /\ \E f \in One("list") :
       /\ Suffer(f)
       /\ storageOK' = (Fine(f) /\ Storage.host = "storage")
       /\ buckets' = IF storageOK' THEN Listed ELSE {}
       /\ pc' = IF storageOK' THEN "names" ELSE "claim"
  /\ UNCHANGED <<scanVars, routineVars, public, writing, stored, objects, uploads,
                 report>>

ClaimStorage ==
  /\ pc = "claim"
  /\ \E f \in One("claim") :
       /\ Suffer(f)
       /\ pc' = IF Fine(f) /\ Storage.host = "postgrest" THEN "buckets" ELSE "names"
  /\ UNCHANGED <<scanVars, routineVars, surfaceVars, report>>

\* What the storage host says of a name: "yes", "no", or neither.
Answer(b) ==
  CASE Storage.host = "catchAll" -> "yes"
    [] Storage.host = "foreign"  -> "unknown"
    [] OTHER                     -> IF Exposed(b) THEN "yes" ELSE "no"

State(b, f) == IF b \in DOMAIN f THEN "unknown" ELSE Answer(b)

\* Mutant: names without a usable answer are taken for absent.
NothingUnclassified(f) == FALSE

Unclassified(f) == \E b \in BucketSeeds : State(b, f) = "unknown"

\* probeBuckets.  Only a control that is there stops the sweep.
SweepBuckets ==
  /\ pc = "names"
  /\ \E f \in Failures(BucketSeeds \cup {Control}) :
       /\ Suffer(f)
       /\ IF State(Control, f) = "yes"
          THEN Say({NotAssessed("storage-buckets")}) /\ UNCHANGED <<buckets, storageOK>>
          ELSE LET named == {b \in BucketSeeds : State(b, f) = "yes"} IN
               /\ buckets' = buckets \cup named
               /\ storageOK' = (storageOK \/ named # {})
               /\ Say(IF Unclassified(f) THEN {NotAssessed("storage-buckets")} ELSE {})
  /\ pc' = "buckets"
  /\ UNCHANGED <<scanVars, routineVars, public, writing, stored, objects, uploads>>

\* A listed bucket says whether it is public; one found by name is.
IsPublic(b) == b \in Listed => Exposed(b)

Writes == opts.write /\ ~opts.noResidue

BucketFinding(b) == Found("public-bucket", b)

Buckets ==
  /\ pc = "buckets"
  /\ public' = {b \in buckets : IsPublic(b)}
  /\ Say((IF storageOK THEN {} ELSE {NotAssessed("storage")})
         \cup {BucketFinding(b) : b \in public'})
  /\ pc' = IF Writes THEN "upload" ELSE "functions"
  /\ UNCHANGED <<scanVars, routineVars, storageOK, buckets, writing, stored,
                 objects, uploads, faults>>

-----------------------------------------------------------------------------
\* probeBucketWrite

Accepts(b) == Storage.host = "catchAll" \/ (Exposed(b) /\ Storage.buckets[b].insert)
Keeps(b) == IF Storage.host # "catchAll" /\ Accepts(b) THEN {b} ELSE {}

\* A refusal and a lost reply end it alike.
Upload ==
  /\ pc = "upload" /\ public # {}
  /\ \E b \in public : \E f \in One("upload") :
       /\ Suffer(f)
       /\ uploads' = uploads \cup {b}
       /\ objects' \in {objects \cup Keeps(b)}
                         \cup (IF Fine(f) THEN {} ELSE {objects})
       /\ IF Fine(f) /\ Accepts(b)
          THEN writing' = b /\ pc' = "readBack" /\ UNCHANGED public
          ELSE public' = public \ {b} /\ UNCHANGED <<writing, pc>>
  /\ UNCHANGED <<scanVars, routineVars, storageOK, buckets, stored, report>>

\* Mutant: the upload being accepted is enough.
AcceptedIsStored(f) == Fine(f)

CameBack(f) == Fine(f) /\ writing \in objects

ReadBack ==
  /\ pc = "readBack"
  /\ \E f \in One("readBack") : Suffer(f) /\ stored' = CameBack(f)
  /\ pc' = "remove"
  /\ UNCHANGED <<scanVars, routineVars, storageOK, buckets, public, writing, objects,
                 uploads, report>>

Removes == Storage.host = "catchAll" \/ Storage.buckets[writing].delete

\* Mutant: the residue is mentioned only where nothing else is concluded.
ResidueOtherwise(removed) ==
  IF stored \/ removed THEN {} ELSE {Found("object-left", writing)}

Residue(removed) == IF removed THEN {} ELSE {Found("object-left", writing)}

BucketWriteFinding == IF stored THEN {Found("anon-write", writing)} ELSE {}

RemoveObject ==
  /\ pc = "remove"
  /\ \E f \in One("remove") :
       /\ Suffer(f)
       /\ objects' \in (IF Removes THEN {objects \ {writing}} ELSE {objects})
                         \cup (IF Fine(f) THEN {} ELSE {objects})
       /\ Say(BucketWriteFinding \cup Residue(Fine(f) /\ Removes))
  /\ public' = public \ {writing} /\ writing' = None /\ stored' = FALSE
  /\ pc' = "upload"
  /\ UNCHANGED <<scanVars, routineVars, storageOK, buckets, uploads>>

BucketsOver ==
  /\ pc = "upload" /\ public = {}
  /\ pc' = "functions"
  /\ UNCHANGED <<scanVars, routineVars, surfaceVars, faults, report>>

-----------------------------------------------------------------------------
\* enumerateFunctions

Deployed(n) == IF target.catchAll THEN "open"
               ELSE IF n \in DOMAIN target.functions THEN target.functions[n]
               ELSE "absent"

\* classifyFunction, after a reply: 429 says nothing, 5xx that something ran.
FunctionState(n, f) ==
  IF n \notin DOMAIN f THEN Deployed(n)
  ELSE IF f[n] = "down" THEN "open" ELSE "unresolved"

Unresolved(f) == \E n \in FunctionSeeds : FunctionState(n, f) = "unresolved"

\* Mutant: a control that did not complete is taken for one that passed.
ControlPassesUnlessOpen(f) == FunctionState(Control, f) # "open"

\* A control that did not complete is not a control that passed.
ControlPasses(f) == FunctionState(Control, f) = "absent"

FunctionFinding(n) == Found("function-no-jwt", n)

FunctionsUnresolved(f) ==
  IF Unresolved(f) THEN {NotAssessed("edge-functions")} ELSE {}

EnumerateFunctions ==
  /\ pc = "functions"
  /\ \E f \in Failures(IF opts.invoke THEN FunctionSeeds \cup {Control} ELSE {}) :
       /\ Suffer(f)
       /\ Say(CASE ~opts.invoke -> {}
                [] opts.invoke /\ ~ControlPasses(f) -> {NotAssessed("edge-functions")}
                [] OTHER ->
                     {FunctionFinding(n) : n \in {n \in FunctionSeeds : FunctionState(n, f) = "open"}}
                     \cup FunctionsUnresolved(f))
  /\ pc' = "sweep"
  /\ UNCHANGED <<scanVars, routineVars, surfaceVars>>

SurfaceStep ==
  \/ FetchAuth \/ ListBuckets \/ ClaimStorage \/ SweepBuckets \/ Buckets
  \/ Upload \/ ReadBack \/ RemoveObject \/ BucketsOver \/ EnumerateFunctions
==============================================================================
