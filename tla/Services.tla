------------------------------- MODULE Services -------------------------------
(***************************************************************************)
(* The stages of a Supabase scan beyond its relations, in their order: the *)
(* routines of every other schema, the services and the routines of the    *)
(* default one, and the Realtime sessions.  They share one report, and the *)
(* routine sweeps share two budgets.                                       *)
(***************************************************************************)
EXTENDS Surface, Realtime

vars == <<scanVars, pc, routineVars, surfaceVars, realtimeVars, faults, report>>

Init ==
  /\ target \in Targets /\ opts \in Options
  /\ schema \in DOMAIN target.routines
  /\ IF DOMAIN target.routines = {Default} THEN pc = "auth" /\ schema = Default
     ELSE pc = "sweep" /\ schema # Default
  /\ todo = DOMAIN target.routines \ {Default, schema}
  /\ rpc = NewBudget(opts.maxRPC) /\ extra = HalfForExtra(opts.maxRPC)
  /\ asked = [s \in DOMAIN target.routines |-> 0]
  /\ known = [s \in DOMAIN target.routines |-> {}]
  /\ verdict = [s \in DOMAIN target.routines |-> <<>>]
  /\ storageOK = FALSE /\ buckets = {} /\ public = {} /\ writing = None
  /\ stored = FALSE /\ objects = {} /\ uploads = {}
  /\ RealtimeInit
  /\ faults = {} /\ report = {}

Next ==
  \/ (SweepRoutines \/ CallRoutines \/ AskForSQL) /\ UNCHANGED <<surfaceVars, realtimeVars>>
  \/ SurfaceStep /\ UNCHANGED realtimeVars
  \/ RealtimeStep /\ UNCHANGED surfaceVars

Spec == Init /\ [][Next]_vars

\* The stages run one after the other and every wait of theirs is bounded.
FairSpec == Spec /\ WF_vars(Next)
-----------------------------------------------------------------------------
Done == pc = "done"
Reported(id, of) == \E f \in report : f.id = id /\ f.of = of
Declared(service) == Reported("not-assessed", service)
Failed(request) == \E f \in faults : f[3] = request
NothingFailed == faults = {}

TypeOK ==
  /\ target \in Targets /\ opts \in Options
  /\ schema \in Schemas /\ todo \subseteq Schemas
  /\ extra \in Nat /\ rpc \in Nat /\ extra <= rpc
  /\ \A s \in Schemas : known[s] \subseteq DOMAIN target.routines[s]
                                              \cup Guesses
  /\ objects \subseteq uploads
  /\ socket \in {"closed", "open", "expired"}
  /\ Cardinality(faults) <= MaxFaults

\* Whatever is exposed by a service that was asked is in the report, or the
\* service is: settings that did not arrive, a list of buckets that was refused
\* and names that could not be classified, functions behind a rate limit.
NothingIsSilent ==
  Done =>
    /\ \/ Declared("auth")
       \/ /\ target.auth.open => Reported("open-signup", "auth")
          /\ target.auth.anonymous => Reported("anonymous-signin", "auth")
    /\ \A b \in BucketSeeds : Exposed(b) =>
         \/ Reported("public-bucket", b)
         \/ Declared("storage") \/ Declared("storage-buckets")
    /\ \A n \in FunctionSeeds : opts.invoke /\ Deployed(n) = "open" =>
         Reported("function-no-jwt", n) \/ Declared("edge-functions")

\* Nothing is reported that the project does not have, also behind a router
\* that answers to every name, as long as the controls were answered and no
\* gateway failed.
NothingIsInvented ==
  \A f \in report :
    CASE f.id = "public-bucket" -> Exposed(f.of) \/ Failed(Control)
      [] f.id = "function-no-jwt" ->
           \/ ~target.catchAll /\ f.of \in DOMAIN target.functions
                               /\ target.functions[f.of] = "open"
           \/ \E x \in faults : x[4] = "down"
      [] f.id \in {"unknown", "denied", "callable", "returns-data"} ->
           f.of \in DOMAIN target.routines[f.schema]
      [] f.id = "arbitrary-sql" ->
           target.routines[f.schema][f.of].sql \notin {"none", "echoed"}
      [] f.id \in {"open-signup", "anonymous-signin"} -> target.auth.up
      [] OTHER -> TRUE

\* A routine that some near miss of a known word would have disclosed is
\* disclosed, in whatever schema it is, or the report says that the candidates
\* were cut short, unless a reply was lost.
CutRoutineIsDeclared ==
  \A s \in Schemas : Done /\ NothingFailed =>
    \A r \in DOMAIN target.routines[s] :
      target.routines[s][r].near
        \cap Range(RoutineCandidates(Cuts * (Len(Snake) + Len(Plain)) + 1)) # {}
      => r \in known[s] \/ Reported("budget", "routine-discovery")

\* What the schemas swept first may spend leaves the default schema half.
DefaultKeepsHalf ==
  pc = "sweep" /\ schema = Default => 2 * rpc >= NewBudget(opts.maxRPC)

\* "Callable" and "not granted" are verdicts of the target, unless it was
\* turning requests away; a routine that wants arguments gets neither.
VerdictIsMeasured ==
  \A s \in Schemas : \A r \in DOMAIN verdict[s] :
    LET run == target.routines[s][r].run IN
    /\ verdict[s][r] = "denied" => run = "denied"
    /\ verdict[s][r] = "callable" =>
         run \in {"void", "rows"} \/ \E f \in faults : f[3] = r /\ f[4] # "lost"

\* An object of the scan's that is still in a bucket when the services are done
\* is in the report, unless the upload got no reply, and nothing is offered
\* without -write or under -no-residue.
ObjectIsReported ==
  /\ pc \notin {"readBack", "remove"} =>
       \A b \in objects : Reported("object-left", b) \/ Failed("upload")
  /\ uploads # {} => opts.write /\ ~opts.noResidue

\* A bucket is called writable when a stranger's object is served from it, and
\* not because something answers every request with 200.
AnonWriteIsReal ==
  \A b \in BucketSeeds : Reported("anon-write", b) =>
    Storage.host = "storage" /\ Storage.buckets[b].insert /\ Exposed(b)

\* A subscription is called a stream only where acknowledgements discriminate:
\* a control that gets no reply takes every later one with it.
StreamIsReal ==
  \A f \in report : f.id \in {"streams", "streams-hidden", "delivers"} =>
    \/ f.of \in target.realtime[f.schema].streams
    \/ \E x \in faults : x[3] = Control /\ x[4] = "garbled"

\* Changes that were caused and none of which arrived do not read as a clean
\* surface, nor does a socket that could not be opened.
QuietIsDeclared ==
  Done =>
    LET d == sessions[Default] IN
    d.delivered = {} /\ (~d.reachable \/ d.tested # {})
      => Declared("realtime-delivery")

\* What the services' stages report is so: a bucket, a function, a routine and
\* its verdict, a write by a stranger, a stream.
ServicesAreSound ==
  /\ TypeOK
  /\ NothingIsInvented
  /\ VerdictIsMeasured
  /\ AnonWriteIsReal
  /\ StreamIsReal

\* What they do not report they own up to: a service that was not heard, names
\* that a budget cut, an object that stayed, a change that did not arrive.
ServicesAreComplete ==
  /\ NothingIsSilent
  /\ CutRoutineIsDeclared
  /\ DefaultKeepsHalf
  /\ ObjectIsReported
  /\ QuietIsDeclared

\* Every stage ends, however the socket and the services fail.
ServicesEnd == <>Done

\* Not so: the scan sends no more candidates than -max-rpc-probes.  A sweep that
\* was not cut short is charged nothing, and a budget of nothing left reads as
\* no budget at all.
RoutineBudgetHolds ==
  MapThenSumSet(LAMBDA s : asked[s], Schemas) <= opts.maxRPC

\* Not so: where another relation's change arrived, one that was written to and
\* did not arrive had been listened to.
NegativeIsMeasured ==
  Done => LET d == sessions[Default] IN
          d.delivered # {} => d.tested \ d.delivered \subseteq d.listening
==============================================================================
