-------------------------------- MODULE Routes --------------------------------
(***************************************************************************)
(* The application's own endpoints (routes.Run): what its bundles, runtime *)
(* captures and specifications name, asked on the origins the operator put *)
(* in scope; what was refused is asked in other ways and as two accounts,  *)
(* and each of these answers is held against a control.                    *)
(*                                                                         *)
(* A route is an origin, a parent path and a leaf.                         *)
(***************************************************************************)
EXTENDS Workload

Methods == {"GET", "POST"}
Variants == {"rewrite", "forwarded", "spelling", "method"}

Origin(r) == r[1]
Parent(r) == <<r[1], r[2]>>
Leaf(r) == r[3]
PathOf(r) == <<r[2], r[3]>>
Made(r) == <<"record", r>>

\* What is kept of a body and looked at: its first 300 bytes (truncate).  Of a
\* longer one, target.long says how it begins; two of them may begin alike.
Snippet(body) ==
  IF body \in DOMAIN target.long THEN <<"head", target.long[body]>> ELSE body

Answer(code, body) == [code |-> code, body |-> Snippet(body)]
NoAnswer == Answer(0, <<"nothing">>)
NotNow == Answer(429, <<"later">>)

\* A reply, or what stands in for one that failed.
Reply(f, r, reply) ==
  IF IsLost(f, r) THEN NoAnswer ELSE IF Refuses(f, r) THEN NotNow ELSE reply

\* An application that answers any path with its index page.
Missing(o) ==
  IF o \in target.index THEN Answer(200, <<"index">>) ELSE Answer(404, <<"refusal">>)

Served(r, caller) ==
  IF r \notin DOMAIN target.served THEN Missing(Origin(r))
  ELSE CASE target.served[r][caller] = "record"  -> Answer(200, <<"record", r>>)
         [] target.served[r][caller] = "own"     -> Answer(200, <<"own", r, caller>>)
         [] target.served[r][caller] = "empty"   -> Answer(200, <<"empty">>)
         [] target.served[r][caller] = "refused" -> Answer(401, <<"refusal">>)
         [] target.served[r][caller] = "hidden"  -> Answer(404, <<"refusal">>)

Posted(r) ==
  IF r \notin DOMAIN target.served THEN Answer(405, <<"refusal">>)
  ELSE CASE target.served[r].post = "none"    -> Answer(405, <<"refusal">>)
         [] target.served[r].post = "refused" -> Answer(401, <<"refusal">>)
         [] target.served[r].post = "open"    -> Answer(200, <<"record", r>>)
         [] target.served[r].post = "creates" -> Answer(201, <<"created">>)
-----------------------------------------------------------------------------
\* noteOrigins: discovery names hosts, and only the operator puts one in scope.
Scope == {target.site} \cup opts.allowed

\* Mutant: a host the application names is in scope.
AnyOrigin(refs) == refs

\* filterRefs
InScope(refs) == {r \in refs : Origin(r) \in Scope}

\* discoverPaths: without the entry page nothing is read, and only as many
\* bundles as the operator allows; a reply without the file names nothing.
FromBundles(f) ==
  IF <<"home">> \in DOMAIN f THEN {}
  ELSE UNION {target.bundles[i] : i \in
         {j \in 1..Lesser(Len(target.bundles), opts.bundles) : <<"bundle", j>> \notin DOMAIN f}}

\* discoverSpecs: each origin in scope is asked for what it publishes.
Published(f) ==
  {r \in target.spec : Origin(r) \in Scope /\ <<"spec", Origin(r)>> \notin DOMAIN f}

\* Mutant: the budget is used up in order.
InOrder(refs, max) == Range(First(refs, max))

\* fairTargets, fairRefusedRoutes: one route of each origin, then a second.
Round(refs, i) == Cardinality({j \in 1..i : Origin(refs[j]) = Origin(refs[i])})

Sooner(refs, i, j) ==
  \/ Round(refs, i) < Round(refs, j)
  \/ Round(refs, i) = Round(refs, j) /\ i < j

Turn(refs, i) == Cardinality({j \in DOMAIN refs : j = i \/ Sooner(refs, j, i)})

FairTargets(refs, max) ==
  {refs[i] : i \in {j \in DOMAIN refs : Turn(refs, j) <= max}}

InTurn(refs) == Only(target.order, refs)

\* Mutant: what was left out is not mentioned.
SilentCut(flag, kept, all) == {}

\* routeBudgetFinding
Cut(flag, kept, all) ==
  IF Cardinality(kept) < Cardinality(all) THEN {Found("budget", flag)} ELSE {}

Inventory ==
  /\ pc = "inventory"
  /\ \E f \in Failures({<<"home">>} \cup ({"bundle"} \X DOMAIN target.bundles)
                          \cup ({"spec"} \X Scope)) :
       LET refs  == InScope(FromBundles(f) \cup target.har) \cup Published(f)
           picks == FairTargets(InTurn(refs), opts.routes)
       IN  /\ Suffer(f)
           /\ asked' = refs
           /\ todo' = InTurn(picks)
           /\ Say({Found("specification", Origin(r)) : r \in Published(f)}
                    \cup (IF target.badHar THEN {NotAssessed("har")} ELSE {})
                    \cup Cut("-max-routes", picks, refs))
  /\ pc' = "routes"
  /\ UNCHANGED <<scan, footprint, session>>
-----------------------------------------------------------------------------
\* Mutant: -no-residue does not withdraw it.
ConsentOnly == opts.write

\* A POST may create something in a system the scan knows nothing about.
AllowPOST == opts.write /\ ~opts.noResidue

\* An answer that creates is not read for what it created.
Probe ==
  /\ pc = "routes"
  /\ \E f \in Failures(Range(todo) \X (IF AllowPOST THEN Methods ELSE {"GET"})) :
       /\ Suffer(f)
       /\ left' = left \cup
            {Made(r) : r \in {x \in Range(todo) :
               /\ AllowPOST /\ Posted(x).code = 201
               /\ ~Refuses(f, <<x, "POST">>)}}
  /\ pc' = "bypass"
  /\ UNCHANGED <<scan, held, named, work, report>>

\* What a route answered to a caller without credentials.
Failure(r, method) ==
  {x[3] : x \in {y \in faults : y[1] = "routes" /\ y[2] = <<r, method>>}}

Got(r, method) ==
  IF "lost" \in Failure(r, method) THEN NoAnswer
  ELSE IF "throttled" \in Failure(r, method) THEN NotNow
  ELSE IF method = "GET" THEN Served(r, "anyone") ELSE Posted(r)

Refused(reply) == reply.code \in {401, 403, 404}
-----------------------------------------------------------------------------
\* bypassVariants: "/" with the path in a header, the path with a header that
\* is trusted, another spelling of the path, another method.
Varied(r, v) ==
  IF r \in DOMAIN target.served /\ v \in target.served[r].loose
  THEN Answer(200, <<"record", r>>)
  ELSE CASE v = "rewrite"   -> Answer(200, <<"home">>)
         [] v = "forwarded" -> Served(r, "anyone")
         [] v = "spelling"  -> Missing(Origin(r))
         [] v = "method"    ->
              IF Origin(r) \in target.describes THEN Answer(200, <<"GET,HEAD">>)
              ELSE Answer(405, <<"nothing">>)

\* Two controls for an origin: its root, and a path that nothing serves.
RootOf(f, o) == Reply(f, <<<<o>>, "root">>, Answer(200, <<"home">>))
CatchAll(f, o) == Reply(f, <<<<o>>, "catch-all">>, Missing(o))

\* The same request without the header.
OwnControl(f, r, v) ==
  CASE v = "rewrite"   -> {RootOf(f, Origin(r))}
    [] v = "forwarded" -> {Got(r, "GET")}
    [] OTHER           -> {}

\* Mutant: a 200 is enough.
Status200(f, r, v) == Reply(f, <<r, v>>, Varied(r, v)).code = 200

\* bypassFindings: what was refused is served, and it is not the answer to
\* something else.
Bypasses(f, r, v) ==
  LET got == Reply(f, <<r, v>>, Varied(r, v))
  IN  /\ Refused(Got(r, "GET"))
      /\ v = "spelling" => CatchAll(f, Origin(r)).code # 200
      /\ got # CatchAll(f, Origin(r))
      /\ got.code = 200
      /\ got.body \notin {<<"nothing">>, Got(r, "GET").body}
      /\ got \notin OwnControl(f, r, v)

RefusedRoutes == {r \in Range(todo) : Refused(Got(r, "GET"))}

Bypass ==
  /\ pc = "bypass"
  /\ \E picks \in {FairTargets(InTurn(RefusedRoutes), opts.bypass)} :
       \E f \in Failures((picks \X Variants)
                     \cup ({<<Origin(r)>> : r \in picks} \X {"root", "catch-all"})) :
           /\ Suffer(f)
           /\ Say({Found("bypass", x) : x \in
                     {y \in picks \X Variants : Bypasses(f, y[1], y[2])}}
                    \cup Cut("-max-bypass-routes", picks, RefusedRoutes))
  /\ pc' = "identities"
  /\ UNCHANGED <<scan, footprint, work>>
-----------------------------------------------------------------------------
\* Mutant: two answers are compared by their status.
BothSignedIn(anon, a, b) == a.code = 200 /\ b.code = 200

\* Mutant: an empty answer is one that two accounts share.
SameForBoth(anon, a, b) ==
  /\ a.code = 200
  /\ ~(anon.code = 200 /\ anon.body = a.body)
  /\ b = a

\* crossIdentity: one account gets a body, another one that begins the same,
\* and a caller without credentials does not.
CrossIdentity(anon, a, b) ==
  /\ a.code = 200 /\ a.body # <<"empty">>
  /\ ~(anon.code = 200 /\ anon.body = a.body)
  /\ b = a

\* The second account is asked for what the first one got.
Identities ==
  /\ pc = "identities"
  /\ LET routes == IF opts.principals THEN {r \in Range(todo) : Got(r, "GET").code # 200}
                   ELSE {}
     IN  \E f \in Failures(routes \X {"a", "b"}) :
           LET As(x, account) == Reply(f, <<x, account>>, Served(x, account))
           IN  /\ \A x \in routes : <<x, "b">> \in DOMAIN f => As(x, "a").code = 200
               /\ Suffer(f)
               /\ Say({Found("cross-identity", r) : r \in {x \in routes :
                         CrossIdentity(Got(x, "GET"), As(x, "a"), As(x, "b"))}})
  /\ pc' = "families"
  /\ UNCHANGED <<scan, footprint, work>>

\* standaloneExposure: what was served is worth protecting.  classifyBody
\* decodes what was kept of it, and what was cut is no JSON any more.
Exposes(r) ==
  /\ Got(r, "GET").code = 200
  /\ Got(r, "GET").body[1] \in {"record", "own"}
  /\ target.served[r].secret

\* groupIntoFamilies: siblings of one origin, method by method.
Protected(r, m) ==
  {s \in Range(todo) : Parent(s) = Parent(r) /\ Got(s, m).code \in {401, 403}}

\* inconsistencyFinding, which a page whose job is to be public does not get.
Inconsistent(r, m) ==
  /\ Got(r, m).code = 200
  /\ Leaf(r) # "health"
  /\ Cardinality(Protected(r, m)) >= 2

Families ==
  /\ pc = "families"
  /\ Say({Found("exposure", r) : r \in {x \in Range(todo) : Exposes(x)}}
           \cup {Found("inconsistent", x) :
                   x \in {y \in Range(todo) \X Methods :
                            Inconsistent(y[1], y[2]) /\ (y[2] = "POST" => AllowPOST)}})
  /\ pc' = "done"
  /\ UNCHANGED <<scan, footprint, work, faults>>

RoutesStep == Inventory \/ Probe \/ Bypass \/ Identities \/ Families
===============================================================================
