------------------------------ MODULE MCWorkloads -----------------------------
\* Small targets of every kind: what differs is what a check has to tell apart.
EXTENDS Workloads, TLC

Rule(read, create, delete) == [read |-> read, create |-> create, delete |-> delete]
Shut == Rule("nobody", FALSE, FALSE)

Project ==
  [kind |-> "firebase", key |-> TRUE, appId |-> TRUE, bucket |-> "open",
   disabled |-> FALSE, rtdb |-> "none", names |-> <<"a", "b", "c">>,
   store |-> ("a" :> Rule("anyone", TRUE, TRUE) @@ "b" :> Rule("member", TRUE, TRUE)
                @@ "c" :> Shut),
   tree |-> [n \in {"a", "b", "c"} |-> Shut],
   earlier |-> {}, harvested |-> <<"f", "g", "h">>, region |-> "default-region",
   functions |-> (<<"default-region", "g">> :> "public-function"),
   config |-> "secret", signup |-> TRUE, account |-> FALSE, visitors |-> TRUE,
   removable |-> TRUE]

FirebaseTargets == {
  Project,
  [Project EXCEPT !.store["a"] = Rule("anyone", TRUE, FALSE),
                  !.store["c"] = Rule("anyone", TRUE, TRUE),
                  !.removable = FALSE],
  [Project EXCEPT !.earlier = {<<"document", "a">>}, !.account = TRUE,
                  !.visitors = FALSE, !.rtdb = "stale", !.bucket = "unnamed"],
  [Project EXCEPT !.rtdb = "here", !.tree["b"] = Rule("anyone", TRUE, FALSE),
                  !.tree["c"] = Rule("anyone", FALSE, FALSE), !.region = "hinted-region",
                  !.functions = (<<"hinted-region", "h">> :> "private-function"),
                  !.config = "none", !.signup = FALSE],
  [Project EXCEPT !.key = FALSE, !.rtdb = "open", !.names = <<>>, !.harvested = <<>>],
  [Project EXCEPT !.disabled = TRUE, !.signup = FALSE]}

Cell(read, insert) == [read |-> read, insert |-> insert]

Api ==
  [kind |-> "neon", token |-> "accepted", order |-> <<"s", "t", "u", "v">>,
   seeds |-> {"s", "u"}, hints |-> {"t"},
   tables |-> ("s" :> Cell("empty", "stored") @@ "t" :> Cell("rows", "constraint")
                 @@ "v" :> Cell("denied", "refused"))]

NeonTargets == {
  Api, [Api EXCEPT !.token = "refused"],
  [Api EXCEPT !.hints = {}, !.seeds = {"t", "v"}],
  [Api EXCEPT !.tables["t"] = Cell("denied", "stored")]}

Instance ==
  [kind |-> "pocketbase", signup |-> TRUE, signin |-> TRUE, account |-> FALSE,
   removable |-> TRUE,
   rules |-> ("users" :> "own" @@ "notes" :> "member" @@ "posts" :> "anyone")]

PocketBaseTargets == {
  Instance, [Instance EXCEPT !.account = TRUE], [Instance EXCEPT !.signin = FALSE],
  [Instance EXCEPT !.removable = FALSE], [Instance EXCEPT !.signup = FALSE]}

\* Two origins in scope and a third one that is only named.
Route(o, leaf) == <<o, "v1", leaf>>
Serves(anyone, member, post, secret, loose) ==
  [anyone |-> anyone, a |-> member, b |-> member, post |-> post,
   secret |-> secret, loose |-> loose]
Page(o, leaf, account) == <<"own", Route(o, leaf), account>>

Application ==
  [kind |-> "application", site |-> "app", badHar |-> FALSE, index |-> {"app"},
   describes |-> {"api"},
   bundles |-> <<{Route("app", "x"), Route("app", "y"), Route("cdn", "x")},
                 {Route("app", "z"), Route("api", "x")}>>,
   har |-> {Route("cdn", "z")}, spec |-> {Route("api", "w")},
   order |-> <<Route("api", "w"), Route("api", "x"), Route("app", "x"),
               Route("app", "y"), Route("app", "z"), Route("cdn", "x"), Route("cdn", "z")>>,
   served |-> (Route("app", "x") :> Serves("refused", "record", "creates", TRUE, {"rewrite"})
                 @@ Route("app", "y") :> Serves("refused", "own", "refused", FALSE, {})
                 @@ Route("app", "z") :> Serves("record", "record", "none", TRUE, {})
                 @@ Route("api", "x") :> Serves("record", "record", "open", TRUE, {})
                 @@ Route("api", "w") :> Serves("hidden", "empty", "none", FALSE, {})),
   long |-> <<>>]

\* A page and a list that are longer than what is kept of them.
LongBodies ==
  Page("app", "y", "a") :> "page" @@ Page("app", "y", "b") :> "page"
    @@ Made(Route("app", "z")) :> "list"

Applications == {
  Application,
  [Application EXCEPT !.badHar = TRUE, !.index = {}, !.spec = {},
                      !.served[Route("app", "x")].loose = {"spelling", "forwarded"},
                      !.served[Route("api", "x")].anyone = "hidden",
                      !.long = LongBodies]}

MCTargets ==
  FirebaseTargets \cup NeonTargets \cup PocketBaseTargets \cup Applications

X == <<"v1", "x">>
A == <<"document", "a">>
B == <<"document", "b">>
MCResources == {X, A, B}

Expect(of, operation, subject, scope, allowed) ==
  [of |-> of, operation |-> operation, subject |-> subject,
   scope |-> scope, allowed |-> allowed]

Flags ==
  [write |-> FALSE, invoke |-> FALSE, noResidue |-> FALSE, bearer |-> FALSE,
   collections |-> 0, supplied |-> <<>>,
   allowed |-> {"api"}, bundles |-> 2, routes |-> 10, bypass |-> 10,
   principals |-> FALSE, intent |-> {}]

MCOptions == {
  Flags,
  [Flags EXCEPT !.bearer = TRUE, !.principals = TRUE,
                !.intent = {Expect(X, "read", "anonymous", "any", FALSE)}],
  [Flags EXCEPT !.write = TRUE, !.bearer = TRUE, !.collections = 1,
                !.routes = 2, !.bypass = 1,
                !.intent = {Expect(A, "insert", "anonymous", "any", FALSE),
                            Expect(B, "read", "authenticated", "all", TRUE)}],
  [Flags EXCEPT !.write = TRUE, !.invoke = TRUE, !.supplied = <<"z", "g">>,
                !.allowed = {}, !.bundles = 1],
  [Flags EXCEPT !.write = TRUE, !.noResidue = TRUE, !.bearer = TRUE,
                !.invoke = TRUE, !.supplied = <<"x", "y", "z">>,
                !.intent = {Expect(X, "read", "anonymous", "own", TRUE)}]}
===============================================================================
