------------------------------ MODULE MCAssess ------------------------------
\* Projects for Assess: s1 and s2 are pinned seeds, a and b relations of one
\* family, t a truncation of a, g a generic candidate that leads to c.
EXTENDS Assess

Schema(status, masks) ==
  [status |-> status, masks |-> masks,
   hint |-> [n \in {"s1", "t", "g"} |->
               CASE n = "s1" -> "a" [] n = "t" -> "b" [] n = "g" -> "c"],
   stems |-> [n \in {"a"} |-> {"t"}],
   sensitive |-> {"a", "c"}, content |-> {"b", "s2"},
   open |-> [n \in {"b", "s2"} |-> {"insert", "update"}
                 \cup IF n = "s2" THEN {"delete"} ELSE {}],
   graphql |-> {"a", "b"}, pgGraphql |-> "on"]

All(state) == [n \in {"a", "b", "c"} |-> state]

Mixed == [n \in {"a", "b", "c", "s2"} |->
            CASE n = "a" -> "exposed" [] n = "b" -> "exposed"
              [] n = "c" -> "refused" [] n = "s2" -> "empty"]

Open == Schema(All("exposed") @@ ("s2" :> "exposed"), "absent")
Bare == [Schema(<<>>, "absent") EXCEPT !.hint = <<>>, !.pgGraphql = "off"]

Only(s) == "public" :> s
With(s, r) == "public" :> s @@ "reports" :> r

\* A proxy that turns every 404 into a 403, in front of relations whose SELECT
\* is revoked and one of which anyone may insert into.
Proxied ==
  Only([Schema([n \in {"s1", "s2"} |-> "refused"], "denied")
          EXCEPT !.open = [n \in {"s1"} |-> {"insert"}]])

\* An ordinary project, one with everything open, one with nothing, a key the
\* gateway refuses, a router that answers to any name, and a second schema.
OrdinaryTargets ==
  {Only(Schema(Mixed, "absent")), Only(Open), Only(Bare),
   Only(Schema(All("denied"), "denied")), 
   Only([Schema(<<>>, "exposed") EXCEPT !.pgGraphql = "any"]),
   With(Schema(All("empty"), "absent"), Schema(Mixed, "absent")),
   With(Bare, Bare) @@ "graphql_public" :> Bare, Proxied}

\* A DELETE is decided where the INSERT left a row to aim it at.
Verdict(insert, update, delete) ==
  [v \in Verbs |-> CASE v = "insert" -> insert [] v = "update" -> update
                     [] v = "delete" -> delete]

VerdictMenu ==
  {Verdict("blocked", "blocked", "inconclusive"),
   Verdict("reached", "reached", "reached"),
   Verdict("reached", "inconclusive", "blocked"),
   Verdict("reached", "reached", "inconclusive")}
==============================================================================
