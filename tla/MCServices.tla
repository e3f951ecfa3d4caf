------------------------------ MODULE MCServices ------------------------------
\* Projects for Services.  What is asked for is a pair: a seed and the cut that
\* was made of it, 9 for a name that is whole.
EXTENDS Services, TLC

Whole(n) == <<n, 9>>

R(near, run, get, executor, wellKnown, sql) ==
  [near |-> near, run |-> run, get |-> get, executor |-> executor,
   wellKnown |-> wellKnown, sql |-> sql]

SnakeSeeds == <<"s1", "s2">>
PlainSeeds == <<"p1">>
Composed == {Whole("g1")}

\* One routine near a seed that only the full list of candidates reaches, one
\* that answers to its own name, one that runs SQL and one that echoes it.
Ordinary ==
  (Whole("r1") :> R({<<"p1", 0>>}, "rows", "ok", FALSE, FALSE, "none"))
  @@ (Whole("g1") :> R({}, "args", "writes", FALSE, FALSE, "none"))
  @@ (Whole("exec") :> R({}, "void", "ok", TRUE, TRUE, "primary"))
  @@ (Whole("query") :> R({<<"s2", 2>>}, "denied", "ok", TRUE, FALSE, "echoed"))

Direct == Whole("g1") :> R({<<"s1", 1>>}, "void", "ok", TRUE, FALSE, "secondary")

Bucket(pub, insert, delete) == [public |-> pub, insert |-> insert, delete |-> delete]

Store(host, listed, bs) == [host |-> host, listed |-> listed, buckets |-> bs]
SomeBuckets == ("b1" :> Bucket(TRUE, TRUE, FALSE)) @@ ("b2" :> Bucket(TRUE, FALSE, FALSE))
ListedBuckets == ("b1" :> Bucket(FALSE, TRUE, TRUE)) @@ ("b3" :> Bucket(TRUE, TRUE, TRUE))

Channel(up, acksAll, streams) ==
  [up |-> up, acksAll |-> acksAll, relations |-> {"t1", "t2"},
   writable |-> {"t1", "t2"}, readable |-> {"t1"}, streams |-> streams]

Quiet == [Channel(FALSE, FALSE, {}) EXCEPT !.relations = {}, !.writable = {}]

Base ==
  [routines |-> "public" :> Ordinary, catchAll |-> FALSE,
   auth |-> [up |-> TRUE, open |-> TRUE, anonymous |-> FALSE],
   storage |-> Store("storage", FALSE, SomeBuckets),
   functions |-> ("f1" :> "open") @@ ("f2" :> "jwt"),
   realtime |-> "public" :> Quiet]

\* A router that answers 200 to whatever is asked.
CatchAll ==
  [Base EXCEPT !.routines = "public" :> <<>>, !.catchAll = TRUE,
               !.auth = [up |-> FALSE, open |-> FALSE, anonymous |-> FALSE],
               !.storage = Store("catchAll", FALSE, <<>>), !.functions = <<>>]

Schemata(rs) ==
  [Base EXCEPT !.routines = rs, !.realtime = [s \in DOMAIN rs |-> Quiet],
               !.auth = [up |-> TRUE, open |-> FALSE, anonymous |-> TRUE],
               !.storage = Store("postgrest", FALSE, <<>>), !.functions = <<>>]

Streaming(c) == [Schemata("public" :> <<>>) EXCEPT !.realtime = "public" :> c]

MCTargets ==
  {Base, CatchAll,
   [Base EXCEPT !.storage = Store("storage", TRUE, ListedBuckets)],
   [Base EXCEPT !.storage = Store("foreign", FALSE, <<>>)],
   Schemata("public" :> Direct @@ "a" :> Ordinary @@ "b" :> Direct),
   Schemata("public" :> Ordinary @@ "a" :> <<>>),
   [Schemata("public" :> <<>> @@ "a" :> <<>>) EXCEPT
      !.realtime = "public" :> Channel(TRUE, TRUE, {"t2"})
                   @@ "a" :> Channel(TRUE, FALSE, {"t2"})]}
  \cup {Streaming(Channel(TRUE, a, s)) : a \in BOOLEAN, s \in SUBSET {"t1", "t2"}}
  \cup {Streaming(Channel(FALSE, FALSE, {"t1"}))}

Flags(write, invoke, noResidue, maxRPC) ==
  [write |-> write, invoke |-> invoke, noResidue |-> noResidue, maxRPC |-> maxRPC]

MCOptions ==
  {Flags(FALSE, FALSE, FALSE, 100), Flags(TRUE, TRUE, FALSE, 7),
   Flags(TRUE, TRUE, FALSE, 17), Flags(TRUE, FALSE, TRUE, 1)}
===============================================================================
