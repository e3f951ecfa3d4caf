--------------------------- MODULE PostgrestTable ---------------------------
(***************************************************************************)
(* One relation behind PostgREST as the anonymous role meets it: what its  *)
(* policies, grants and constraints make of an INSERT, DELETE, GET and     *)
(* PATCH.  External to the repository; the order of the checks is the one  *)
(* internal/postgrest/classify.go and internal/probe/probe.go rely on.     *)
(***************************************************************************)
EXTENDS Naturals

CONSTANT Base  \* keys and identities up to Base belong to the target

ASSUME BaseAssumption == Base \in Nat

NoKey   == 0   \* SQL NULL
NoCode  == "-"
Keys    == Nat
Row     == [uid : Nat, key : Keys]

\* How a statement is barred: not at all, row by row, or by a missing grant.
Access == {"allow", "filter", "noGrant"}

\* key: supplied by the caller, by a default, or GENERATED ALWAYS; named: it is
\* called id, uuid or pk; wide: there is another non-null column.
Database == [select : BOOLEAN, insert : BOOLEAN, update : Access,
             delete : Access, notNull : BOOLEAN, unique : BOOLEAN,
             key : {"plain", "serial", "always"},
             named : BOOLEAN, wide : BOOLEAN]

Codes == {"428C9", "42501", "23502", "23505"}

\* rows: the representation, or the rows Content-Range counts.
Reply == [kind : {"ok", "error", "none", "throttled"},
          code : Codes \cup {NoCode}, rows : SUBSET Row]
Ok(rs)    == [kind |-> "ok", code |-> NoCode, rows |-> rs]
Error(c)  == [kind |-> "error", code |-> c, rows |-> {}]
NoReply   == [kind |-> "none", code |-> NoCode, rows |-> {}]
Throttled == [kind |-> "throttled", code |-> NoCode, rows |-> {}]

Outcome(reply, rows) == [reply |-> reply, rows |-> rows]

\* NULL equals nothing.
WithKey(rows, k) == {r \in rows : r.key = k /\ k # NoKey}

-----------------------------------------------------------------------------
\* INSERT of the empty object: `u` is the identity a landing row receives.
InsertEmpty(db, rows, u, readBack) ==
  LET new == [uid |-> u, key |-> IF db.key = "plain" THEN NoKey ELSE u] IN
  IF ~db.insert \/ (readBack /\ ~db.select)
    THEN Outcome(Error("42501"), rows)
  ELSE IF db.notNull THEN Outcome(Error("23502"), rows)
  ELSE Outcome(Ok(IF readBack THEN {new} ELSE {}), rows \cup {new})

\* INSERT of a whole row that was read before, asking for the representation.
InsertCopy(db, rows, u, r) ==
  LET new == [uid |-> u, key |-> r.key] IN
  IF db.key = "always" THEN Outcome(Error("428C9"), rows)
  ELSE IF ~db.insert \/ ~db.select THEN Outcome(Error("42501"), rows)
  ELSE IF db.unique /\ WithKey(rows, r.key) # {}
    THEN Outcome(Error("23505"), rows)
  ELSE Outcome(Ok({new}), rows \cup {new})

\* The rows a filtered statement may touch; filtering raises no error.
Candidates(db, access, rows, k) ==
  IF db.select /\ access = "allow" THEN WithKey(rows, k) ELSE {}

DeleteKey(db, rows, k) ==
  IF db.delete = "noGrant" THEN Outcome(Error("42501"), rows)
  ELSE Outcome(Ok({}), rows \ Candidates(db, db.delete, rows, k))

SelectKey(db, rows, k) ==
  IF ~db.select THEN Outcome(Error("42501"), rows)
  ELSE Outcome(Ok(WithKey(rows, k)), rows)

\* PATCH of one column: `column` is "key" or "other", k2 the key's new value.
UpdateKey(db, rows, k, column, k2) ==
  LET hit == Candidates(db, db.update, rows, k) IN
  IF column = "key" /\ db.key = "always" THEN Outcome(Error("428C9"), rows)
  ELSE IF db.update = "noGrant" THEN Outcome(Error("42501"), rows)
  ELSE IF column = "other" THEN Outcome(Ok(hit), rows)
  ELSE IF db.unique /\ hit # {} /\ WithKey(rows \ hit, k2) # {}
    THEN Outcome(Error("23505"), rows)
  ELSE Outcome(Ok(hit), (rows \ hit) \cup {[r EXCEPT !.key = k2] : r \in hit})
=============================================================================
