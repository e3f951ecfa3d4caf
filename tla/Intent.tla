-------------------------------- MODULE Intent --------------------------------
(***************************************************************************)
(* What access a project intends (internal/intent), compared with what the *)
(* scan measured.  Several interfaces may have measured one resource; what *)
(* nobody measured is unverified, and never a pass.                        *)
(***************************************************************************)
EXTENDS Sample, FiniteSets, Functions

CONSTANTS
  Resources, Subjects,
  Operations,  \* what a manifest may name
  Verbs        \* what the stages call what they measured

Scopes == {"own", "all", "unknown"}

Fact(of, operation, subject, scope, allowed) ==
  [of |-> of, operation |-> operation, subject |-> subject,
   scope |-> scope, allowed |-> allowed]

Observation ==
  [of : Resources, operation : Verbs, subject : Subjects,
   scope : Scopes, allowed : BOOLEAN]

\* An allow may be narrowed to the subject's own rows; a deny has no scope.
Expectation ==
  {e \in [of : Resources, operation : Operations, subject : Subjects,
          scope : {"own", "all", "any"}, allowed : BOOLEAN] :
     ~e.allowed => e.scope = "any"}

About(x, e) ==
  /\ x.of = e.of
  /\ x.operation = e.operation
  /\ x.subject = e.subject
-----------------------------------------------------------------------------
\* Whoever measured more: all rows, then rows of which it is not known whose.
Broader(a, b) ==
  IF "all" \in {a, b} THEN "all"
  ELSE IF "unknown" \in {a, b} THEN "unknown" ELSE "own"

\* Mutant: what was measured last is believed.
LastWins(a, b) == b

\* One way in is enough: a denial elsewhere does not undo it.
Combine(a, b) ==
  CASE a.allowed /\ b.allowed -> [a EXCEPT !.scope = Broader(a.scope, b.scope)]
    [] ~a.allowed /\ b.allowed -> b
    [] OTHER -> a

\* What is known of one resource, measured several times.
Combined(list) ==
  LET upTo[i \in 1..Len(list)] ==
        IF i = 1 THEN list[1] ELSE Combine(upTo[i - 1], list[i])
  IN  upTo[Len(list)]

\* Verify: every expectation has one outcome.  The facts are sorted by what they
\* are about only, and not stably (Observations): any order may come out.
Orders(facts) == {s \in [1..Cardinality(facts) -> facts] : Range(s) = facts}

Outcome(e, list) ==
  LET seen == Only(list, {x \in Range(list) : About(x, e)})
      o == Combined(seen)
  IN  IF seen = <<>> THEN "unverified"
      ELSE IF /\ o.allowed = e.allowed
              /\ e.allowed => e.scope \in {"any", o.scope}
           THEN "matched" ELSE "violated"
===============================================================================
