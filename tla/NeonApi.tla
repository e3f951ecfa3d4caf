-------------------------------- MODULE NeonApi -------------------------------
(***************************************************************************)
(* The stages of a Neon Data API: a token decides whether there is an      *)
(* answer at all, so every stage has to tell what it saw from what it was  *)
(* refused.  Reads come before the write, which removes nothing.           *)
(***************************************************************************)
EXTENDS Workload

CONSTANT ReachSample   \* reachSampleSize: how many names Reach compares

ASSUME NeonAssumption == ReachSample \in Nat \ {0}

Row(t) == <<"row", t>>
Token == IF ~opts.bearer THEN "none" ELSE target.token
Table(n) == target.tables[n]
Exists(n) == n \in DOMAIN target.tables

-----------------------------------------------------------------------------
Sorted(names) == Only(target.order, names)

\* Mutant: the write comes before the reads.
WriteFirst(stage) ==
  CASE stage = "enumerate" -> "insert"
    [] stage = "insert"    -> "reach"
    [] stage = "reach"     -> IF opts.bearer THEN "compare" ELSE "done"
    [] stage = "compare"   -> "done"

\* neon.Stages: in this order, and without a token only the one.
StageAfter(stage) ==
  CASE stage = "enumerate" -> "reach"
    [] stage = "reach"     -> IF opts.bearer THEN "compare" ELSE "done"
    [] stage = "compare"   -> "insert"
    [] stage = "insert"    -> "done"

\* Mutant: what the hints named is reported, and not handed on.
SeedsOnly(seeds, hinted) == seeds

Handed(seeds, hinted) == seeds \cup hinted

\* enumerate.Run: what the hints name is handed on with the seeds (Relations).
Enumeration ==
  /\ pc = "enumerate"
  /\ \E f \in One("hints") :
       LET hinted == IF Token = "accepted" /\ Fine(f) THEN target.hints ELSE {}
           names  == Handed(target.seeds, hinted)
       IN  /\ Suffer(f)
           /\ asked' = names
           /\ todo' = Sorted(names)
           /\ Say(IF hinted = {} THEN {NotAssessed("relations")}
                  ELSE {Found("relation", n) : n \in hinted})
  /\ pc' = StageAfter(pc)
  /\ UNCHANGED <<scan, footprint, session>>

\* Without that stage the names are the seeds.
Relations == Sorted(IF opts.bearer THEN asked ELSE target.seeds)

\* ReachStage.probe: a lost reply has status 0.
Status(n, f) ==
  IF n \in DOMAIN f THEN IF IsLost(f, n) THEN 0 ELSE 429
  ELSE IF Token = "none" THEN 400
  ELSE IF Token = "refused" THEN 401
  ELSE IF ~Exists(n) THEN 404
  ELSE IF Table(n).read = "denied" THEN 403 ELSE 200

\* Mutant: any answer is taken for one.
AlwaysDiscriminating(control, statuses) == TRUE

\* blindFinding
Blind == Found("not-discriminating", "relations")

\* Does what is there answer otherwise than what cannot be there?
Discriminating(control, statuses) == control = 404 \/ statuses \ {control} # {}

Reach ==
  /\ pc = "reach"
  /\ LET sample == Range(First(Relations, ReachSample))
     IN  \E f \in Failures(sample \cup {Control}) :
           /\ Suffer(f)
           /\ Say(IF Discriminating(Status(Control, f), {Status(n, f) : n \in sample})
                    THEN {} ELSE {Blind})
  /\ pc' = StageAfter(pc)
  /\ UNCHANGED <<scan, footprint, work>>

-----------------------------------------------------------------------------
\* Rows a signed-in reader gets, the scan's own included.
Returned(n, f) ==
  /\ Status(n, f) = 200
  /\ Table(n).read = "empty" => Row(n) \in held \cup left

Refusal(n, f) == Status(n, f) \in {0, 401, 403, 429}

\* Mutant: silence is a result.
SilenceIsFine(returned, refused, names) == FALSE

\* EscalationStage.Run: one reader for each table, collected by table.
SilenceIsRefusal(returned, refused, names) ==
  returned = {} /\ names # {} /\ refused = names

\* escalation: the finding.
AnyAccountReads(n) == Found("member-read", n)

Compare ==
  /\ pc = "compare"
  /\ LET names == Range(Relations)
     IN  \E f \in Failures(names) :
           LET returned == {n \in names : Returned(n, f)}
               refused  == {n \in names \ returned : Refusal(n, f)}
           IN  /\ Suffer(f)
               /\ Say({AnyAccountReads(n) : n \in returned}
                        \cup IF SilenceIsRefusal(returned, refused, names)
                               THEN {NotAssessed("escalation")} ELSE {})
  /\ pc' = StageAfter(pc)
  /\ UNCHANGED <<scan, footprint, work>>

-----------------------------------------------------------------------------
Consent == opts.write /\ ~opts.noResidue

NoInserts ==
  /\ pc = "insert" /\ ~Consent
  /\ Say({NotAssessed("write")})
  /\ pc' = StageAfter(pc)
  /\ UNCHANGED <<scan, footprint, work, faults>>

\* What one INSERT of an empty object comes to.
Admission(n) ==
  IF Token # "accepted" \/ ~Exists(n) THEN "refused" ELSE Table(n).insert

\* accepted and acceptedByConstraint: a constraint is reached after the
\* privileges were checked.
Inserted(n) == Found("write", n)

\* rowIdentity: the row that was returned.
RowSays(n) == {Inserted(n), Found("left-behind", Row(n))}

\* WriteStage.Run: a row was created, a constraint stopped it, or neither.
Insert ==
  /\ pc = "insert" /\ Consent /\ todo # <<>>
  /\ \E f \in One("insert") :
       LET n == Head(todo)
           stored == Admission(n) = "stored"
       IN  /\ Suffer(f)
           /\ \/ stored /\ Fine(f) /\ Creates(Row(n))
              \/ stored /\ IsLost(f, "insert") /\ MayHaveCreated(Row(n))
              \/ ~(stored /\ (Fine(f) \/ IsLost(f, "insert"))) /\ NothingCreated
           /\ Say(IF Admission(n) = "constraint" /\ Fine(f) THEN {Inserted(n)} ELSE {})
  /\ todo' = Tail(todo)
  /\ UNCHANGED <<scan, pc, asked, session>>

\* The findings are added when every table has answered.
ReportInserts ==
  /\ pc = "insert" /\ Consent /\ todo = <<>>
  /\ LET rows == {n \in DOMAIN target.tables : Row(n) \in held}
         says == UNION {RowSays(n) : n \in rows}
     IN  /\ Say(says)
         /\ IF rows = {} THEN NothingCreated
            ELSE GivesUp(held, says, <<>>)
  /\ pc' = StageAfter(pc)
  /\ UNCHANGED <<scan, work, faults>>

NeonStep ==
  Enumeration \/ Reach \/ Compare \/ NoInserts \/ Insert \/ ReportInserts
===============================================================================
