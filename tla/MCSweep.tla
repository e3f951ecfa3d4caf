------------------------------ MODULE MCSweep ------------------------------
(***************************************************************************)
(* Two targets, one with an exposure that two stages may report at two     *)
(* severities, where two detected backends may settle on one project, so   *)
(* that the engine receives the same workload twice.                       *)
(***************************************************************************)
EXTENDS Sweep

CONSTANTS ta, tb

MCTargets == {ta, tb}
TwoTargets == <<ta, tb>>

Twins == [t \in MCTargets |-> IF t = ta THEN <<"neon/x", "neon/y">> ELSE <<>>]

MCResources == Places \cup {"data"}

\* Both orders are alphabetical.
IDOrder == <<ExposedID, ExhaustedID, PrefixID, SummaryID, SkippedID,
             NotAssessedID, RefusedID>>
ResourceOrder == <<Application, "backend", "data", "neon/x", "neon/y",
                   "rest-prefix", "routine-discovery", "scan",
                   "scan:interrupted", Supabase, "target">>
At(s, x) == CHOOSE k \in DOMAIN s : s[k] = x
MCSortRank == [p \in IDs \X MCResources |->
                 20 * At(IDOrder, p[1]) + At(ResourceOrder, p[2])]

MCResolutions == [p \in Backends |->
                    IF p = "neon/y" THEN {"neon/x", "neon/y"} ELSE {p}]

MCRank == [w \in Works |-> CASE w = Application -> 0
                             [] w = "neon/x" -> 1
                             [] w = "neon/y" -> 2
                             [] w = Supabase -> 3]

Exposed(t, s) == [id |-> ExposedID, severity |-> s, matched |-> t,
                  resource |-> "data"]

MCExposures == [t \in MCTargets |-> IF t = ta
                                    THEN {Exposed(t, Low), Exposed(t, High)}
                                    ELSE {Exposed(t, High)}]
=============================================================================
