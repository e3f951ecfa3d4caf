----------------------------- MODULE MCPipeline -----------------------------
(***************************************************************************)
(* Every plan of at most MaxStages stages drawn from a menu with one stage *)
(* of each kind of dependency and side effect, in every order and with     *)
(* repetition, well formed or not.  As in backend/supabase/descriptors.go, *)
(* a probing stage that writes does not declare it, and schemas does.      *)
(***************************************************************************)
EXTENDS Pipeline

CONSTANTS a, b, MaxStages

Base == [id |-> NoID, kind |-> "live", requires |-> {}, optional |-> {},
         produces |-> {}, mutates |-> FALSE, sendsSecrets |-> FALSE,
         writes |-> FALSE]

Enumerate == [Base EXCEPT !.id = "enumerate", !.produces = {a}]
Probe     == [Base EXCEPT !.id = "probe", !.requires = {a}, !.writes = TRUE]
Schemas   == [Base EXCEPT !.id = "schemas", !.optional = {a}, !.produces = {b},
                          !.mutates = TRUE, !.writes = TRUE]
Archive   == [Base EXCEPT !.id = "archive", !.optional = {b},
                          !.sendsSecrets = TRUE]
SkippedEnumerate == [Enumerate EXCEPT !.kind = "skipped"]
Undescribed == [Base EXCEPT !.id = "probe", !.kind = "opaque"]

Menu == {Enumerate, Probe, Schemas, Archive, SkippedEnumerate, Undescribed}

MCPlans == UNION {[1..n -> Menu] : n \in 1..MaxStages}
=============================================================================
