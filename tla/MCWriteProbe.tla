---------------------------- MODULE MCWriteProbe ----------------------------
(***************************************************************************)
(* Relations with every combination of policies and constraints the probes *)
(* can tell apart, holding at most two rows, with equal or different keys. *)
(***************************************************************************)
EXTENDS WriteProbe

MCTables == {{}, {[uid |-> 1, key |-> 1]},
             {[uid |-> 1, key |-> 1], [uid |-> 2, key |-> 2]},
             {[uid |-> 1, key |-> 1], [uid |-> 2, key |-> 1]}}

\* A generated key is unique, and a row without another column matters there.
MCDatabases == {d \in Database : /\ d.key = "always" => d.unique
                                 /\ d.key # "always" => d.wide}

\* Where faults multiply the states, one representative of each shape.
FewDatabases == {d \in MCDatabases : /\ d.named /\ d.wide
                                     /\ d.delete # "noGrant"
                                     /\ d.update # "noGrant"}
=============================================================================
