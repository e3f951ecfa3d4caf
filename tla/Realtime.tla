------------------------------- MODULE Realtime -------------------------------
(***************************************************************************)
(* RealtimeStage and realtime.Run: one socket per schema, on which every   *)
(* relation is subscribed to in turn, and then the writable ones once      *)
(* more, before a change is caused on each and its payload waited for.     *)
(*                                                                         *)
(* There is one deadline for all of it: a reply that never comes uses up   *)
(* the time of everything after it.                                        *)
(***************************************************************************)
EXTENDS Routines

VARIABLES
  socket,     \* "closed", "open", or "expired"
  ahead,      \* relations still to be subscribed to, or to be written to
  acked,      \* the control was accepted
  accepted,   \* relations whose subscription was accepted
  listening,  \* writable relations whose second subscription was
  tested,     \* DeliveryTested
  underway,   \* changes on their way to the listener
  sessions    \* results: schema to what came of its session

realtimeVars == <<socket, ahead, acked, accepted, listening, tested, underway,
                  sessions>>

Realtime == target.realtime[schema]
Schemas == DOMAIN target.routines

RealtimeInit ==
  /\ socket = "closed" /\ ahead = {} /\ acked = FALSE /\ accepted = {}
  /\ listening = {} /\ tested = {} /\ underway = {} /\ sessions = <<>>

\* What became of a subscription: a reply, none in time, or a garbled one.
Replies == {"answered", "missing", "garbled"}
Reply(of, r) ==
  IF r = "answered" THEN UNCHANGED faults
  ELSE /\ Cardinality(faults) < MaxFaults
       /\ faults' = faults \cup {<<pc, schema, of, r>>}

Expires(r) == socket' = IF r = "missing" THEN "expired" ELSE socket

\* Where there is no discrimination, anything is acknowledged.
Acknowledges(rel) == Realtime.acksAll \/ rel \in Realtime.streams

Joins(rel, r) == socket = "open" /\ r = "answered" /\ Acknowledges(rel)

\* No relation, no socket.
Dial ==
  /\ pc = "dial"
  /\ \E up \in BOOLEAN :
       /\ up => Realtime.up
       /\ Realtime.relations = {} => ~up
       /\ IF Realtime.up /\ ~up /\ Realtime.relations # {}
          THEN Reply("socket", "missing") ELSE UNCHANGED faults
       /\ socket' = IF up THEN "open" ELSE "closed"
       /\ pc' = IF up THEN "control" ELSE "conclude"
  /\ acked' = FALSE /\ accepted' = {} /\ listening' = {} /\ tested' = {}
  /\ underway' = {} /\ ahead' = {}
  /\ UNCHANGED <<scanVars, routineVars, sessions, report>>

WouldTrigger == opts.write /\ ~opts.noResidue

\* Mutant: the control is not looked at.
NeverInformative == Realtime.relations

\* An acknowledgement says something only where the control has none.
ToSubscribe == IF acked' THEN {} ELSE Realtime.relations

JoinControl ==
  /\ pc = "control"
  /\ \E r \in Replies :
       Reply(Control, r) /\ Expires(r) /\ acked' = Joins(Control, r)
  /\ ahead' = ToSubscribe
  /\ pc' = "join"
  /\ UNCHANGED <<scanVars, routineVars, accepted, listening, tested, underway,
                 sessions, report>>

Join ==
  /\ pc = "join" /\ ahead # {}
  /\ \E rel \in ahead : \E r \in IF socket = "open" THEN Replies ELSE {"answered"} :
       /\ Reply(rel, r) /\ Expires(r)
       /\ accepted' = IF Joins(rel, r) THEN accepted \cup {rel} ELSE accepted
       /\ ahead' = ahead \ {rel}
  /\ UNCHANGED <<scanVars, routineVars, pc, acked, listening, tested, underway,
                 sessions, report>>

\* runDelivery, under -write and without -no-residue
JoinsOver ==
  /\ pc = "join" /\ ahead = {}
  /\ ahead' = IF WouldTrigger THEN Realtime.writable ELSE {}
  /\ pc' = "listen"
  /\ UNCHANGED <<scanVars, routineVars, socket, acked, accepted, listening, tested,
                 underway, sessions, faults, report>>

Listen ==
  /\ pc = "listen" /\ ahead # {}
  /\ \E rel \in ahead : \E r \in IF socket = "open" THEN Replies ELSE {"answered"} :
       /\ Reply(rel, r) /\ Expires(r)
       /\ listening' = IF Joins(rel, r) THEN listening \cup {rel} ELSE listening
       /\ ahead' = ahead \ {rel}
  /\ UNCHANGED <<scanVars, routineVars, pc, acked, accepted, tested, underway,
                 sessions, report>>

\* Every writable relation is written to if one of them is listened to.
ListensOver ==
  /\ pc = "listen" /\ ahead = {}
  /\ ahead' = IF listening = {} THEN {} ELSE Realtime.writable
  /\ pc' = "trigger"
  /\ UNCHANGED <<scanVars, routineVars, socket, acked, accepted, listening, tested,
                 underway, sessions, faults, report>>

\* probe.Trigger under the same deadline: the row lands, or it does not.
Trigger ==
  /\ pc = "trigger" /\ ahead # {}
  /\ \E rel \in ahead : \E lands \in BOOLEAN :
       /\ lands => socket = "open"
       /\ tested' = IF lands THEN tested \cup {rel} ELSE tested
       /\ underway' = IF lands /\ rel \in listening \cap Realtime.streams
                      THEN underway \cup {rel} ELSE underway
       /\ ahead' = ahead \ {rel}
  /\ UNCHANGED <<scanVars, routineVars, pc, socket, acked, accepted, listening,
                 sessions, faults, report>>

\* Mutant: a session waits for a change that lands.
TriggersOverIfTested ==
  /\ pc = "trigger" /\ ahead = {} /\ (listening = {} \/ tested # {})
  /\ pc' = "conclude"
  /\ UNCHANGED <<scanVars, routineVars, realtimeVars, faults, report>>

TriggersOver ==
  /\ pc = "trigger" /\ ahead = {}
  /\ pc' = "conclude"
  /\ UNCHANGED <<scanVars, routineVars, realtimeVars, faults, report>>

-----------------------------------------------------------------------------
Reachable == socket # "closed"

\* Mutant: a change that brought no payload says that nothing streams.
UnmeasuredIfUnreachable(delivered) == ~Reachable

\* CoverageFinding, for the default schema.
Unmeasured(delivered) == delivered = {} /\ (~Reachable \/ tested # {})

\* REST does not serve it: the two paths disagree.
Severity(rel) == IF rel \in Realtime.readable THEN "streams" ELSE "streams-hidden"

StreamFinding(rel) == Found(Severity(rel), rel)
DeliveryFinding(rel) == Found("delivers", rel)

\* The window closes on what has arrived.
Conclude ==
  /\ pc = "conclude"
  /\ \E delivered \in SUBSET underway :
       /\ sessions' = [s \in DOMAIN sessions \cup {schema} |->
            IF s # schema THEN sessions[s]
            ELSE [reachable |-> Reachable, acked |-> acked, accepted |-> accepted,
                  listening |-> listening, tested |-> tested,
                  delivered |-> delivered, expired |-> socket = "expired"]]
       /\ Say({StreamFinding(rel) : rel \in accepted}
              \cup {DeliveryFinding(rel) : rel \in delivered}
              \cup IF schema = Default /\ Unmeasured(delivered)
                   THEN {NotAssessed("realtime-delivery")} ELSE {})
  /\ IF Schemas = DOMAIN sessions' THEN pc' = "done" /\ UNCHANGED schema
     ELSE pc' = "dial" /\ schema' \in Schemas \ DOMAIN sessions'
  /\ UNCHANGED <<scanVars, todo, extra, rpc, asked, known, verdict, socket, ahead,
                 acked, accepted, listening, tested, underway, faults>>

RealtimeStep ==
  \/ Dial \/ JoinControl \/ Join \/ JoinsOver \/ Listen \/ ListensOver
  \/ Trigger \/ TriggersOver \/ Conclude
==============================================================================
