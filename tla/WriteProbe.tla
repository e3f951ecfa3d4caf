----------------------------- MODULE WriteProbe -----------------------------
(***************************************************************************)
(* The write stage of probeOne -- insertProbe, deleteRow, updateProbe --   *)
(* and Trigger, which runs insertProbe alone, against one relation.  Each  *)
(* request is retried by client.Do; between two requests the application   *)
(* may remove rows of its own.                                             *)
(*                                                                         *)
(* Left out: the breaker (module Transport), the texts of reasons, and the *)
(* statuses carried for the report.                                        *)
(***************************************************************************)
EXTENDS PostgrestTable, Sequences, FiniteSets

CONSTANTS
  Databases,   \* relations the scan may meet
  Tables,      \* contents they may have: sets of rows
  FaultKinds,  \* what may go wrong with a request
  MaxFaults,   \* bound: faults in one behaviour
  Retries,     \* client.Options.Retries
  Busy         \* whether the application removes rows meanwhile

ASSUME DatabasesAssumption == Databases \subseteq Database
ASSUME TablesAssumption ==
  \A t \in Tables :
    /\ IsFiniteSet(t)
    /\ \A r \in t : r \in Row /\ r.uid <= Base /\ r.key \in 1..Base
ASSUME FaultsAssumption ==
  /\ FaultKinds \subseteq {"lost", "unsent", "throttled", "turnedAway",
                           "truncated"}
  /\ MaxFaults \in Nat /\ Retries \in Nat /\ Busy \in BOOLEAN

VARIABLES
  db, target, sample,  \* the relation, its first contents, the rows read
  caller, policy,      \* "probe" or "trigger"; residuePolicy
  rows, serial,        \* the relation now; the next identity
  pc, reply, tries,    \* request in flight, its reply, attempts left
  row,                 \* the row deleteRow removes
  attempts,            \* updateProbe's bodies still to try
  write, delete, update, cleanupErr,  \* the verdicts
  faults,
  gone,                \* history: rows of the target its owner removed
  touched              \* history: a statement of the scan wrote a tuple

given == <<db, target, sample, caller, policy>>
verdicts == <<write, delete, update, cleanupErr>>
world == <<rows, serial, faults, gone, touched>>
vars == <<given, world, pc, reply, tries, row, attempts, verdicts>>

Verdict  == {"unknown", "reached", "blocked", "inconclusive"}
Policies == {"allowed", "cleanable", "forbidden"}
Waiting  == [kind |-> "waiting", code |-> NoCode, rows |-> {}]
NoRow    == [uid |-> 0, key |-> NoKey]

-----------------------------------------------------------------------------
\* classifyCode: a code settles the verdict for every verb.
ClassifyCode(c) == CASE c = "428C9" -> "inconclusive"
                     [] c = "42501" -> "blocked"
                     [] c \in {"23502", "23505"} -> "reached"
                     [] OTHER -> "unknown"

\* Without a code: 401 and 403 come as "error", all else as "throttled".
Uncoded(r) == IF r.kind = "error" THEN "blocked" ELSE "inconclusive"

ClassifyWrite(r) == IF r.kind = "ok" THEN "reached"
                    ELSE IF r.code # NoCode THEN ClassifyCode(r.code)
                    ELSE Uncoded(r)

\* Mutant: a 204 counts as a write, whatever Content-Range says.
ClassifyAffectedBlind(r) == ClassifyWrite(r)

ClassifyAffected(r) ==
  IF r.code # NoCode THEN ClassifyCode(r.code)
  ELSE IF r.kind # "ok" THEN Uncoded(r)
  ELSE IF r.rows = {} THEN "blocked" ELSE "reached"

\* Mutant: a null key is a key.
HasKeyOrNull(r) == db.named

\* rowKey: a column named id, uuid or pk that is not null.
HasKey(r) == db.named /\ r.key # NoKey

\* collidingUpdateBody: the first sampled row with another key than the first.
Others == {j \in 2..Len(sample) :
             sample[j].key # NoKey /\ sample[j].key # sample[1].key}

\* Mutant: a key nobody holds.
CollidingKeyFresh == serial

CollidingKey == sample[CHOOSE j \in Others : \A k \in Others : j <= k].key

\* Mutant: the no-op survives under -no-residue.
AttemptsAlways == IF Others # {} THEN <<"collision", "no-op">>
                                 ELSE <<"no-op">>

\* updateProbe: collision first; the no-op only where a tuple may be written.
Attempts ==
  CASE Others # {} /\ policy # "forbidden" -> <<"collision", "no-op">>
    [] Others # {} /\ policy = "forbidden" -> <<"collision">>
    [] Others = {} /\ policy # "forbidden" -> <<"no-op">>
    [] OTHER -> <<>>

\* noopUpdateBody prefers a column that is not the key.
NoopColumn == IF db.wide THEN "other" ELSE "key"

-----------------------------------------------------------------------------
Send(stage) == /\ pc' = stage /\ reply' = Waiting /\ tries' = Retries + 1

Halt == pc' = "done" /\ UNCHANGED <<reply, tries>>

\* From INSERT to UPDATE, which runs whatever INSERT found.
ToUpdate ==
  \/ /\ caller = "trigger"
     /\ Halt /\ UNCHANGED <<update, attempts>>
  \/ /\ caller = "probe"
     /\ \/ sample = <<>>
        \/ sample # <<>> /\ (~HasKey(sample[1]) \/ Attempts = <<>>)
     /\ Halt /\ update' = "inconclusive" /\ UNCHANGED attempts
  \/ /\ caller = "probe" /\ sample # <<>>
     /\ HasKey(sample[1]) /\ Attempts # <<>>
     /\ Send("update") /\ attempts' = Attempts /\ UNCHANGED update

\* Trigger discards what insertProbe says of the cleanup.
Complain(err) == cleanupErr' = (err /\ caller = "probe")

Init ==
  /\ db \in Databases /\ target \in Tables /\ rows = target
  /\ db.unique => \A r, s \in target : r.key = s.key => r = s
  /\ caller \in {"probe", "trigger"}
  /\ policy \in IF caller = "trigger" THEN {"cleanable"}
                                      ELSE {"allowed", "forbidden"}
  /\ sample \in {s \in UNION {[1..n -> target] : n \in 0..Cardinality(target)} :
                   \A j, k \in DOMAIN s : s[j] = s[k] => j = k}
  /\ sample # <<>> => db.select /\ caller = "probe"
  /\ serial = Base + 1
  /\ pc = "start" /\ reply = Waiting /\ tries = 0
  /\ row = NoRow /\ attempts = <<>>
  /\ write = "unknown" /\ delete = "inconclusive" /\ update = "unknown"
  /\ cleanupErr = FALSE /\ faults = 0 /\ gone = {} /\ touched = FALSE

\* insertProbe up to its first request.
Start ==
  /\ pc = "start"
  /\ \/ policy = "forbidden" /\ sample = <<>>
        /\ write' = "inconclusive" /\ ToUpdate
     \/ /\ policy # "forbidden" \/ sample # <<>>
        /\ Send("insert") /\ UNCHANGED <<write, update, attempts>>
  /\ UNCHANGED <<given, world, row, delete, cleanupErr>>

-----------------------------------------------------------------------------
\* What the request in flight does to the relation if it gets there.
Effect ==
  CASE pc = "insert" -> IF policy = "forbidden"
                        THEN InsertCopy(db, rows, serial, sample[1])
                        ELSE InsertEmpty(db, rows, serial, TRUE)
    [] pc = "bare"   -> InsertEmpty(db, rows, serial, FALSE)
    [] pc = "delete" -> DeleteKey(db, rows, row.key)
    [] pc = "verify" -> SelectKey(db, rows, row.key)
    [] pc = "update" -> IF Head(attempts) = "collision"
                        THEN UpdateKey(db, rows, sample[1].key, "key",
                                       CollidingKey)
                        ELSE UpdateKey(db, rows, sample[1].key, NoopColumn,
                                       sample[1].key)

InFlight == pc \in {"insert", "bare", "delete", "verify", "update"}
            /\ reply = Waiting

\* The statement runs; an UPDATE writes a tuple even where no value changes.
Apply == /\ rows' = Effect.rows
         /\ serial' = IF pc \in {"insert", "bare"} THEN serial + 1 ELSE serial
         /\ touched' = (touched \/ Effect.rows # rows
                         \/ (pc = "update" /\ Effect.reply.rows # {}))

\* client.Do: transport errors, 429 and 5xx are sent again while tries remain.
Settle(r) == IF r.kind \in {"none", "throttled"} /\ tries > 1
             THEN /\ tries' = tries - 1 /\ reply' = Waiting
             ELSE /\ tries' = tries     /\ reply' = r

Answered == /\ InFlight
            /\ Apply /\ Settle(Effect.reply)
            /\ UNCHANGED <<given, faults, gone, pc, row, attempts, verdicts>>

CanFail(kind) == InFlight /\ kind \in FaultKinds /\ faults < MaxFaults
                 /\ faults' = faults + 1

\* The statement ran, and its answer did not come back.
LoseReply == /\ CanFail("lost")
             /\ Apply /\ Settle(NoReply)
             /\ UNCHANGED <<given, gone, pc, row, attempts, verdicts>>

\* The answer to an INSERT is longer than the client reads, so it decodes to
\* no row; a key is never that long.
Truncate == /\ CanFail("truncated") /\ pc = "insert"
            /\ Effect.reply.kind = "ok"
            /\ Apply /\ Settle(Ok({}))
            /\ UNCHANGED <<given, gone, pc, row, attempts, verdicts>>

\* The request never reached the database: no connection, 429 or 5xx, or a
\* gateway's own 401.
Undelivered ==
  /\ \/ CanFail("unsent")     /\ Settle(NoReply)
     \/ CanFail("throttled")  /\ Settle(Throttled)
     \/ CanFail("turnedAway") /\ Settle(Error(NoCode))
  /\ UNCHANGED <<given, rows, serial, gone, touched, pc, row, attempts,
                 verdicts>>

\* Its owner removes a row of the target.
OwnerDeletes == /\ Busy /\ InFlight
                /\ \E r \in rows : /\ r.uid <= Base
                                  /\ rows' = rows \ {r} /\ gone' = gone \cup {r}
                /\ UNCHANGED <<given, serial, faults, touched, pc, reply, tries,
                               row, attempts, verdicts>>

-----------------------------------------------------------------------------
At(stage) == pc = stage /\ reply # Waiting

\* Mutant: phase A's 42501 is final.
NeedsBareFinal == FALSE

\* Phase A asks for the row back, so its 42501 may be the SELECT's.
Ambiguous == reply.kind = "error" /\ reply.code = "42501"
NeedsBare == Ambiguous /\ policy = "allowed"

\* insertProbe after phase A.
InsertAnswered ==
  /\ At("insert")
  /\ \/ /\ reply.kind = "none"
        /\ write' = "unknown" /\ ToUpdate
        /\ UNCHANGED <<row, delete, cleanupErr>>
     \/ /\ reply.kind = "ok" /\ reply.rows # {}
        /\ write' = "reached" /\ row' \in reply.rows
        /\ \/ /\ HasKey(row') /\ Send("delete")
              /\ UNCHANGED <<delete, update, cleanupErr, attempts>>
           \/ /\ ~HasKey(row') /\ delete' = "inconclusive" /\ Complain(TRUE)
              /\ ToUpdate
     \/ /\ reply.kind = "ok" /\ reply.rows = {}
        /\ write' = "reached" /\ ToUpdate
        /\ UNCHANGED <<row, delete, cleanupErr>>
     \/ /\ Ambiguous /\ policy # "allowed"
        /\ write' = "inconclusive" /\ ToUpdate
        /\ UNCHANGED <<row, delete, cleanupErr>>
     \/ /\ NeedsBare
        /\ Send("bare") /\ UNCHANGED <<row, verdicts, attempts>>
     \/ /\ reply.kind \in {"error", "throttled"}
        /\ ~NeedsBare /\ ~(Ambiguous /\ policy # "allowed")
        /\ write' = ClassifyWrite(reply) /\ ToUpdate
        /\ UNCHANGED <<row, delete, cleanupErr>>
  /\ UNCHANGED <<given, world>>

\* Phase B: the bare INSERT.  Anything short of "reached" leaves "blocked".
BareAnswered ==
  /\ At("bare")
  /\ \/ /\ reply.kind = "none"
        /\ write' = "blocked" /\ UNCHANGED cleanupErr
     \/ /\ reply.kind = "ok"
        /\ write' = "reached" /\ Complain(TRUE)
     \/ /\ reply.kind \in {"error", "throttled"}
        /\ write' = IF ClassifyWrite(reply) = "reached" THEN "reached"
                                                        ELSE "blocked"
        /\ UNCHANGED cleanupErr
  /\ ToUpdate
  /\ UNCHANGED <<given, world, row, delete>>

\* deleteRow after the DELETE.
DeleteAnswered ==
  /\ At("delete")
  /\ \/ /\ reply.kind = "ok" /\ Send("verify")
        /\ UNCHANGED <<delete, update, cleanupErr, attempts>>
     \/ /\ reply.kind = "none"
        /\ delete' = "unknown" /\ Complain(TRUE) /\ ToUpdate
     \/ /\ reply.kind \in {"error", "throttled"}
        /\ delete' = ClassifyWrite(reply) /\ Complain(TRUE) /\ ToUpdate
  /\ UNCHANGED <<given, world, row, write>>

\* Mutant: the removal is believed without reading back.
RemovalVerdictTrusting(r) == "reached"

\* deleteRow after the verifying GET: only a transport error is told apart
\* from an answer, and an answer that decodes to no row means "gone".
RemovalVerdict(r) == IF r.kind = "none" THEN "inconclusive"
                     ELSE IF r.rows # {} THEN "blocked" ELSE "reached"

VerifyAnswered ==
  /\ At("verify")
  /\ delete' = RemovalVerdict(reply)
  /\ Complain(RemovalVerdict(reply) # "reached") /\ ToUpdate
  /\ UNCHANGED <<given, world, row, write>>

LastBody == Len(attempts) = 1

\* updateProbe: the next body only if this one settled nothing.
UpdateAnswered ==
  /\ At("update")
  /\ LET v == IF reply.kind = "none" THEN "unknown"
                                     ELSE ClassifyAffected(reply) IN
     \/ /\ v = "inconclusive" /\ ~LastBody
        /\ attempts' = Tail(attempts) /\ Send("update") /\ UNCHANGED update
     \/ /\ v # "inconclusive" \/ LastBody
        /\ update' = v /\ Halt /\ UNCHANGED attempts
  /\ UNCHANGED <<given, world, row, write, delete, cleanupErr>>

Next == \/ Start
        \/ Answered \/ LoseReply \/ Truncate \/ Undelivered \/ OwnerDeletes
        \/ InsertAnswered \/ BareAnswered \/ DeleteAnswered \/ VerifyAnswered
        \/ UpdateAnswered

Spec == Init /\ [][Next]_vars

-----------------------------------------------------------------------------
TypeOK ==
  /\ db \in Databases /\ target \in Tables /\ sample \in Seq(target)
  /\ caller \in {"probe", "trigger"} /\ policy \in Policies
  /\ rows \subseteq Row /\ gone \subseteq Row
  /\ serial \in Nat /\ serial > Base
  /\ pc \in {"start", "insert", "bare", "delete", "verify", "update", "done"}
  /\ reply \in Reply \cup {Waiting} /\ tries \in 0..(Retries + 1)
  /\ row \in Row /\ attempts \in Seq({"collision", "no-op"})
  /\ (pc = "update" => attempts # <<>> /\ sample # <<>>)
  /\ write \in Verdict /\ delete \in Verdict /\ update \in Verdict
  /\ cleanupErr \in BOOLEAN /\ touched \in BOOLEAN /\ faults \in 0..MaxFaults

\* No false positive: whatever is lost, refused, delayed or removed meanwhile,
\* "anonymous INSERT reaches the table" and "anonymous UPDATE is admitted" are
\* only said of a relation whose policies let that through.
ReachedIsSound == /\ write = "reached" => db.insert
                  /\ update = "reached" => db.update = "allow"

\* The promise of -no-residue and of the collision bodies: with a unique key,
\* and the sampled rows still there, no statement of the scan writes a tuple,
\* at any moment and however often a request is repeated.
ForbiddenWritesNothing ==
  policy = "forbidden" /\ db.unique /\ gone = {} => ~touched

\* With a unique key, no row of the target is ever removed or altered by the
\* scan: not by the cleanup of its own row, not by a probing UPDATE.
TargetUntouched == db.unique /\ gone = {} => target \subseteq rows

Barred(access) == access # "allow"

\* No false negative where the retries absorb the faults: "blocked" is only
\* said of what the policies or grants bar -- RETURNING's 42501 included.
RefusalIsSound == /\ write = "blocked" => ~db.insert
                  /\ update = "blocked" /\ db.unique => Barred(db.update)

\* The DELETE verdict the cleanup earns is right in both directions.
RemovalIsSound == /\ delete = "reached" => db.delete = "allow"
                  /\ delete = "blocked" => Barred(db.delete)

Residue == \E r \in rows : r.uid > Base

\* The report asks for a manual cleanup exactly when a row of the scan is
\* still there: none is forgotten and nobody is sent after a row that is gone.
ResidueIsReported == pc = "done" /\ caller = "probe" => (cleanupErr <=> Residue)

\* Comment of collidingBody (probe.go:808): "Phase A's representation still
\* lets it be deleted, and a failed delete is still reported."
NoSilentResidue == pc = "done" /\ caller = "probe" => (Residue => cleanupErr)

\* The reason deleteRow gives (probe.go:874): the row "was deleted anonymously
\* and verified gone".
VerifiedGone == delete = "reached" => ~\E r \in rows : r = row

\* Comment of WriteBlockedRLS (classify.go:57): "RLS or GRANT rejected the
\* request".
BlockedMeansRejected == write = "blocked" => ~db.insert
=============================================================================
