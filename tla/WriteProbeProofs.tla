-------------------------- MODULE WriteProbeProofs --------------------------
(***************************************************************************)
(* Proofs about WriteProbe, for every relation and contents, every kind    *)
(* and number of faults, any number of retries, and an owner who removes   *)
(* rows whenever he likes; then what more holds where the retries absorb   *)
(* the faults.                                                             *)
(***************************************************************************)
EXTENDS WriteProbe, FiniteSetTheorems, WellFoundedInduction, TLAPS

Stages == {"insert", "bare", "delete", "verify", "update"}

\* The bodies updateProbe still has: the ends of its list.
AttemptsOK ==
  /\ attempts \in {<<>>, <<"collision">>, <<"no-op">>, <<"collision", "no-op">>}
  /\ attempts \in {<<"collision">>, <<"collision", "no-op">>} => Others # {}
  /\ policy = "forbidden" => attempts \in {<<>>, <<"collision">>}
  /\ pc = "update" => attempts # <<>>

Typed ==
  /\ db \in Database /\ target \in Tables /\ sample \in Seq(target)
  /\ rows \subseteq Row /\ row \in Row /\ serial \in Nat /\ serial > Base
  /\ pc \in Stages \cup {"start", "done"}
  /\ reply \in Reply \cup {Waiting}
  /\ caller \in {"probe", "trigger"} /\ policy \in Policies

\* Where the procedure can be.
Routed == /\ pc = "bare" => policy = "allowed"
          /\ pc = "insert" /\ policy = "forbidden" => sample # <<>>
          /\ pc = "update" => sample # <<>>

\* An answer that will be read as "reached" was given by an open relation.
RepliesTell ==
  /\ pc \in {"insert", "bare"} /\ ClassifyWrite(reply) = "reached" => db.insert
  /\ pc = "update" /\ ClassifyAffected(reply) = "reached"
       => db.update = "allow"

\* As long as its owner removed nothing from a relation with a unique key.
Settled == db.unique /\ gone = {}

\* The key the cleanup aims at is one no row of the target has.
Apart(r) == r.key = NoKey \/ r.key > Base

CleanupIsOurs ==
  Settled => /\ target \subseteq rows
             /\ pc = "insert" /\ reply.kind = "ok" =>
                  \A r \in reply.rows : Apart(r)
             /\ pc \in {"delete", "verify"} => Apart(row)

\* Under -no-residue the colliding INSERT never lands, so that neither phase B
\* nor the cleanup is ever reached.
NothingLands ==
  Settled /\ policy = "forbidden" =>
    /\ ~touched
    /\ pc \notin {"bare", "delete", "verify"}
    /\ pc = "insert" => reply.kind # "ok"

Ind == /\ Typed /\ AttemptsOK /\ Routed /\ RepliesTell /\ ReachedIsSound
       /\ CleanupIsOurs /\ NothingLands

-----------------------------------------------------------------------------
\* Every non-empty set of naturals has a least element: among the intervals
\* up to its members one has no other strictly inside it.
LEMMA LeastExists ==
  ASSUME NEW S \in SUBSET Nat, S # {}
  PROVE  \E x \in S : \A y \in S : x <= y
<1> DEFINE T == {1..x : x \in S}
<1>1. T \subseteq FiniteSubsetsOf(Nat) /\ T # {}
  <2>1. \A x \in S : IsFiniteSet(1..x) /\ 1..x \in SUBSET Nat
    BY FS_Interval
  <2> QED BY <2>1 DEF FiniteSubsetsOf
<1>2. \E t \in T : \A u \in T : ~(<<u, t>> \in StrictSubsetOrdering(Nat))
  <2> HIDE DEF T
  <2> QED BY <1>1, FS_StrictSubsetOrderingWellFounded, WFMin, Zenon
<1>3. PICK x \in S :
        \A y \in S : ~(<<1..y, 1..x>> \in StrictSubsetOrdering(Nat))
  BY <1>2, Zenon
<1>4. ASSUME NEW y \in S, y < x PROVE FALSE
  <2>1. 1..y \subseteq 1..x /\ x \in 1..x /\ x \notin 1..y
    BY <1>4
  <2>2. 1..y # 1..x
    BY <2>1, Zenon
  <2>3. 1..y \in SUBSET Nat /\ 1..x \in SUBSET Nat
    OBVIOUS
  <2> QED BY <1>3, <2>1, <2>2, <2>3 DEF StrictSubsetOrdering
<1> QED BY <1>4

\* The first row with another key than the first one's is such a row.
LEMMA CollidingKeyHeld ==
  ASSUME NEW T, sample \in Seq(T), Others # {}
  PROVE  \E j \in 2..Len(sample) : /\ CollidingKey = sample[j].key
                                   /\ sample[j].key # NoKey
                                   /\ sample[j].key # sample[1].key
<1>1. Others \in SUBSET Nat
  BY DEF Others
<1>2. \E j \in Others : \A k \in Others : j <= k
  BY <1>1, LeastExists
<1> DEFINE m == CHOOSE j \in Others : \A k \in Others : j <= k
<1>3. m \in Others
  BY <1>2
<1>4. CollidingKey = sample[m].key
  BY DEF CollidingKey
<1> QED BY <1>3, <1>4 DEF Others

\* A row of the target has a key, and no Apart row shares it.
LEMMA TargetRows ==
  ASSUME Typed, NEW t \in target
  PROVE  /\ t \in Row /\ t.key \in Nat /\ t.key # NoKey
         /\ \A r \in Row : Apart(r) => t.key # r.key
<1>1. t \in Row /\ t.key \in 1..Base
  BY TablesAssumption DEF Typed
<1> QED BY <1>1, BaseAssumption DEF Row, Keys, NoKey, Apart

LEMMA SampleRows ==
  ASSUME Typed, sample # <<>>
  PROVE  sample[1] \in target
  BY DEF Typed

LEMMA ToUpdateShape ==
  ASSUME Typed, AttemptsOK, UNCHANGED given, ToUpdate
  PROVE  /\ pc' \in {"done", "update"}
         /\ reply' \in Reply \cup {Waiting}
         /\ pc' = "update" => reply' = Waiting /\ sample # <<>>
         /\ AttemptsOK'
         /\ update' = update \/ update' = "inconclusive"
<1>1. CASE caller = "trigger"
  BY <1>1 DEF ToUpdate, Halt, AttemptsOK, Others, Typed, given
<1>2. CASE caller = "probe" /\ Halt /\ UNCHANGED attempts
           /\ update' = "inconclusive"
  BY <1>2 DEF Halt, AttemptsOK, Others, Typed, given
<1>3. CASE /\ caller = "probe" /\ sample # <<>> /\ Attempts # <<>>
           /\ Send("update") /\ attempts' = Attempts /\ UNCHANGED update
  <2>1. Attempts \in {<<>>, <<"collision">>, <<"no-op">>,
                      <<"collision", "no-op">>}
    BY DEF Attempts
  <2>2. Attempts \in {<<"collision">>, <<"collision", "no-op">>}
          => Others # {}
    BY DEF Attempts
  <2>3. policy = "forbidden" => Attempts \in {<<>>, <<"collision">>}
    BY DEF Attempts
  <2>4. Others' = Others /\ policy' = policy
    BY DEF Others, given
  <2> QED BY <1>3, <2>1, <2>2, <2>3, <2>4 DEF AttemptsOK, Send
<1> QED BY <1>1, <1>2, <1>3, Zenon DEF ToUpdate

-----------------------------------------------------------------------------
(***************************************************************************)
(* What each statement does to the relation and says of it.                *)
(***************************************************************************)
Admits(d, r) == r.kind = "ok" \/ r.code \in {"23502", "23505"} => d.insert

LEMMA Replies ==
  /\ \A c \in Codes : Error(c) \in Reply
  /\ Error(NoCode) \in Reply /\ NoReply \in Reply /\ Throttled \in Reply
  /\ \A rs \in SUBSET Row : Ok(rs) \in Reply
BY DEF Reply, Error, NoReply, Throttled, Ok, Codes, NoCode

InsertEmptyGives(d, rs, u, o) ==
  /\ o.rows \in SUBSET Row /\ rs \subseteq o.rows /\ o.reply \in Reply
  /\ Admits(d, o.reply)
  /\ \A r \in o.reply.rows : r \in Row /\ (r.key = NoKey \/ r.key = u)

LEMMA InsertEmptyOutcome ==
  ASSUME NEW d \in Database, NEW rs \in SUBSET Row, NEW u \in Nat, NEW rb
  PROVE  InsertEmptyGives(d, rs, u, InsertEmpty(d, rs, u, rb))
<1> USE DEF InsertEmptyGives
<1> DEFINE new == [uid |-> u, key |-> IF d.key = "plain" THEN NoKey ELSE u]
           o == InsertEmpty(d, rs, u, rb)
<1>1. new \in Row /\ (new.key = NoKey \/ new.key = u)
  BY DEF Row, Keys, NoKey
<1>2. CASE ~d.insert \/ (rb /\ ~d.select)
  <2>1. o = Outcome(Error("42501"), rs)
    BY <1>2 DEF InsertEmpty
  <2> QED BY <2>1, Replies DEF Outcome, Error, Codes, Admits
<1>3. CASE d.insert /\ ~(rb /\ ~d.select) /\ d.notNull
  <2>1. o = Outcome(Error("23502"), rs)
    BY <1>3 DEF InsertEmpty
  <2> QED BY <2>1, <1>3, Replies DEF Outcome, Error, Codes, Admits
<1>4. CASE d.insert /\ ~(rb /\ ~d.select) /\ ~d.notNull
  <2>1. o = Outcome(Ok(IF rb THEN {new} ELSE {}), rs \cup {new})
    BY <1>4 DEF InsertEmpty
  <2> HIDE DEF o, new
  <2>2. o.rows = rs \cup {new} /\ o.reply = Ok(IF rb THEN {new} ELSE {})
    BY <2>1 DEF Outcome
  <2>3. o.reply.rows \subseteq {new}
    BY <2>2 DEF Ok
  <2> QED BY <1>1, <1>4, <2>2, <2>3, Replies DEF o, Admits
<1> QED BY <1>2, <1>3, <1>4

LEMMA InsertCopyOutcome ==
  ASSUME NEW d \in Database, NEW rs \in SUBSET Row, NEW u \in Nat,
         NEW r \in Row
  PROVE  LET o == InsertCopy(d, rs, u, r) IN
         /\ o.rows \in SUBSET Row /\ rs \subseteq o.rows /\ o.reply \in Reply
         /\ Admits(d, o.reply)
         /\ d.unique /\ r \in rs /\ r.key # NoKey =>
              o.reply.kind # "ok" /\ o.rows = rs
<1> DEFINE new == [uid |-> u, key |-> r.key]
           o == InsertCopy(d, rs, u, r)
<1>1. new \in Row
  BY DEF Row
<1>2. CASE d.key = "always"
  <2>1. o = Outcome(Error("428C9"), rs)
    BY <1>2 DEF InsertCopy
  <2> QED BY <2>1, Replies DEF Outcome, Error, Codes, Admits
<1>3. CASE d.key # "always" /\ (~d.insert \/ ~d.select)
  <2>1. o = Outcome(Error("42501"), rs)
    BY <1>3 DEF InsertCopy
  <2> QED BY <2>1, Replies DEF Outcome, Error, Codes, Admits
<1>4. CASE /\ d.key # "always" /\ d.insert /\ d.select
           /\ d.unique /\ WithKey(rs, r.key) # {}
  <2>1. o = Outcome(Error("23505"), rs)
    BY <1>4 DEF InsertCopy
  <2> QED BY <2>1, <1>4, Replies DEF Outcome, Error, Codes, Admits
<1>5. CASE /\ d.key # "always" /\ d.insert /\ d.select
           /\ ~(d.unique /\ WithKey(rs, r.key) # {})
  <2>1. o = Outcome(Ok({new}), rs \cup {new})
    BY <1>5 DEF InsertCopy
  <2>2. ~(d.unique /\ r \in rs /\ r.key # NoKey)
    BY <1>5 DEF WithKey
  <2> HIDE DEF o, new
  <2>3. o.rows = rs \cup {new} /\ o.reply = Ok({new})
    BY <2>1 DEF Outcome
  <2> QED BY <1>1, <1>5, <2>2, <2>3, Replies DEF o, Admits
<1> QED BY <1>2, <1>3, <1>4, <1>5

LEMMA DeleteKeyOutcome ==
  ASSUME NEW d, NEW rs \in SUBSET Row, NEW k
  PROVE  LET o == DeleteKey(d, rs, k) IN
         /\ o.rows \subseteq rs /\ o.reply \in Reply
         /\ \A r \in rs : k = NoKey \/ r.key # k => r \in o.rows
<1>1. Candidates(d, d.delete, rs, k) \subseteq WithKey(rs, k)
  BY DEF Candidates
<1> QED BY <1>1, Replies DEF DeleteKey, Outcome, Error, Ok, Codes, WithKey

LEMMA SelectKeyOutcome ==
  ASSUME NEW d, NEW rs \in SUBSET Row, NEW k
  PROVE  LET o == SelectKey(d, rs, k) IN o.rows = rs /\ o.reply \in Reply
<1>1. WithKey(rs, k) \in SUBSET Row
  BY DEF WithKey
<1> QED BY <1>1, Replies DEF SelectKey, Outcome, Codes

\* An UPDATE says "reached" only where it is allowed; with a unique key it
\* changes nothing if the new key is the old one or another row's.
UpdateKeyGives(d, rs, k, column, k2, o) ==
  /\ o.rows \in SUBSET Row /\ o.reply \in Reply
  /\ o.reply.rows # {} \/ o.reply.code \in {"23502", "23505"}
       => d.update = "allow"
  /\ column = "other" \/ k2 = k => o.rows = rs
  /\ d.unique /\ column = "key" /\ k2 # k /\ k2 # NoKey
       /\ (\E x \in rs : x.key = k2)
       => o.rows = rs /\ o.reply.rows = {}

LEMMA UpdateKeyOutcome ==
  ASSUME NEW d \in Database, NEW rs \in SUBSET Row, NEW k \in Nat,
         NEW column \in {"key", "other"}, NEW k2 \in Nat
  PROVE  UpdateKeyGives(d, rs, k, column, k2, UpdateKey(d, rs, k, column, k2))
<1> USE DEF UpdateKeyGives
<1> DEFINE hit == Candidates(d, d.update, rs, k)
           o == UpdateKey(d, rs, k, column, k2)
           moved == {[r EXCEPT !.key = k2] : r \in hit}
<1>1. hit \in SUBSET Row /\ (\A r \in hit : r \in rs /\ r.key = k)
  BY DEF Candidates, WithKey
<1>2. hit # {} => d.update = "allow"
  BY DEF Candidates
<1>3. CASE o = Outcome(Error("428C9"), rs) \/ o = Outcome(Error("42501"), rs)
  BY <1>3, Replies DEF Outcome, Error, Codes
<1>4. CASE column = "other" /\ o = Outcome(Ok(hit), rs)
  <2>1. o.rows = rs /\ o.reply = Ok(hit) /\ o.reply.rows = hit
        /\ o.reply.code = NoCode
    BY <1>4 DEF Outcome, Ok
  <2> QED BY <1>1, <1>2, <1>4, <2>1, Replies DEF NoCode
<1>5. CASE hit # {} /\ o = Outcome(Error("23505"), rs)
  BY <1>2, <1>5, Replies DEF Outcome, Error, Codes
<1>6. CASE /\ column = "key"
           /\ ~(d.unique /\ hit # {} /\ WithKey(rs \ hit, k2) # {})
           /\ o = Outcome(Ok(hit), (rs \ hit) \cup moved)
  <2>1. o.rows = (rs \ hit) \cup moved /\ o.reply = Ok(hit)
        /\ o.reply.rows = hit /\ o.reply.code = NoCode
    BY <1>6 DEF Outcome, Ok
  <2>2. moved \in SUBSET Row
    BY <1>1 DEF Row, Keys
  <2>3. k2 = k => moved = hit
    BY <1>1 DEF Row
  <2>4. ASSUME d.unique, k2 # k, k2 # NoKey, NEW x \in rs, x.key = k2
        PROVE  hit = {}
    <3>1. x \notin hit
      BY <1>1, <2>4
    <3>2. WithKey(rs \ hit, k2) # {}
      BY <2>4, <3>1 DEF WithKey
    <3> QED BY <1>6, <2>4, <3>2
  <2> HIDE DEF hit, o
  <2>5. hit = {} => moved = {}
    OBVIOUS
  <2> HIDE DEF moved
  <2>6. k2 = k => o.rows = rs
    BY <1>1, <2>1, <2>3
  <2> QED BY <1>1, <1>2, <1>6, <2>1, <2>2, <2>4, <2>5, <2>6, Replies DEF o, NoCode
<1> QED BY <1>3, <1>4, <1>5, <1>6 DEF UpdateKey

-----------------------------------------------------------------------------
(***************************************************************************)
(* The request in flight.                                                  *)
(***************************************************************************)
\* What an answer may be given the relation, whether it was sent or made up by
\* a fault on the way.
Truthful(r) ==
  /\ r \in Reply
  /\ pc \in {"insert", "bare"} /\ ClassifyWrite(r) = "reached" => db.insert
  /\ pc = "update" /\ ClassifyAffected(r) = "reached" => db.update = "allow"
  /\ Settled /\ pc = "insert" /\ r.kind = "ok" => \A x \in r.rows : Apart(x)
  /\ Settled /\ policy = "forbidden" /\ pc = "insert" => r.kind # "ok"

LEMMA Verdicts ==
  ASSUME NEW r \in Reply
  PROVE  /\ ClassifyWrite(r) = "reached"
              => r.kind = "ok" \/ r.code \in {"23502", "23505"}
         /\ ClassifyAffected(r) = "reached"
              => r.rows # {} \/ r.code \in {"23502", "23505"}
<1>1. r.kind \in {"ok", "error", "none", "throttled"}
      /\ r.code \in Codes \cup {NoCode}
  BY DEF Reply
<1> QED BY <1>1 DEF ClassifyWrite, ClassifyAffected, ClassifyCode, Uncoded,
                    Codes, NoCode

\* No fault makes an answer that would be read as "reached".
LEMMA FaultsTell ==
  /\ Truthful(NoReply) /\ Truthful(Throttled) /\ Truthful(Error(NoCode))
<1>1. /\ ClassifyWrite(NoReply) # "reached"
      /\ ClassifyAffected(NoReply) # "reached"
      /\ ClassifyWrite(Throttled) # "reached"
      /\ ClassifyAffected(Throttled) # "reached"
      /\ ClassifyWrite(Error(NoCode)) # "reached"
      /\ ClassifyAffected(Error(NoCode)) # "reached"
  BY DEF ClassifyWrite, ClassifyAffected, Uncoded, NoReply, Throttled, Error,
         NoCode
<1> QED BY <1>1, Replies DEF Truthful, NoReply, Throttled, Error

\* What the request does if it gets there.
EffectIsSafe ==
  /\ Effect.rows \in SUBSET Row /\ Truthful(Effect.reply)
  /\ Settled => target \subseteq Effect.rows
  /\ Settled /\ policy = "forbidden" =>
       Effect.rows = rows /\ (pc = "update" => Effect.reply.rows = {})

LEMMA DbTyped == ASSUME Ind
                 PROVE  db \in Database /\ rows \in SUBSET Row /\ serial \in Nat
BY DEF Ind, Typed

LEMMA InsertEffect ==
  ASSUME Ind, pc = "insert" PROVE EffectIsSafe
<1> USE DEF Ind
<1>1. CASE policy = "forbidden"
  <2>1. sample[1] \in target /\ sample[1] \in Row /\ sample[1].key # NoKey
    BY <1>1, SampleRows, TargetRows DEF Routed
  <2>2. Effect = InsertCopy(db, rows, serial, sample[1])
    BY <1>1 DEF Effect
  <2>3. /\ Effect.rows \in SUBSET Row /\ rows \subseteq Effect.rows
        /\ Effect.reply \in Reply /\ Admits(db, Effect.reply)
        /\ db.unique /\ sample[1] \in rows =>
             Effect.reply.kind # "ok" /\ Effect.rows = rows
    BY DbTyped, <2>1, <2>2, InsertCopyOutcome
  <2>4. Settled => /\ Effect.reply.kind # "ok" /\ Effect.rows = rows
                   /\ target \subseteq rows
    BY <2>1, <2>3 DEF CleanupIsOurs, Settled
  <2>5. ClassifyWrite(Effect.reply) = "reached" => db.insert
    BY <2>3, Verdicts DEF Admits
  <2> QED BY <2>3, <2>4, <2>5 DEF EffectIsSafe, Truthful
<1>2. CASE policy # "forbidden"
  <2>1. Effect = InsertEmpty(db, rows, serial, TRUE)
    BY <1>2 DEF Effect
  <2>2. /\ Effect.rows \in SUBSET Row /\ rows \subseteq Effect.rows
        /\ Effect.reply \in Reply /\ Admits(db, Effect.reply)
        /\ \A r \in Effect.reply.rows : r.key = NoKey \/ r.key = serial
    <3>1. InsertEmptyGives(db, rows, serial, Effect)
      BY DbTyped, <2>1, InsertEmptyOutcome
    <3> QED BY <3>1 DEF InsertEmptyGives
  <2>3. \A r \in Effect.reply.rows : Apart(r)
    BY <2>2 DEF Typed, Apart
  <2>4. ClassifyWrite(Effect.reply) = "reached" => db.insert
    BY <2>2, Verdicts DEF Admits
  <2>5. Settled => target \subseteq Effect.rows
    BY <2>2 DEF CleanupIsOurs
  <2> QED BY <1>2, <2>2, <2>3, <2>4, <2>5 DEF EffectIsSafe, Truthful
<1> QED BY <1>1, <1>2

LEMMA BareEffect ==
  ASSUME Ind, pc = "bare" PROVE EffectIsSafe
<1> USE DEF Ind
<1>1. Effect = InsertEmpty(db, rows, serial, FALSE)
  BY DEF Effect
<1>2. /\ Effect.rows \in SUBSET Row /\ rows \subseteq Effect.rows
      /\ Effect.reply \in Reply /\ Admits(db, Effect.reply)
  BY DbTyped, <1>1, InsertEmptyOutcome DEF InsertEmptyGives
<1> QED BY <1>2, Verdicts
        DEF EffectIsSafe, Truthful, Admits, CleanupIsOurs, NothingLands

LEMMA DeleteEffect ==
  ASSUME Ind, pc = "delete" PROVE EffectIsSafe
<1> USE DEF Ind
<1>1. Effect = DeleteKey(db, rows, row.key)
  BY DEF Effect
<1>2. /\ Effect.rows \subseteq rows /\ Effect.reply \in Reply
      /\ \A r \in rows : row.key = NoKey \/ r.key # row.key => r \in Effect.rows
  BY <1>1, DeleteKeyOutcome DEF Typed
<1>3. Settled => target \subseteq Effect.rows
  BY <1>2, TargetRows DEF CleanupIsOurs, Typed
<1> QED BY <1>2, <1>3 DEF EffectIsSafe, Truthful, Typed, NothingLands

LEMMA VerifyEffect ==
  ASSUME Ind, pc = "verify" PROVE EffectIsSafe
<1> USE DEF Ind
<1>1. Effect = SelectKey(db, rows, row.key)
  BY DEF Effect
<1>2. Effect.rows = rows /\ Effect.reply \in Reply
  BY <1>1, SelectKeyOutcome DEF Typed
<1> QED BY <1>2 DEF EffectIsSafe, Truthful, Typed, NothingLands, CleanupIsOurs

LEMMA UpdateEffect ==
  ASSUME Ind, pc = "update" PROVE EffectIsSafe
<1> USE DEF Ind
<1> DEFINE k == sample[1].key
<1>1. sample[1] \in target /\ k \in Nat /\ k # NoKey
  BY SampleRows, TargetRows DEF Routed
<1>2. CASE Head(attempts) = "collision"
  <2>1. Others # {}
    BY <1>2 DEF AttemptsOK
  <2>2. PICK j \in 2..Len(sample) : CollidingKey = sample[j].key
                                    /\ sample[j].key # k
    BY <2>1, CollidingKeyHeld DEF Typed
  <2>3. sample[j] \in target
    BY DEF Typed
  <2>4. CollidingKey \in Nat /\ CollidingKey # NoKey
    BY <2>2, <2>3, TargetRows
  <2>5. Effect = UpdateKey(db, rows, k, "key", CollidingKey)
    BY <1>2 DEF Effect
  <2> HIDE DEF k
  <2>6. /\ Effect.rows \in SUBSET Row /\ Effect.reply \in Reply
        /\ Effect.reply.rows # {} \/ Effect.reply.code \in {"23502", "23505"}
             => db.update = "allow"
        /\ db.unique /\ (\E x \in rows : x.key = CollidingKey)
             => Effect.rows = rows /\ Effect.reply.rows = {}
    <3>1. UpdateKeyGives(db, rows, k, "key", CollidingKey, Effect)
      BY DbTyped, <1>1, <2>4, <2>5, UpdateKeyOutcome
    <3> QED BY <2>2, <2>4, <3>1 DEF UpdateKeyGives
  <2>7. Settled => Effect.rows = rows /\ Effect.reply.rows = {}
    BY <2>2, <2>3, <2>6 DEF CleanupIsOurs, Settled
  <2>8. ClassifyAffected(Effect.reply) = "reached" => db.update = "allow"
    BY <2>6, Verdicts
  <2>9. Settled => target \subseteq Effect.rows
    BY <2>7 DEF CleanupIsOurs
  <2> QED BY <2>6, <2>7, <2>8, <2>9 DEF EffectIsSafe, Truthful
<1>3. CASE Head(attempts) # "collision"
  <2>1. Effect = UpdateKey(db, rows, k, NoopColumn, k)
    BY <1>3 DEF Effect
  <2>2. NoopColumn \in {"key", "other"}
    BY DEF NoopColumn
  <2>3. policy # "forbidden"
    BY <1>3 DEF AttemptsOK
  <2> HIDE DEF k
  <2>4. /\ Effect.rows = rows /\ Effect.reply \in Reply
        /\ Effect.reply.rows # {} \/ Effect.reply.code \in {"23502", "23505"}
             => db.update = "allow"
    <3>1. UpdateKeyGives(db, rows, k, NoopColumn, k, Effect)
      BY DbTyped, <1>1, <2>1, <2>2, UpdateKeyOutcome
    <3> QED BY <3>1 DEF UpdateKeyGives
  <2>5. ClassifyAffected(Effect.reply) = "reached" => db.update = "allow"
    BY <2>4, Verdicts
  <2>6. Effect.rows \in SUBSET Row /\ (Settled => target \subseteq Effect.rows)
    BY <2>4 DEF CleanupIsOurs, Typed
  <2> QED BY <2>3, <2>4, <2>5, <2>6 DEF EffectIsSafe, Truthful
<1> QED BY <1>2, <1>3

LEMMA EffectsAreSafe == ASSUME Ind, InFlight PROVE EffectIsSafe
BY InsertEffect, BareEffect, DeleteEffect, VerifyEffect, UpdateEffect
   DEF InFlight

-----------------------------------------------------------------------------
(***************************************************************************)
(* The steps: first a request that is answered, or not; then the handlers. *)
(***************************************************************************)
LEMMA WaitingTells ==
  /\ Waiting.kind # "ok" /\ ClassifyWrite(Waiting) # "reached"
  /\ ClassifyAffected(Waiting) # "reached"
BY DEF Waiting, ClassifyWrite, ClassifyAffected, Uncoded, NoCode

LEMMA OthersFixed == ASSUME UNCHANGED given PROVE Others' = Others
BY DEF Others, given

\* The reply a request settles on is the one it got, or none yet.
LEMMA SettledReply ==
  ASSUME NEW r, Truthful(r), Settle(r), UNCHANGED <<given, gone, pc>>
  PROVE  /\ reply' \in Reply \cup {Waiting}
         /\ RepliesTell'
         /\ Settled /\ pc = "insert" /\ reply'.kind = "ok"
              => \A x \in reply'.rows : Apart(x)
         /\ Settled /\ policy = "forbidden" /\ pc = "insert"
              => reply'.kind # "ok"
<1>1. reply' = r \/ reply' = Waiting
  BY DEF Settle
<1>2. pc' = pc /\ db' = db
  BY DEF given
<1> QED BY <1>1, <1>2, WaitingTells DEF Truthful, RepliesTell

LEMMA AttemptsStay ==
  ASSUME AttemptsOK, UNCHANGED <<given, pc, attempts>> PROVE AttemptsOK'
BY OthersFixed DEF AttemptsOK, given

\* The statement ran, whatever comes back of it.
LEMMA Delivered ==
  ASSUME Ind, InFlight, Apply, NEW r, Truthful(r), Settle(r),
         UNCHANGED <<given, gone, pc, row, attempts, verdicts>>
  PROVE  Ind'
<1>1. EffectIsSafe
  BY EffectsAreSafe
<1>2. Settled' = Settled /\ policy' = policy /\ target' = target
      /\ sample' = sample /\ db' = db /\ caller' = caller
  BY DEF Settled, given
<1>3. Typed'
  <2>1. rows' \subseteq Row
    BY <1>1 DEF EffectIsSafe, Apply
  <2>2. serial' \in Nat /\ serial' > Base
    BY BaseAssumption DEF Ind, Typed, Apply
  <2> QED BY <1>2, <2>1, <2>2, SettledReply DEF Ind, Typed
<1>4. AttemptsOK' /\ Routed' /\ RepliesTell'
  BY <1>2, AttemptsStay, SettledReply DEF Ind, Routed
<1>5. ReachedIsSound'
  BY <1>2 DEF Ind, ReachedIsSound, verdicts
<1>6. CleanupIsOurs'
  <2>1. Settled => target \subseteq rows'
    BY <1>1 DEF EffectIsSafe, Apply
  <2> QED BY <1>2, <2>1, SettledReply DEF Ind, CleanupIsOurs, Apart
<1>7. NothingLands'
  <2>1. Settled /\ policy = "forbidden" => ~touched'
    BY <1>1 DEF Ind, NothingLands, EffectIsSafe, Apply
  <2> QED BY <1>2, <2>1, SettledReply DEF Ind, NothingLands
<1> QED BY <1>3, <1>4, <1>5, <1>6, <1>7 DEF Ind

LEMMA UndeliveredKeeps == ASSUME Ind, Undelivered PROVE Ind'
<1>1. \E r \in {NoReply, Throttled, Error(NoCode)} : Settle(r)
  BY DEF Undelivered
<1>2. PICK r : Truthful(r) /\ Settle(r)
  BY <1>1, FaultsTell
<1>3. UNCHANGED <<given, rows, serial, gone, touched, pc, row, attempts, verdicts>>
  BY DEF Undelivered
<1>4. Settled' = Settled /\ policy' = policy /\ target' = target
      /\ sample' = sample /\ db' = db /\ caller' = caller
  BY <1>3 DEF Settled, given
<1>5. Typed'
  BY <1>2, <1>3, <1>4, SettledReply DEF Ind, Typed
<1>6. AttemptsOK' /\ Routed' /\ RepliesTell'
  BY <1>2, <1>3, <1>4, AttemptsStay, SettledReply DEF Ind, Routed
<1>7. ReachedIsSound'
  BY <1>3, <1>4 DEF Ind, ReachedIsSound, verdicts
<1>8. CleanupIsOurs' /\ NothingLands'
  BY <1>2, <1>3, <1>4, SettledReply DEF Ind, CleanupIsOurs, NothingLands, Apart
<1> QED BY <1>5, <1>6, <1>7, <1>8 DEF Ind

LEMMA AnsweredKeeps == ASSUME Ind, Answered PROVE Ind'
BY Delivered, EffectsAreSafe DEF Answered, EffectIsSafe

LEMMA LoseReplyKeeps == ASSUME Ind, LoseReply PROVE Ind'
BY Delivered, FaultsTell DEF LoseReply, CanFail

LEMMA TruncateKeeps == ASSUME Ind, Truncate PROVE Ind'
<1>1. Truthful(Effect.reply) /\ pc = "insert" /\ Effect.reply.kind = "ok"
  BY EffectsAreSafe DEF Truncate, CanFail, EffectIsSafe
<1>2. ClassifyWrite(Effect.reply) = "reached"
  BY <1>1 DEF ClassifyWrite
<1>3. Truthful(Ok({}))
  BY <1>1, <1>2, Replies DEF Truthful, Ok
<1> QED BY <1>3, Delivered DEF Truncate, CanFail

LEMMA OwnerDeletesKeeps == ASSUME Ind, OwnerDeletes PROVE Ind'
<1>1. UNCHANGED <<given, serial, touched, pc, reply, row, attempts, verdicts>>
      /\ rows' \subseteq rows /\ gone' # {}
  BY DEF OwnerDeletes
<1>2. ~Settled'
  BY <1>1 DEF Settled
<1>3. Typed' /\ AttemptsOK' /\ Routed' /\ RepliesTell' /\ ReachedIsSound'
  BY <1>1, AttemptsStay
     DEF Ind, Typed, Routed, RepliesTell, ReachedIsSound, given, verdicts
<1> QED BY <1>2, <1>3 DEF Ind, CleanupIsOurs, NothingLands

\* A handler that is done with INSERT and goes on to UPDATE.
LEMMA GoOn ==
  ASSUME Ind, ToUpdate, UNCHANGED <<given, world>>, row' \in Row,
         write' = "reached" => db.insert
  PROVE  Ind'
<1>1. /\ pc' \in {"done", "update"} /\ reply' \in Reply \cup {Waiting}
      /\ pc' = "update" => reply' = Waiting /\ sample # <<>>
      /\ AttemptsOK' /\ (update' = update \/ update' = "inconclusive")
  BY ToUpdateShape DEF Ind
<1>2. UNCHANGED <<db, target, sample, caller, policy, rows, serial, touched, gone>>
  BY DEF given, world
<1>3. Typed' /\ Routed'
  BY <1>1, <1>2 DEF Ind, Typed, Routed, Stages
<1>4. RepliesTell' /\ ReachedIsSound'
  BY <1>1, <1>2, WaitingTells DEF Ind, RepliesTell, ReachedIsSound
<1>5. CleanupIsOurs' /\ NothingLands'
  BY <1>1, <1>2 DEF Ind, CleanupIsOurs, NothingLands, Settled
<1> QED BY <1>1, <1>3, <1>4, <1>5 DEF Ind

\* A handler that sends another request before UPDATE.
LEMMA SendOn ==
  ASSUME Ind, NEW stage \in {"insert", "bare", "delete", "verify"}, Send(stage),
         UNCHANGED <<given, world, attempts, update>>, row' \in Row,
         write' = "reached" => db.insert,
         stage = "bare" => policy = "allowed",
         stage = "insert" /\ policy = "forbidden" => sample # <<>>,
         stage \in {"delete", "verify"} /\ Settled =>
           Apart(row') /\ policy # "forbidden"
  PROVE  Ind'
<1>1. pc' = stage /\ reply' = Waiting
  BY DEF Send
<1>2. UNCHANGED <<db, target, sample, caller, policy, rows, serial, touched, gone>>
  BY DEF given, world
<1>3. Typed' /\ Routed'
  BY <1>1, <1>2 DEF Ind, Typed, Routed, Stages
<1>4. AttemptsOK'
  BY <1>1, <1>2, OthersFixed DEF Ind, AttemptsOK
<1>5. RepliesTell' /\ ReachedIsSound'
  BY <1>1, <1>2, WaitingTells DEF Ind, RepliesTell, ReachedIsSound
<1>6. CleanupIsOurs' /\ NothingLands'
  BY <1>1, <1>2, WaitingTells
     DEF Ind, CleanupIsOurs, NothingLands, Settled, Apart
<1> QED BY <1>3, <1>4, <1>5, <1>6 DEF Ind

LEMMA StartKeeps == ASSUME Ind, Start PROVE Ind'
<1>1. CASE write' = "inconclusive" /\ ToUpdate
  BY <1>1, GoOn DEF Start, Ind, Typed
<1>2. CASE /\ policy # "forbidden" \/ sample # <<>>
           /\ Send("insert") /\ UNCHANGED <<write, update, attempts>>
  BY <1>2, SendOn DEF Start, Ind, Typed, ReachedIsSound
<1> QED BY <1>1, <1>2 DEF Start

\* A row that came back is typed, and under a settled relation it is ours.
LEMMA ReturnedRow ==
  ASSUME Ind, At("insert"), NEW r \in reply.rows
  PROVE  r \in Row /\ (Settled /\ reply.kind = "ok" =>
                         Apart(r) /\ policy # "forbidden")
<1>1. reply \in Reply
  BY DEF Ind, Typed, At
<1> QED BY <1>1 DEF Ind, At, Reply, CleanupIsOurs, NothingLands

LEMMA InsertAnsweredKeeps == ASSUME Ind, InsertAnswered PROVE Ind'
<1> USE DEF InsertAnswered
<1>1. pc = "insert" /\ UNCHANGED <<given, world>> /\ row \in Row
  BY DEF At, Ind, Typed
<1>2. ClassifyWrite(reply) = "reached" => db.insert
  BY <1>1 DEF Ind, RepliesTell
<1>3. reply.kind = "ok" => db.insert
  BY <1>2 DEF ClassifyWrite
<1>4. CASE /\ write' \in {"unknown", "inconclusive"} /\ ToUpdate
           /\ UNCHANGED row
  BY <1>1, <1>4, GoOn
<1>5. CASE /\ reply.kind = "ok" /\ write' = "reached" /\ row' \in reply.rows
           /\ Send("delete") /\ UNCHANGED <<update, attempts>>
  <2>1. row' \in Row /\ (Settled => Apart(row') /\ policy # "forbidden")
    BY <1>5, ReturnedRow
  <2> QED BY <1>1, <1>3, <1>5, <2>1, SendOn
<1>6. CASE /\ reply.kind = "ok" /\ write' = "reached" /\ row' \in reply.rows
           /\ ToUpdate
  BY <1>1, <1>3, <1>6, ReturnedRow, GoOn
<1>7. CASE /\ reply.kind = "ok" /\ write' = "reached" /\ UNCHANGED row
           /\ ToUpdate
  BY <1>1, <1>3, <1>7, GoOn
<1>8. CASE NeedsBare /\ Send("bare") /\ UNCHANGED <<row, verdicts, attempts>>
  BY <1>1, <1>8, SendOn DEF NeedsBare, verdicts, Ind, ReachedIsSound
<1>9. CASE write' = ClassifyWrite(reply) /\ ToUpdate /\ UNCHANGED row
  BY <1>1, <1>2, <1>9, GoOn
<1> QED BY <1>4, <1>5, <1>6, <1>7, <1>8, <1>9

LEMMA BareAnsweredKeeps == ASSUME Ind, BareAnswered PROVE Ind'
<1>1. pc = "bare" /\ UNCHANGED <<given, world, row>> /\ row \in Row
  BY DEF BareAnswered, At, Ind, Typed
<1>2. ClassifyWrite(reply) = "reached" => db.insert
  BY <1>1 DEF Ind, RepliesTell
<1>3. write' = "reached" => ClassifyWrite(reply) = "reached"
  BY DEF BareAnswered, ClassifyWrite
<1> QED BY <1>1, <1>2, <1>3, GoOn DEF BareAnswered

LEMMA DeleteAnsweredKeeps == ASSUME Ind, DeleteAnswered PROVE Ind'
<1> USE DEF DeleteAnswered
<1>1. /\ pc = "delete" /\ UNCHANGED <<given, world, row, write>>
      /\ row \in Row /\ (write = "reached" => db.insert)
      /\ Settled => Apart(row) /\ policy # "forbidden"
  BY DEF At, Ind, Typed, ReachedIsSound, CleanupIsOurs, NothingLands
<1>2. CASE Send("verify") /\ UNCHANGED <<update, attempts>>
  BY <1>1, <1>2, SendOn
<1>3. CASE ToUpdate
  BY <1>1, <1>3, GoOn
<1> QED BY <1>2, <1>3

LEMMA VerifyAnsweredKeeps == ASSUME Ind, VerifyAnswered PROVE Ind'
BY GoOn DEF VerifyAnswered, Ind, Typed, ReachedIsSound

LEMMA UpdateAnsweredKeeps == ASSUME Ind, UpdateAnswered PROVE Ind'
<1> USE DEF UpdateAnswered
<1>1. /\ pc = "update" /\ UNCHANGED <<given, world, row, write>>
      /\ UNCHANGED <<db, target, sample, caller, policy, rows, serial, touched,
                     gone>>
      /\ reply \in Reply \cup {Waiting} /\ Settled' = Settled
  BY DEF At, Ind, Typed, given, world, Settled
<1>2. CASE /\ ~LastBody /\ attempts' = Tail(attempts) /\ Send("update")
           /\ UNCHANGED update
  <2>1. attempts = <<"collision", "no-op">>
    BY <1>1, <1>2 DEF Ind, AttemptsOK, LastBody
  <2>2. attempts' = <<"no-op">>
    BY <1>2, <2>1
  <2>3. pc' = "update" /\ reply' = Waiting
    BY <1>2 DEF Send
  <2>4. AttemptsOK' /\ Typed' /\ Routed'
    BY <1>1, <2>1, <2>2, <2>3 DEF Ind, AttemptsOK, Typed, Routed
  <2>5. RepliesTell' /\ ReachedIsSound' /\ CleanupIsOurs' /\ NothingLands'
    BY <1>1, <1>2, <2>3, WaitingTells DEF Ind, RepliesTell, ReachedIsSound,
       CleanupIsOurs, NothingLands
  <2> QED BY <2>4, <2>5 DEF Ind
<1>3. CASE /\ update' = IF reply.kind = "none" THEN "unknown"
                                               ELSE ClassifyAffected(reply)
           /\ Halt /\ UNCHANGED attempts
  <2>1. pc' = "done" /\ reply' = reply
    BY <1>3 DEF Halt
  <2>2. update' = "reached" => db.update = "allow"
    BY <1>1, <1>3 DEF Ind, RepliesTell
  <2>3. AttemptsOK' /\ Typed' /\ Routed'
    BY <1>1, <1>3, <2>1, OthersFixed DEF Ind, AttemptsOK, Typed, Routed
  <2>4. RepliesTell' /\ ReachedIsSound' /\ CleanupIsOurs' /\ NothingLands'
    BY <1>1, <2>1, <2>2 DEF Ind, RepliesTell, ReachedIsSound,
       CleanupIsOurs, NothingLands
  <2> QED BY <2>3, <2>4 DEF Ind
<1> QED BY <1>2, <1>3

LEMMA InitInd == ASSUME Init PROVE Ind
<1>1. target \in Tables /\ IsFiniteSet(target) /\ target \subseteq Row
  BY TablesAssumption DEF Init
<1>2. sample \in Seq(target)
  <2>1. PICK n \in 0..Cardinality(target) : sample \in [1..n -> target]
    BY DEF Init
  <2>2. n \in Nat
    BY <1>1, <2>1, FS_CardinalityType
  <2> QED BY <2>1, <2>2
<1>3. Typed
  BY <1>1, <1>2, BaseAssumption, DatabasesAssumption
     DEF Init, Typed, Row, NoRow, NoKey, Keys, Policies
<1> QED BY <1>3, WaitingTells
        DEF Init, Ind, AttemptsOK, Routed, RepliesTell, ReachedIsSound,
            CleanupIsOurs, NothingLands

LEMMA StepKeepsInd == ASSUME Ind, [Next]_vars PROVE Ind'
<1>1. CASE UNCHANGED vars
  BY <1>1, OthersFixed
     DEF vars, given, world, verdicts, Ind, Typed, AttemptsOK, Routed,
         RepliesTell, ReachedIsSound, CleanupIsOurs, NothingLands, Settled,
         Apart
<1>2. CASE Next
  BY <1>2, StartKeeps, AnsweredKeeps, LoseReplyKeeps, TruncateKeeps,
     UndeliveredKeeps, OwnerDeletesKeeps, InsertAnsweredKeeps,
     BareAnsweredKeeps, DeleteAnsweredKeeps, VerifyAnsweredKeeps,
     UpdateAnsweredKeeps DEF Next
<1> QED BY <1>1, <1>2

THEOREM SpecInd == Spec => []Ind
BY InitInd, StepKeepsInd, PTL DEF Spec

\* No fault, retry or concurrent removal makes insertProbe or updateProbe say
\* "reached" of a relation whose policies refuse the write.
THEOREM NoFalsePositive == Spec => []ReachedIsSound
<1>1. Ind => ReachedIsSound
  BY DEF Ind
<1> QED BY <1>1, SpecInd, PTL

\* Under -no-residue, and as long as the sampled rows are there, no statement
\* of the scan writes a tuple into a relation with a unique key.
THEOREM NoResidueKept == Spec => []ForbiddenWritesNothing
<1>1. Ind => ForbiddenWritesNothing
  BY DEF Ind, NothingLands, ForbiddenWritesNothing, Settled
<1> QED BY <1>1, SpecInd, PTL

\* The scan removes and alters no row of a relation with a unique key.
THEOREM TargetKept == Spec => []TargetUntouched
<1>1. Ind => TargetUntouched
  BY DEF Ind, CleanupIsOurs, TargetUntouched, Settled
<1> QED BY <1>1, SpecInd, PTL

-----------------------------------------------------------------------------
(***************************************************************************)
(* Where the retries absorb the faults, what was answered is what was      *)
(* done: the verdicts are right in both directions, and so is the word on  *)
(* what is left.                                                           *)
(***************************************************************************)
\* Requests go missing on the way there only, fewer than are sent again.
Absorbed == FaultKinds \subseteq {"unsent", "throttled"} /\ MaxFaults <= Retries

\* Every fault so far cost at most one attempt.
Patient ==
  /\ faults \in 0..MaxFaults /\ tries \in Nat
  /\ pc \in Stages /\ reply = Waiting => tries + faults > Retries

\* Rows of the scan's own.
Ours == {r \in rows : r.uid > Base}

\* What the DELETE left.
Removed == IF db.delete = "allow" THEN WithKey(rows, row.key) = {} /\ Ours = {}
                                  ELSE Ours = {row}

BeforeInsert ==
  \/ pc = "start"
  \/ pc \in {"insert", "bare"} /\ reply = Waiting

InsertTells ==
  \/ reply.kind = "error" /\ reply.code \in Codes /\ Ours = {}
  \/ reply.kind = "ok" /\ db.select /\ \E x \in Ours : reply.rows = {x} /\ Ours = {x}

BareTells ==
  \/ /\ reply.kind = "error" /\ Ours = {}
     /\ reply.code = "23502" \/ (reply.code = "42501" /\ ~db.insert)
  \/ reply.kind = "ok" /\ Ours # {}

DeleteTells ==
  \/ /\ reply.kind = "error" /\ reply.code = "42501"
     /\ db.delete = "noGrant" /\ Ours = {row}
  \/ reply.kind = "ok" /\ Removed

\* The row an UPDATE aims at is there, unless its owner removed it.
UpdateTells ==
  \/ reply.kind = "error" /\ reply.code \in Codes
       /\ (reply.code = "42501" => db.update = "noGrant")
  \/ reply.kind = "ok" /\ reply.code = NoCode
       /\ (reply.rows = {} /\ Settled => Barred(db.update))

Answers ==
  /\ BeforeInsert => Ours = {} /\ ~cleanupErr
  /\ At("insert") => InsertTells /\ ~cleanupErr
  /\ At("bare") => BareTells /\ ~cleanupErr
  /\ pc \in {"delete", "verify"} => db.select /\ HasKey(row) /\ ~cleanupErr
  /\ pc = "delete" /\ reply = Waiting => Ours = {row}
  /\ At("delete") => DeleteTells
  /\ pc = "verify" => Removed
  /\ At("verify") => reply.kind = "ok" /\ reply.rows = WithKey(rows, row.key)
  /\ pc = "update" => caller = "probe" /\ db.select
  /\ At("update") => UpdateTells
  /\ pc \in {"update", "done"} /\ caller = "probe" => (cleanupErr <=> Ours # {})
  /\ sample # <<>> => db.select

\* Both verdicts, of what was in place when they were earned.
Refusals == /\ write = "blocked" => ~db.insert
            /\ update = "blocked" /\ Settled => Barred(db.update)
            /\ ~Busy => gone = {}

IndAbsorbed == Patient /\ Answers /\ Refusals /\ RemovalIsSound

\* What the empty INSERT says is what it did.
InsertEmptySays(d, rs, u, rb, o) ==
  \/ /\ o.rows = rs /\ o.reply = Error("42501")
     /\ ~d.insert \/ (rb /\ ~d.select)
  \/ o.rows = rs /\ o.reply = Error("23502")
  \/ \E x \in Row : /\ x.uid = u /\ o.rows = rs \cup {x}
                    /\ o.reply = Ok(IF rb THEN {x} ELSE {})
                    /\ rb => d.select

LEMMA InsertEmptyTells ==
  ASSUME NEW d \in Database, NEW rs \in SUBSET Row, NEW u \in Nat,
         NEW rb \in BOOLEAN
  PROVE  InsertEmptySays(d, rs, u, rb, InsertEmpty(d, rs, u, rb))
<1> USE DEF InsertEmptySays
<1> DEFINE new == [uid |-> u, key |-> IF d.key = "plain" THEN NoKey ELSE u]
           o == InsertEmpty(d, rs, u, rb)
<1>1. new \in Row /\ new.uid = u
  BY DEF Row, Keys, NoKey
<1>2. CASE ~d.insert \/ (rb /\ ~d.select)
  <2>1. o = Outcome(Error("42501"), rs)
    BY <1>2 DEF InsertEmpty
  <2> QED BY <1>2, <2>1 DEF Outcome
<1>3. CASE d.insert /\ ~(rb /\ ~d.select) /\ d.notNull
  <2>1. o = Outcome(Error("23502"), rs)
    BY <1>3 DEF InsertEmpty
  <2> QED BY <2>1 DEF Outcome
<1>4. CASE d.insert /\ ~(rb /\ ~d.select) /\ ~d.notNull
  <2>1. o = Outcome(Ok(IF rb THEN {new} ELSE {}), rs \cup {new})
    BY <1>4 DEF InsertEmpty
  <2> HIDE DEF o, new
  <2>2. o.rows = rs \cup {new} /\ o.reply = Ok(IF rb THEN {new} ELSE {})
    BY <2>1 DEF Outcome
  <2> QED BY <1>1, <1>4, <2>2 DEF o
<1> QED BY <1>2, <1>3, <1>4

InsertCopySays(d, rs, u, o) ==
  \/ o.rows = rs /\ \E c \in Codes : o.reply = Error(c)
  \/ \E x \in Row : /\ x.uid = u /\ o.rows = rs \cup {x}
                    /\ o.reply = Ok({x}) /\ d.select

LEMMA InsertCopyTells ==
  ASSUME NEW d \in Database, NEW rs \in SUBSET Row, NEW u \in Nat, NEW r \in Row
  PROVE  InsertCopySays(d, rs, u, InsertCopy(d, rs, u, r))
<1> USE DEF InsertCopySays
<1> DEFINE new == [uid |-> u, key |-> r.key]
           o == InsertCopy(d, rs, u, r)
<1>1. new \in Row /\ new.uid = u
  BY DEF Row
<1>2. CASE \E c \in Codes : o = Outcome(Error(c), rs)
  BY <1>2 DEF Outcome
<1>3. CASE o = Outcome(Ok({new}), rs \cup {new}) /\ d.select
  <2> HIDE DEF o, new
  <2>1. o.rows = rs \cup {new} /\ o.reply = Ok({new})
    BY <1>3 DEF Outcome
  <2> QED BY <1>1, <1>3, <2>1 DEF o
<1>4. {"428C9", "42501", "23505"} \subseteq Codes
  BY DEF Codes
<1> QED BY <1>2, <1>3, <1>4 DEF InsertCopy

\* A DELETE that is allowed removes every row with the key, another none.
DeleteKeySays(d, rs, k, o) ==
  \/ d.delete = "noGrant" /\ o.rows = rs /\ o.reply = Error("42501")
  \/ /\ o.reply = Ok({})
     /\ o.rows = IF d.delete = "allow" THEN rs \ WithKey(rs, k) ELSE rs

LEMMA DeleteKeyTells ==
  ASSUME NEW d, NEW rs, NEW k, d.select
  PROVE  DeleteKeySays(d, rs, k, DeleteKey(d, rs, k))
BY DEF DeleteKeySays, DeleteKey, Outcome, Candidates

\* An UPDATE gives no row another identity.
SameRows(qs, rs) == \A u : (\E r \in qs : r.uid = u) <=> (\E r \in rs : r.uid = u)

UpdateSays(d, rs, k, r) ==
  \/ \E c \in Codes : r = Error(c) /\ (c = "42501" => d.update = "noGrant")
  \/ /\ \E hit : r = Ok(hit)
     /\ r.rows = {} => Barred(d.update) \/ WithKey(rs, k) = {}

LEMMA UpdateKeyTells ==
  ASSUME NEW d \in Database, NEW rs \in SUBSET Row, NEW k \in Nat,
         NEW column \in {"key", "other"}, NEW k2 \in Nat, d.select
  PROVE  /\ SameRows(UpdateKey(d, rs, k, column, k2).rows, rs)
         /\ UpdateSays(d, rs, k, UpdateKey(d, rs, k, column, k2).reply)
<1> DEFINE hit == Candidates(d, d.update, rs, k)
           o == UpdateKey(d, rs, k, column, k2)
           moved == {[r EXCEPT !.key = k2] : r \in hit}
<1>1. hit \subseteq rs /\ (hit = {} => Barred(d.update) \/ WithKey(rs, k) = {})
  BY DEF Candidates, WithKey, Barred
<1>2. CASE o = Outcome(Error("428C9"), rs) \/ o = Outcome(Error("23505"), rs)
  BY <1>2 DEF Outcome, Codes, SameRows, UpdateSays
<1>3. CASE o = Outcome(Error("42501"), rs) /\ d.update = "noGrant"
  BY <1>3 DEF Outcome, Codes, SameRows, UpdateSays
<1>4. CASE o = Outcome(Ok(hit), rs)
  <2> HIDE DEF hit, o
  <2>1. o.rows = rs /\ o.reply = Ok(hit) /\ o.reply.rows = hit
    BY <1>4 DEF Outcome, Ok
  <2>2. SameRows(o.rows, rs) /\ UpdateSays(d, rs, k, o.reply)
    BY <1>1, <2>1 DEF SameRows, UpdateSays
  <2> QED BY <2>2 DEF o
<1>5. CASE o = Outcome(Ok(hit), (rs \ hit) \cup moved)
  <2>1. \A r \in hit : [r EXCEPT !.key = k2].uid = r.uid
    BY <1>1 DEF Row
  <2> HIDE DEF hit, o
  <2>2. o.rows = (rs \ hit) \cup moved /\ o.reply = Ok(hit) /\ o.reply.rows = hit
    BY <1>5 DEF Outcome, Ok
  <2>3. ASSUME NEW r \in o.rows PROVE \E q \in rs : q.uid = r.uid
    BY <1>1, <2>1, <2>2, <2>3
  <2>4. ASSUME NEW r \in rs PROVE \E q \in o.rows : q.uid = r.uid
    <3>1. CASE r \in hit
      <4>1. [r EXCEPT !.key = k2] \in o.rows
        BY <2>2, <3>1
      <4> QED BY <2>1, <3>1, <4>1
    <3>2. CASE r \notin hit
      BY <2>2, <3>2
    <3> QED BY <3>1, <3>2
  <2>5. SameRows(o.rows, rs)
    BY <2>3, <2>4 DEF SameRows
  <2>6. UpdateSays(d, rs, k, o.reply)
    BY <1>1, <2>2 DEF UpdateSays
  <2> QED BY <2>5, <2>6 DEF o
<1> QED BY <1>2, <1>3, <1>4, <1>5 DEF UpdateKey

-----------------------------------------------------------------------------
LEMMA AnswerStays ==
  ASSUME NEW r, r.kind \in {"ok", "error"}, Settle(r)
  PROVE  reply' = r /\ reply' # Waiting /\ tries' = tries
BY DEF Settle, Waiting

LEMMA NewIsOurs ==
  ASSUME Ind, NEW x \in Row, x.uid = serial, rows' = rows \cup {x}, Ours = {}
  PROVE  Ours' = {x}
BY BaseAssumption DEF Ind, Typed, Ours, Row

\* What an answer leaves as it was.
LEMMA AnsweredFrame ==
  ASSUME Answered
  PROVE  /\ pc \in Stages /\ reply = Waiting
         /\ rows' = Effect.rows /\ Settle(Effect.reply)
         /\ UNCHANGED <<db, target, sample, caller, policy, faults, gone, pc,
                        row, attempts, write, delete, update, cleanupErr>>
BY DEF Answered, InFlight, Stages, Apply, given, verdicts

LEMMA InsertAnswer ==
  ASSUME Ind, IndAbsorbed, Answered, pc = "insert"
  PROVE  reply' # Waiting /\ tries' = tries /\ InsertTells'
<1>1. Ours = {}
  BY AnsweredFrame DEF IndAbsorbed, Answers, BeforeInsert
<1>2. \/ rows' = rows /\ \E c \in Codes : Effect.reply = Error(c)
      \/ \E x \in Row : /\ x.uid = serial /\ rows' = rows \cup {x}
                        /\ Effect.reply = Ok({x}) /\ db.select
  <2>1. CASE policy = "forbidden"
    <3>1. sample[1] \in Row
      BY <2>1, SampleRows, TargetRows DEF Ind, Routed
    <3>2. Effect = InsertCopy(db, rows, serial, sample[1])
      BY <2>1 DEF Effect
    <3>3. InsertCopySays(db, rows, serial, Effect)
      BY <3>1, <3>2, DbTyped, InsertCopyTells
    <3> QED BY <3>3, AnsweredFrame DEF InsertCopySays
  <2>2. CASE policy # "forbidden"
    <3>1. Effect = InsertEmpty(db, rows, serial, TRUE)
      BY <2>2 DEF Effect
    <3>2. \/ /\ Effect.rows = rows
             /\ Effect.reply = Error("42501") \/ Effect.reply = Error("23502")
          \/ \E x \in Row : /\ x.uid = serial /\ Effect.rows = rows \cup {x}
                            /\ Effect.reply = Ok({x}) /\ db.select
      <4>1. InsertEmptySays(db, rows, serial, TRUE, Effect)
        BY <3>1, DbTyped, InsertEmptyTells
      <4> QED BY <4>1 DEF InsertEmptySays
    <3>3. {"42501", "23502"} \subseteq Codes
      BY DEF Codes
    <3> QED BY <3>2, <3>3, AnsweredFrame
  <2> QED BY <2>1, <2>2
<1>3. CASE rows' = rows /\ \E c \in Codes : Effect.reply = Error(c)
  <2>1. PICK c \in Codes : Effect.reply = Error(c)
    BY <1>3
  <2>2. reply' = Error(c) /\ reply' # Waiting /\ tries' = tries
    BY <2>1, AnsweredFrame, AnswerStays DEF Error
  <2>3. Ours' = {}
    BY <1>1, <1>3 DEF Ours
  <2> QED BY <2>2, <2>3 DEF InsertTells, Error
<1>4. CASE \E x \in Row : /\ x.uid = serial /\ rows' = rows \cup {x}
                          /\ Effect.reply = Ok({x}) /\ db.select
  <2>1. PICK x \in Row : /\ x.uid = serial /\ rows' = rows \cup {x}
                         /\ Effect.reply = Ok({x}) /\ db.select
    BY <1>4
  <2>2. reply' = Ok({x}) /\ reply' # Waiting /\ tries' = tries
    BY <2>1, AnsweredFrame, AnswerStays DEF Ok
  <2>3. Ours' = {x}
    BY <1>1, <2>1, NewIsOurs
  <2>4. db'.select
    BY <2>1, AnsweredFrame
  <2> QED BY <2>2, <2>3, <2>4 DEF InsertTells, Ok
<1> QED BY <1>2, <1>3, <1>4

LEMMA BareAnswer ==
  ASSUME Ind, IndAbsorbed, Answered, pc = "bare"
  PROVE  reply' # Waiting /\ tries' = tries /\ BareTells'
<1>1. Ours = {}
  BY AnsweredFrame DEF IndAbsorbed, Answers, BeforeInsert
<1>2. Effect = InsertEmpty(db, rows, serial, FALSE)
  BY DEF Effect
<1>3. \/ rows' = rows /\ Effect.reply = Error("42501") /\ ~db.insert
      \/ rows' = rows /\ Effect.reply = Error("23502")
      \/ \E x \in Row : /\ x.uid = serial /\ rows' = rows \cup {x}
                        /\ Effect.reply = Ok({})
  <2>1. InsertEmptySays(db, rows, serial, FALSE, Effect)
    BY <1>2, DbTyped, InsertEmptyTells
  <2> QED BY <2>1, AnsweredFrame DEF InsertEmptySays
<1>4. CASE rows' = rows /\ Effect.reply = Error("42501") /\ ~db.insert
  <2>1. reply' = Error("42501") /\ reply' # Waiting /\ tries' = tries
    BY <1>4, AnsweredFrame, AnswerStays DEF Error
  <2> QED BY <1>1, <1>4, <2>1, AnsweredFrame DEF BareTells, Error, Ours
<1>5. CASE rows' = rows /\ Effect.reply = Error("23502")
  <2>1. reply' = Error("23502") /\ reply' # Waiting /\ tries' = tries
    BY <1>5, AnsweredFrame, AnswerStays DEF Error
  <2> QED BY <1>1, <1>5, <2>1 DEF BareTells, Error, Ours
<1>6. CASE \E x \in Row : /\ x.uid = serial /\ rows' = rows \cup {x}
                          /\ Effect.reply = Ok({})
  <2>1. PICK x \in Row : /\ x.uid = serial /\ rows' = rows \cup {x}
    BY <1>6
  <2>2. reply' = Ok({}) /\ reply' # Waiting /\ tries' = tries
    BY <1>6, AnsweredFrame, AnswerStays DEF Ok
  <2>3. Ours' = {x}
    BY <1>1, <2>1, NewIsOurs
  <2> QED BY <2>2, <2>3 DEF BareTells, Ok
<1> QED BY <1>3, <1>4, <1>5, <1>6

LEMMA DeleteAnswer ==
  ASSUME Ind, IndAbsorbed, Answered, pc = "delete"
  PROVE  reply' # Waiting /\ tries' = tries /\ DeleteTells'
<1>1. Ours = {row} /\ db.select /\ HasKey(row)
  BY AnsweredFrame DEF IndAbsorbed, Answers
<1>2. Effect = DeleteKey(db, rows, row.key)
  BY DEF Effect
<1>3. \/ db.delete = "noGrant" /\ rows' = rows /\ Effect.reply = Error("42501")
      \/ /\ Effect.reply = Ok({})
         /\ rows' = IF db.delete = "allow" THEN rows \ WithKey(rows, row.key)
                                           ELSE rows
  <2>1. DeleteKeySays(db, rows, row.key, Effect)
    BY <1>1, <1>2, DeleteKeyTells
  <2> QED BY <2>1, AnsweredFrame DEF DeleteKeySays
<1>4. CASE db.delete = "noGrant" /\ rows' = rows /\ Effect.reply = Error("42501")
  <2>1. reply' = Error("42501") /\ reply' # Waiting /\ tries' = tries
    BY <1>4, AnsweredFrame, AnswerStays DEF Error
  <2>2. Ours' = {row'} /\ db' = db
    BY <1>1, <1>4, AnsweredFrame DEF Ours
  <2> QED BY <1>4, <2>1, <2>2 DEF DeleteTells, Error
<1>5. CASE /\ Effect.reply = Ok({})
           /\ rows' = IF db.delete = "allow" THEN rows \ WithKey(rows, row.key)
                                             ELSE rows
  <2>1. reply' = Ok({}) /\ reply' # Waiting /\ tries' = tries
    BY <1>5, AnsweredFrame, AnswerStays DEF Ok
  <2>2. db' = db /\ row' = row
    BY AnsweredFrame
  <2>3. CASE db.delete = "allow"
    <3>1. rows' = rows \ WithKey(rows, row.key)
      BY <1>5, <2>3
    <3>2. WithKey(rows', row.key) = {}
      BY <3>1 DEF WithKey
    <3>3. row \in WithKey(rows, row.key)
      BY <1>1 DEF Ours, WithKey, HasKey
    <3>4. Ours' = {}
      BY <1>1, <3>1, <3>3 DEF Ours
    <3> QED BY <2>1, <2>2, <2>3, <3>2, <3>4 DEF DeleteTells, Removed, Ok
  <2>4. CASE db.delete # "allow"
    <3>1. rows' = rows
      BY <1>5, <2>4
    <3>2. Ours' = {row}
      BY <1>1, <3>1 DEF Ours
    <3> QED BY <2>1, <2>2, <2>4, <3>2 DEF DeleteTells, Removed, Ok
  <2> QED BY <2>3, <2>4
<1> QED BY <1>3, <1>4, <1>5

LEMMA VerifyAnswer ==
  ASSUME Ind, IndAbsorbed, Answered, pc = "verify"
  PROVE  /\ reply' # Waiting /\ tries' = tries /\ rows' = rows
         /\ reply'.kind = "ok" /\ reply'.rows = WithKey(rows, row.key)
<1>1. Effect = Outcome(Ok(WithKey(rows, row.key)), rows)
  BY AnsweredFrame DEF IndAbsorbed, Answers, Effect, SelectKey
<1>2. Effect.rows = rows /\ Effect.reply = Ok(WithKey(rows, row.key))
  BY <1>1 DEF Outcome
<1>3. reply' = Ok(WithKey(rows, row.key)) /\ reply' # Waiting /\ tries' = tries
  BY <1>2, AnsweredFrame, AnswerStays DEF Ok
<1> QED BY <1>2, <1>3, AnsweredFrame DEF Ok

LEMMA UpdateAnswer ==
  ASSUME Ind, IndAbsorbed, Answered, pc = "update"
  PROVE  /\ reply' # Waiting /\ tries' = tries /\ UpdateTells'
         /\ Ours' = {} <=> Ours = {}
<1> DEFINE k == sample[1].key
<1>1. sample[1] \in target /\ k \in Nat /\ k # NoKey
  BY SampleRows, TargetRows DEF Ind, Routed
<1>2. SameRows(Effect.rows, rows) /\ UpdateSays(db, rows, k, Effect.reply)
  <2>1. db.select
    BY DEF IndAbsorbed, Answers
  <2>2. \E column \in {"key", "other"}, k2 \in Nat :
          Effect = UpdateKey(db, rows, k, column, k2)
    <3>1. CASE Head(attempts) = "collision"
      <4>1. Others # {}
        BY <3>1 DEF Ind, AttemptsOK
      <4>2. PICK j \in 2..Len(sample) : CollidingKey = sample[j].key
        BY <4>1, CollidingKeyHeld DEF Ind, Typed
      <4>3. sample[j] \in target
        BY DEF Ind, Typed
      <4>4. CollidingKey \in Nat
        BY <4>2, <4>3, TargetRows DEF Ind
      <4>5. Effect = UpdateKey(db, rows, k, "key", CollidingKey)
        BY <3>1 DEF Effect
      <4> QED BY <4>4, <4>5
    <3>2. CASE Head(attempts) # "collision"
      <4>1. Effect = UpdateKey(db, rows, k, NoopColumn, k)
        BY <3>2 DEF Effect
      <4>2. NoopColumn \in {"key", "other"}
        BY DEF NoopColumn
      <4> HIDE DEF k
      <4> QED BY <1>1, <4>1, <4>2
    <3> QED BY <3>1, <3>2
  <2> HIDE DEF k
  <2> QED BY <1>1, <2>1, <2>2, DbTyped, UpdateKeyTells
<1>3. Ours' = {} <=> Ours = {}
  BY <1>2, AnsweredFrame DEF SameRows, Ours
<1>4. Settled => WithKey(rows, k) # {}
  BY <1>1 DEF Ind, CleanupIsOurs, WithKey
<1>5. Settled' = Settled /\ db' = db
  BY AnsweredFrame DEF Settled
<1>6. CASE \E c \in Codes : /\ Effect.reply = Error(c)
                            /\ c = "42501" => db.update = "noGrant"
  <2>1. PICK c \in Codes : /\ Effect.reply = Error(c)
                           /\ c = "42501" => db.update = "noGrant"
    BY <1>6
  <2>2. reply' = Error(c) /\ reply' # Waiting /\ tries' = tries
    BY <2>1, AnsweredFrame, AnswerStays DEF Error
  <2> QED BY <1>3, <1>5, <2>1, <2>2 DEF UpdateTells, Error
<1>7. CASE /\ \E hit : Effect.reply = Ok(hit)
           /\ Effect.reply.rows = {} => Barred(db.update) \/ WithKey(rows, k) = {}
  <2>1. PICK hit : Effect.reply = Ok(hit)
    BY <1>7
  <2>2. reply' = Ok(hit) /\ reply' # Waiting /\ tries' = tries
    BY <2>1, AnsweredFrame, AnswerStays DEF Ok
  <2> QED BY <1>3, <1>4, <1>5, <1>7, <2>1, <2>2 DEF UpdateTells, Ok
<1> QED BY <1>2, <1>6, <1>7 DEF UpdateSays

-----------------------------------------------------------------------------
\* A request that is answered, by the relation or not.
LEMMA AnsweredTells ==
  ASSUME Ind, IndAbsorbed, Answered PROVE IndAbsorbed'
<1>1. /\ pc \in Stages /\ pc' = pc /\ reply = Waiting
      /\ UNCHANGED <<db, sample, caller, row, faults, gone, write, delete,
                     update, cleanupErr>>
  BY AnsweredFrame
<1>2. reply' # Waiting /\ tries' = tries
  BY <1>1, InsertAnswer, BareAnswer, DeleteAnswer, VerifyAnswer, UpdateAnswer
     DEF Stages
<1>3. Patient' /\ Refusals' /\ RemovalIsSound'
  BY <1>1, <1>2
     DEF IndAbsorbed, Patient, Refusals, RemovalIsSound, Settled
<1>4. ~BeforeInsert'
  BY <1>1, <1>2 DEF BeforeInsert, Stages
<1>5. HasKey(row)' = HasKey(row)
  BY <1>1 DEF HasKey
<1>6. CASE pc = "insert"
  BY <1>1, <1>3, <1>4, <1>6, InsertAnswer
     DEF IndAbsorbed, Answers, At, BeforeInsert
<1>7. CASE pc = "bare"
  BY <1>1, <1>3, <1>4, <1>7, BareAnswer
     DEF IndAbsorbed, Answers, At, BeforeInsert
<1>8. CASE pc = "delete"
  BY <1>1, <1>2, <1>3, <1>4, <1>5, <1>8, DeleteAnswer
     DEF IndAbsorbed, Answers, At
<1>9. CASE pc = "verify"
  <2>1. Removed' /\ WithKey(rows, row.key)' = WithKey(rows, row.key)
    BY <1>1, <1>9, VerifyAnswer DEF IndAbsorbed, Answers, Removed, Ours
  <2> QED BY <1>1, <1>3, <1>4, <1>5, <1>9, <2>1, VerifyAnswer
          DEF IndAbsorbed, Answers, At
<1>10. CASE pc = "update"
  BY <1>1, <1>3, <1>4, <1>10, UpdateAnswer DEF IndAbsorbed, Answers, At
<1> QED BY <1>1, <1>6, <1>7, <1>8, <1>9, <1>10 DEF Stages

\* A fault costs an attempt, and there is one left.
LEMMA UndeliveredTells ==
  ASSUME Absorbed, Ind, IndAbsorbed, Undelivered PROVE IndAbsorbed'
<1>1. /\ pc \in Stages /\ reply = Waiting
      /\ UNCHANGED <<db, sample, caller, row, rows, gone, pc, write, delete,
                     update, cleanupErr>>
      /\ faults' = faults + 1 /\ faults < MaxFaults
      /\ Settle(NoReply) \/ Settle(Throttled)
  BY DEF Undelivered, CanFail, InFlight, Stages, given, verdicts, Absorbed
<1>2. /\ faults \in Nat /\ tries \in Nat /\ tries + faults > Retries
      /\ MaxFaults <= Retries /\ MaxFaults \in Nat /\ Retries \in Nat
  BY <1>1, FaultsAssumption DEF IndAbsorbed, Patient, Absorbed
<1>3. tries > 1
  BY <1>1, <1>2
<1>4. reply' = Waiting /\ tries' = tries - 1
  BY <1>1, <1>3 DEF Settle, NoReply, Throttled
<1>5. Patient'
  <2>1. faults' \in 0..MaxFaults /\ tries' \in Nat /\ tries' + faults' > Retries
    BY <1>1, <1>2, <1>3, <1>4
  <2> QED BY <2>1 DEF Patient
<1>6. Ours' = Ours /\ HasKey(row)' = HasKey(row) /\ Removed' = Removed
      /\ BeforeInsert' = BeforeInsert
  BY <1>1, <1>4 DEF Ours, HasKey, Removed, BeforeInsert
<1>7. Answers'
  BY <1>1, <1>4, <1>6 DEF IndAbsorbed, Answers, At
<1> QED BY <1>1, <1>5, <1>7
        DEF IndAbsorbed, Refusals, RemovalIsSound, Settled

\* The owner's rows are not the scan's.
LEMMA OwnerDeletesTells ==
  ASSUME Ind, IndAbsorbed, OwnerDeletes PROVE IndAbsorbed'
<1>1. /\ pc \in Stages /\ reply = Waiting /\ Busy /\ gone' # {}
      /\ UNCHANGED <<db, sample, caller, row, faults, pc, reply, tries, write,
                     delete, update, cleanupErr>>
      /\ rows' \subseteq rows
  BY DEF OwnerDeletes, InFlight, Stages, given, verdicts
<1>2. Ours' = Ours
  <2>1. PICK r \in rows : r.uid <= Base /\ rows' = rows \ {r}
    BY DEF OwnerDeletes
  <2>2. ~(r.uid > Base)
    BY <2>1, BaseAssumption DEF Ind, Typed, Row
  <2> QED BY <2>1, <2>2 DEF Ours
<1>3. Removed => Removed'
  BY <1>1, <1>2 DEF Removed, WithKey
<1>4. HasKey(row)' = HasKey(row) /\ BeforeInsert' = BeforeInsert
  BY <1>1 DEF HasKey, BeforeInsert
<1>5. Answers'
  BY <1>1, <1>2, <1>3, <1>4 DEF IndAbsorbed, Answers, At
<1>6. ~Settled'
  BY <1>1 DEF Settled
<1> QED BY <1>1, <1>5, <1>6
        DEF IndAbsorbed, Patient, Refusals, RemovalIsSound

-----------------------------------------------------------------------------
LEMMA WorldStays ==
  ASSUME UNCHANGED <<given, world>>
  PROVE  /\ UNCHANGED <<db, sample, caller, policy, rows, faults, gone>>
         /\ Ours' = Ours /\ Settled' = Settled
BY DEF given, world, Ours, Settled

\* A handler that is done with INSERT and goes on to UPDATE.
LEMMA GoOnTells ==
  ASSUME Ind, IndAbsorbed, ToUpdate, UNCHANGED <<given, world>>,
         caller = "probe" => (cleanupErr' <=> Ours # {}),
         write' = "blocked" => ~db.insert, RemovalIsSound'
  PROVE  IndAbsorbed'
<1>1. /\ UNCHANGED <<db, sample, caller, policy, rows, faults, gone>>
      /\ Ours' = Ours /\ Settled' = Settled
  BY WorldStays
<1>2. /\ pc' \in {"done", "update"}
      /\ pc' = "update" => /\ reply' = Waiting /\ caller = "probe"
                           /\ sample # <<>> /\ tries' = Retries + 1
      /\ pc' = "done" => tries' = tries
      /\ update' = update \/ update' = "inconclusive"
  BY DEF ToUpdate, Halt, Send
<1>3. Patient'
  <2>1. faults' \in 0..MaxFaults /\ tries' \in Nat
        /\ (tries' = Retries + 1 => tries' + faults' > Retries)
    BY <1>1, <1>2, FaultsAssumption DEF IndAbsorbed, Patient
  <2> QED BY <1>2, <2>1 DEF Patient, Stages
<1>4. Answers'
  BY <1>1, <1>2 DEF IndAbsorbed, Answers, At, BeforeInsert
<1>5. Refusals'
  BY <1>1, <1>2 DEF IndAbsorbed, Refusals
<1> QED BY <1>3, <1>4, <1>5 DEF IndAbsorbed

\* A handler that sends another request before UPDATE.
LEMMA SendOnTells ==
  ASSUME Ind, IndAbsorbed, NEW stage \in {"insert", "bare", "delete", "verify"},
         Send(stage), UNCHANGED <<given, world, delete, update, cleanupErr>>,
         write' = "blocked" => ~db.insert, ~cleanupErr,
         stage \in {"insert", "bare"} => Ours = {},
         stage \in {"delete", "verify"} => db.select /\ HasKey(row'),
         stage = "delete" => Ours = {row'},
         stage = "verify" => Removed /\ row' = row
  PROVE  IndAbsorbed'
<1>1. /\ UNCHANGED <<db, sample, caller, policy, rows, faults, gone>>
      /\ Ours' = Ours /\ Settled' = Settled
  BY WorldStays
<1>2. pc' = stage /\ reply' = Waiting /\ tries' = Retries + 1
  BY DEF Send
<1>3. Patient'
  <2>1. faults' \in 0..MaxFaults /\ tries' \in Nat /\ tries' + faults' > Retries
    BY <1>1, <1>2, FaultsAssumption DEF IndAbsorbed, Patient
  <2> QED BY <2>1 DEF Patient
<1>4. HasKey(row)' = HasKey(row')
  BY <1>1 DEF HasKey
<1>5. stage = "verify" => Removed'
  BY <1>1 DEF Removed
<1>6. Answers'
  BY <1>1, <1>2, <1>4, <1>5 DEF IndAbsorbed, Answers, At, BeforeInsert
<1> QED BY <1>1, <1>3, <1>6 DEF IndAbsorbed, Refusals, RemovalIsSound

-----------------------------------------------------------------------------
LEMMA StartTells == ASSUME Ind, IndAbsorbed, Start PROVE IndAbsorbed'
<1>1. /\ UNCHANGED <<given, world, row, delete, cleanupErr>>
      /\ Ours = {} /\ ~cleanupErr /\ db' = db
      /\ RemovalIsSound /\ (write = "blocked" => ~db.insert)
  BY DEF Start, IndAbsorbed, Answers, BeforeInsert, given, Refusals
<1>2. RemovalIsSound'
  BY <1>1 DEF RemovalIsSound
<1>3. CASE write' = "inconclusive" /\ ToUpdate
  BY <1>1, <1>2, <1>3, GoOnTells
<1>4. CASE Send("insert") /\ UNCHANGED <<write, update, attempts>>
  BY <1>1, <1>4, SendOnTells
<1> QED BY <1>3, <1>4 DEF Start

LEMMA InsertAnsweredTells ==
  ASSUME Ind, IndAbsorbed, InsertAnswered PROVE IndAbsorbed'
<1>1. /\ UNCHANGED <<given, world>> /\ InsertTells /\ ~cleanupErr
      /\ db' = db /\ caller' = caller /\ RemovalIsSound
      /\ write = "blocked" => ~db.insert
  BY DEF InsertAnswered, IndAbsorbed, Answers, given, Refusals
<1>2. CASE reply.kind = "error" /\ reply.code \in Codes /\ Ours = {}
  <2>1. CASE NeedsBare
    <3>1. Send("bare") /\ UNCHANGED <<row, verdicts>>
      BY <1>2, <2>1 DEF InsertAnswered, NeedsBare
    <3> QED BY <1>1, <1>2, <3>1, SendOnTells DEF verdicts
  <2>2. CASE ~NeedsBare
    <3>1. /\ ToUpdate /\ UNCHANGED <<row, delete, cleanupErr>>
          /\ write' \in {"inconclusive", ClassifyWrite(reply)}
          /\ write' = ClassifyWrite(reply) => ~Ambiguous \/ write' = "inconclusive"
      BY <1>2, <2>2 DEF InsertAnswered, NeedsBare
    <3>2. ~Ambiguous => ClassifyWrite(reply) # "blocked"
      BY <1>2 DEF Ambiguous, ClassifyWrite, ClassifyCode, Codes, NoCode
    <3>3. RemovalIsSound'
      BY <1>1, <3>1 DEF RemovalIsSound
    <3> QED BY <1>1, <1>2, <3>1, <3>2, <3>3, GoOnTells
  <2> QED BY <2>1, <2>2
<1>3. CASE reply.kind = "ok" /\ db.select
           /\ \E x \in Ours : reply.rows = {x} /\ Ours = {x}
  <2>1. PICK x \in Ours : reply.rows = {x} /\ Ours = {x}
    BY <1>3
  <2>2. /\ write' = "reached" /\ row' = x
        /\ \/ /\ HasKey(row') /\ Send("delete")
              /\ UNCHANGED <<delete, update, cleanupErr>>
           \/ /\ delete' = "inconclusive" /\ Complain(TRUE) /\ ToUpdate
    BY <1>3, <2>1 DEF InsertAnswered, Ambiguous, NeedsBare
  <2>3. CASE HasKey(row') /\ Send("delete")
             /\ UNCHANGED <<delete, update, cleanupErr>>
    BY <1>1, <1>3, <2>1, <2>2, <2>3, SendOnTells
  <2>4. CASE delete' = "inconclusive" /\ Complain(TRUE) /\ ToUpdate
    BY <1>1, <2>1, <2>2, <2>4, GoOnTells DEF Complain, RemovalIsSound
  <2> QED BY <2>2, <2>3, <2>4
<1> QED BY <1>1, <1>2, <1>3 DEF InsertTells

LEMMA BareAnsweredTells ==
  ASSUME Ind, IndAbsorbed, BareAnswered PROVE IndAbsorbed'
<1>1. /\ UNCHANGED <<given, world, row, delete>> /\ BareTells /\ ~cleanupErr
      /\ db' = db /\ ToUpdate
  BY DEF BareAnswered, IndAbsorbed, Answers, given
<1>2. RemovalIsSound'
  BY <1>1 DEF IndAbsorbed, RemovalIsSound
<1>3. CASE reply.kind = "error" /\ Ours = {}
           /\ (reply.code = "23502" \/ (reply.code = "42501" /\ ~db.insert))
  <2>1. write' \in {"reached", "blocked"} /\ UNCHANGED cleanupErr
        /\ (write' = "blocked" => ClassifyWrite(reply) # "reached")
    BY <1>3 DEF BareAnswered
  <2>2. reply.code = "23502" => ClassifyWrite(reply) = "reached"
    BY <1>3 DEF ClassifyWrite, ClassifyCode, NoCode
  <2> QED BY <1>1, <1>2, <1>3, <2>1, <2>2, GoOnTells
<1>4. CASE reply.kind = "ok" /\ Ours # {}
  <2>1. write' = "reached" /\ Complain(TRUE)
    BY <1>4 DEF BareAnswered
  <2> QED BY <1>1, <1>2, <1>4, <2>1, GoOnTells DEF Complain
<1> QED BY <1>1, <1>3, <1>4 DEF BareTells

LEMMA DeleteAnsweredTells ==
  ASSUME Ind, IndAbsorbed, DeleteAnswered PROVE IndAbsorbed'
<1>1. /\ UNCHANGED <<given, world, row, write>> /\ DeleteTells /\ ~cleanupErr
      /\ db' = db /\ db.select /\ HasKey(row)
      /\ write = "blocked" => ~db.insert
  BY DEF DeleteAnswered, At, IndAbsorbed, Answers, given, Refusals
<1>2. CASE /\ reply.kind = "error" /\ reply.code = "42501"
           /\ db.delete = "noGrant" /\ Ours = {row}
  <2>1. delete' = ClassifyWrite(reply) /\ Complain(TRUE) /\ ToUpdate
    BY <1>2 DEF DeleteAnswered
  <2>2. ClassifyWrite(reply) = "blocked"
    BY <1>2 DEF ClassifyWrite, ClassifyCode, NoCode
  <2>3. RemovalIsSound'
    BY <1>1, <1>2, <2>1, <2>2 DEF RemovalIsSound, Barred
  <2> QED BY <1>1, <1>2, <2>1, <2>3, GoOnTells DEF Complain
<1>3. CASE reply.kind = "ok" /\ Removed
  <2>1. Send("verify") /\ UNCHANGED <<delete, update, cleanupErr>>
    BY <1>3 DEF DeleteAnswered
  <2>2. HasKey(row')
    BY <1>1 DEF HasKey
  <2> QED BY <1>1, <1>3, <2>1, <2>2, SendOnTells
<1> QED BY <1>1, <1>2, <1>3 DEF DeleteTells

LEMMA VerifyAnsweredTells ==
  ASSUME Ind, IndAbsorbed, VerifyAnswered PROVE IndAbsorbed'
<1>1. /\ UNCHANGED <<given, world, row, write>> /\ Removed /\ HasKey(row)
      /\ db' = db /\ reply.kind = "ok" /\ reply.rows = WithKey(rows, row.key)
      /\ write = "blocked" => ~db.insert
      /\ ToUpdate
  BY DEF VerifyAnswered, At, IndAbsorbed, Answers, given, Refusals
<1>2. /\ delete' = IF reply.rows # {} THEN "blocked" ELSE "reached"
      /\ Complain(reply.rows # {})
  BY <1>1 DEF VerifyAnswered, RemovalVerdict
<1>3. reply.rows = {} <=> Ours = {}
  <2>1. row \in Ours => row \in WithKey(rows, row.key)
    BY <1>1 DEF Ours, WithKey, HasKey
  <2> QED BY <1>1, <2>1 DEF Removed
<1>4. reply.rows = {} <=> db.delete = "allow"
  BY <1>1, <1>3 DEF Removed
<1>5. RemovalIsSound'
  BY <1>1, <1>2, <1>4 DEF RemovalIsSound, Barred
<1> QED BY <1>1, <1>2, <1>3, <1>5, GoOnTells DEF Complain

LEMMA UpdateAnsweredTells ==
  ASSUME Ind, IndAbsorbed, UpdateAnswered PROVE IndAbsorbed'
<1>1. /\ UNCHANGED <<given, world, row, write, delete, cleanupErr>>
      /\ UpdateTells /\ pc = "update" /\ caller = "probe" /\ db.select
      /\ (cleanupErr <=> Ours # {}) /\ RemovalIsSound
      /\ tries \in Nat /\ faults \in 0..MaxFaults
  BY DEF UpdateAnswered, At, IndAbsorbed, Answers, given, Patient
<1>2. /\ UNCHANGED <<db, sample, caller, policy, rows, faults, gone>>
      /\ Ours' = Ours /\ Settled' = Settled
  BY <1>1, WorldStays
<1>3. RemovalIsSound'
  BY <1>1, <1>2 DEF RemovalIsSound
<1>4. CASE Send("update") /\ UNCHANGED update
  <2>1. pc' = "update" /\ reply' = Waiting /\ tries' = Retries + 1
    BY <1>4 DEF Send
  <2>2. Patient'
    <3>1. tries' \in Nat /\ tries' + faults' > Retries
      BY <1>1, <1>2, <2>1, FaultsAssumption
    <3> QED BY <1>1, <1>2, <3>1 DEF Patient
  <2>3. Answers'
    BY <1>1, <1>2, <2>1 DEF IndAbsorbed, Answers, At, BeforeInsert
  <2> QED BY <1>1, <1>2, <1>3, <1>4, <2>2, <2>3 DEF IndAbsorbed, Refusals
<1>5. CASE /\ update' = IF reply.kind = "none" THEN "unknown"
                                               ELSE ClassifyAffected(reply)
           /\ Halt
  <2>1. pc' = "done" /\ tries' = tries
    BY <1>5 DEF Halt
  <2>2. update' = "blocked" /\ Settled => Barred(db.update)
    <3>1. CASE reply.kind = "error" /\ reply.code \in Codes
               /\ (reply.code = "42501" => db.update = "noGrant")
      BY <1>5, <3>1
         DEF ClassifyAffected, ClassifyCode, Codes, NoCode, Barred
    <3>2. CASE reply.kind = "ok" /\ reply.code = NoCode
               /\ (reply.rows = {} /\ Settled => Barred(db.update))
      BY <1>5, <3>2 DEF ClassifyAffected
    <3> QED BY <1>1, <3>1, <3>2 DEF UpdateTells
  <2>3. Patient'
    BY <1>1, <1>2, <2>1 DEF Patient, Stages
  <2>4. Answers'
    BY <1>1, <1>2, <2>1 DEF IndAbsorbed, Answers, At, BeforeInsert
  <2> QED BY <1>1, <1>2, <1>3, <2>2, <2>3, <2>4 DEF IndAbsorbed, Refusals
<1> QED BY <1>4, <1>5 DEF UpdateAnswered

-----------------------------------------------------------------------------
LEMMA InitTells == ASSUME Init PROVE IndAbsorbed
<1>1. rows \subseteq Row /\ \A r \in rows : r.uid <= Base
  BY TablesAssumption DEF Init
<1>2. Ours = {}
  BY <1>1, BaseAssumption DEF Ours, Row
<1> QED BY <1>2, FaultsAssumption
        DEF Init, IndAbsorbed, Patient, Answers, At, BeforeInsert, Refusals,
            RemovalIsSound, Stages

LEMMA StepTells ==
  ASSUME Absorbed, Ind, IndAbsorbed, [Next]_vars PROVE IndAbsorbed'
<1>1. CASE UNCHANGED vars
  <2>1. /\ UNCHANGED <<db, sample, caller, rows, pc, reply, tries, row, write,
                       delete, update, cleanupErr, faults, gone>>
        /\ Ours' = Ours /\ Settled' = Settled /\ HasKey(row)' = HasKey(row)
    BY <1>1 DEF vars, given, world, verdicts, Ours, Settled, HasKey
  <2>2. /\ BeforeInsert' = BeforeInsert /\ InsertTells' = InsertTells
        /\ BareTells' = BareTells /\ DeleteTells' = DeleteTells
        /\ UpdateTells' = UpdateTells /\ Removed' = Removed
    BY <2>1 DEF BeforeInsert, InsertTells, BareTells, DeleteTells, UpdateTells,
       Removed
  <2> QED BY <2>1, <2>2
          DEF IndAbsorbed, Patient, Answers, At, Refusals, RemovalIsSound
<1>2. CASE Next
  <2>1. ~LoseReply /\ ~Truncate
    BY DEF LoseReply, Truncate, CanFail, Absorbed
  <2> QED BY <1>2, <2>1, StartTells, AnsweredTells, UndeliveredTells,
             OwnerDeletesTells, InsertAnsweredTells, BareAnsweredTells,
             DeleteAnsweredTells, VerifyAnsweredTells, UpdateAnsweredTells
          DEF Next
<1> QED BY <1>1, <1>2

LEMMA SpecTells == ASSUME Absorbed PROVE Spec => []IndAbsorbed
<1>1. Init => Ind /\ IndAbsorbed
  BY InitInd, InitTells
<1>2. Ind /\ IndAbsorbed /\ [Next]_vars => Ind' /\ IndAbsorbed'
  BY StepKeepsInd, StepTells
<1> QED BY <1>1, <1>2, PTL DEF Spec

\* Where the retries absorb the faults, the DELETE verdict the cleanup earns is
\* right in both directions, whatever the relation's policies and whoever else
\* removes rows: "reached" of an open DELETE, "blocked" of a barred one.
THEOREM RemovalStaysSound == ASSUME Absorbed PROVE Spec => []RemovalIsSound
<1>1. IndAbsorbed => RemovalIsSound
  BY DEF IndAbsorbed
<1> QED BY <1>1, SpecTells, PTL

\* Where the retries absorb the faults, probeOne asks for a manual cleanup
\* exactly when a row of the scan is still there.
THEOREM ResidueIsTold == ASSUME Absorbed PROVE Spec => []ResidueIsReported
<1>1. IndAbsorbed => ResidueIsReported
  BY DEF IndAbsorbed, Answers, ResidueIsReported, Residue, Ours
<1> QED BY <1>1, SpecTells, PTL

\* Where the retries absorb the faults and nobody else removes rows, "blocked"
\* is said of no INSERT and, of a relation with a unique key, of no UPDATE that
\* the policies and grants let through: RETURNING's 42501 included.
THEOREM NoFalseRefusal ==
  ASSUME Absorbed, ~Busy PROVE Spec => []RefusalIsSound
<1>1. IndAbsorbed => RefusalIsSound
  BY DEF IndAbsorbed, Refusals, RefusalIsSound, Settled
<1> QED BY <1>1, SpecTells, PTL
=============================================================================
