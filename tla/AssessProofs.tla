----------------------------- MODULE AssessProofs -----------------------------
(***************************************************************************)
(* Proofs about Assess, for every set of projects that TargetsAssumption   *)
(* admits, every vocabulary and every budget, with any number of lost      *)
(* replies.                                                                *)
(***************************************************************************)
EXTENDS Assess, FiniteSetTheorems, TLAPS

-----------------------------------------------------------------------------
(***************************************************************************)
(* The inductive invariant, part by part.                                  *)
(***************************************************************************)
Home == target[Default]

\* Which stages have the oracle or the sweep at work, and on which schema.
Staged ==
  /\ stage \notin {"relations", "each"} => enPhase = "idle"
  /\ stage \notin {"probe", "each"} => rdPhase = "idle"
  /\ stage # "each" => schema = Default /\ extra = {}
  /\ stage = "each" /\ rdPhase # "idle" => enPhase = "done" /\ found # {}
  /\ extra \subseteq DOMAIN target \ {Default}
  /\ schema \notin extra
  /\ opts \in [measure : BOOLEAN, write : BOOLEAN]

Begun ==
  /\ found = {} /\ probed = {} /\ frontier = {} /\ round = 0
  /\ unresolved = 0 /\ hints = 0

\* A pass that its control let through asks a schema that tells names apart;
\* what it records is there, and a hint that it saw has led somewhere unless a
\* probe stayed open.
Passing ==
  /\ hints \in Nat /\ unresolved \in Nat /\ trusted \in BOOLEAN
  /\ enPhase \in {"control", "seeds"} => Begun
  /\ enPhase \in {"seeds", "rounds", "stems"} => trusted
  /\ enPhase # "idle" /\ ~trusted => found = {} /\ hints = 0
  /\ enPhase \in {"seeds", "rounds", "stems", "done"} /\ trusted =>
       api.masks \in {"absent", "denied"}
  /\ enPhase # "idle" =>
       /\ found \subseteq DOMAIN api.status
       /\ frontier \subseteq DOMAIN api.status
       /\ frontier # {} => api.masks = "absent"
  /\ enPhase = "stems" => round < MaxRounds /\ (unresolved = 0 => found # {})
  /\ enPhase = "rounds" /\ found = {} /\ unresolved = 0 /\ hints > 0 =>
       round = 0 /\ frontier \ probed # {}
  /\ enPhase = "done" /\ unresolved = 0 /\ hints > 0 => found # {}

\* How far the chain of hints has been followed, while no reply was lost.
Real == {n \in DOMAIN api.status : Exists(api.status[n])}

StemsOf(ns) ==
  UNION {api.stems[n] : n \in ns \cap DOMAIN api.stems \cap DOMAIN api.status}
Stemmed == StemsOf(seeds \cup Hop(seeds))

Followed ==
  lost = 0 /\ trusted /\ enPhase \in {"rounds", "stems", "done"} =>
    /\ seeds \subseteq probed
    /\ probed \cap Real \subseteq found
    /\ Hop(probed) \subseteq probed \cup frontier
    /\ enPhase # "stems" /\ round = 0 => probed = seeds
    /\ enPhase = "stems" \/ round > 0 => Hop(seeds) \subseteq probed
    /\ round > 0 /\ api.masks = "absent" => Stemmed \subseteq probed
    /\ (round = 1 /\ enPhase = "stems") \/ round > 1 =>
         (api.masks = "absent" => Hop(Stemmed) \subseteq probed)
    /\ enPhase = "done" /\ round < MaxRounds => frontier \subseteq probed

-----------------------------------------------------------------------------
(***************************************************************************)
(* The oracle.                                                             *)
(***************************************************************************)
LEMMA ApiShape ==
  ASSUME TypeOK
  PROVE  /\ IsSchema(api) /\ Control \notin DOMAIN api.status
         /\ IsSchema(Home)
BY EnumerateAssumption, AssessAssumption, TargetsAssumption
   DEF TypeOK, IsSchema, Home

LEMMA Silence ==
  ASSUME NEW B, IsFiniteSet(B), lost \in Nat, NEW s \in Silences(B)
  PROVE  /\ s \subseteq B /\ IsFiniteSet(s) /\ Cardinality(s) \in Nat
         /\ lost + Cardinality(s) \in 0..MaxLost
         /\ lost + Cardinality(s) = 0 => s = {} /\ lost = 0
<1>1. s \subseteq B /\ Cardinality(s) + lost <= MaxLost
  BY DEF Silences
<1>2. IsFiniteSet(s)
  BY <1>1, FS_Subset
<1>3. Cardinality(s) \in Nat /\ (Cardinality(s) = 0 <=> s = {})
  BY <1>2, FS_CardinalityType, FS_EmptySet
<1> QED
  BY <1>1, <1>2, <1>3, EnumerateAssumption

\* What Record does to the counts and to what was found.
LEMMA Recorded ==
  ASSUME TypeOK, hints \in Nat, unresolved \in Nat,
         NEW B \in SUBSET Names, NEW s \in Silences(B), Record(B, s)
  PROVE  /\ hints' \in Nat /\ unresolved' \in Nat /\ lost' \in 0..MaxLost
         /\ lost' = 0 => s = {} /\ lost = 0
         /\ unresolved' = 0 =>
              unresolved = 0 /\ \A n \in B : Answer(n, s) # "unknown"
         /\ Hinted(B, s) = {} => hints' = hints
         /\ found \subseteq found' /\ found' \subseteq found \cup B
         /\ \A n \in B : n \in found' <=> n \in found \/ Exists(Answer(n, s))
         /\ probed' = probed \cup B /\ probed' \subseteq Names
         /\ found' \subseteq Names
<1> DEFINE U == {n \in B : Answer(n, s) = "unknown"}
<1>1. IsFiniteSet(B)
  BY EnumerateAssumption, FS_Subset
<1>2. lost \in Nat
  BY EnumerateAssumption DEF TypeOK
<1>3. lost' = lost + Cardinality(s)
  BY DEF Record
<1>4. lost' \in 0..MaxLost /\ (lost' = 0 => s = {} /\ lost = 0)
  BY <1>1, <1>2, <1>3, Silence
<1>5. IsFiniteSet(U) /\ IsFiniteSet(Hinted(B, s))
  BY <1>1, FS_Subset DEF Hinted
<1>6. Cardinality(U) \in Nat /\ (Cardinality(U) = 0 <=> U = {})
  BY <1>5, FS_CardinalityType, FS_EmptySet
<1>7. /\ Cardinality(Hinted(B, s)) \in Nat
      /\ (Cardinality(Hinted(B, s)) = 0 <=> Hinted(B, s) = {})
  BY <1>5, FS_CardinalityType, FS_EmptySet
<1>8. unresolved' = unresolved + Cardinality(U)
      /\ hints' = hints + Cardinality(Hinted(B, s))
  BY DEF Record
<1>9. unresolved' = 0 => unresolved = 0 /\ U = {}
  BY <1>6, <1>8
<1>10. found' = found \cup {n \in B : Exists(Answer(n, s))}
       /\ probed' = probed \cup B
  BY DEF Record
<1>11. found \subseteq Names /\ probed \subseteq Names
  BY DEF TypeOK
<1> HIDE DEF U
<1> QED
  BY <1>4, <1>6, <1>7, <1>8, <1>9, <1>10, <1>11 DEF U

\* A name that exists behind a trusted control answers as what it is, and one
\* that answers as a relation is one.
LEMMA Telling ==
  ASSUME TypeOK, api.masks \in {"absent", "denied"}, NEW n, NEW s
  PROVE  /\ Exists(Answer(n, s)) => n \in DOMAIN api.status
         /\ /\ n \in DOMAIN api.status /\ api.masks = "absent"
            /\ Answer(n, s) # "unknown"
            => Exists(Answer(n, s))
         /\ n \in Real /\ s = {} => Exists(Answer(n, s))
BY ApiShape DEF Exists, Answer, Reply, IsSchema, Real

\* What a batch volunteers are relations.
LEMMA Volunteered ==
  ASSUME TypeOK, NEW B, NEW s
  PROVE  /\ Fresh(B, s) \subseteq DOMAIN api.status
         /\ Hinted(B, s) # {} => api.masks = "absent"
         /\ Fresh(B, s) # {} => api.masks = "absent"
         /\ Fresh(B, s) \subseteq Names
         /\ Fresh(B, s) \cap (probed \cup B) = {}
         /\ s = {} => Hop(B) \subseteq Fresh(B, s) \cup probed \cup B
BY ApiShape DEF Fresh, Hinted, Answer, Reply, IsSchema, Hop

OracleTyped ==
  /\ {found, probed, frontier, seeds} \subseteq SUBSET Names
  /\ round \in 0..MaxRounds /\ lost \in 0..MaxLost
  /\ enPhase \in {"idle", "control", "seeds", "rounds", "stems", "done"}

LEMMA ControlAsked ==
  ASSUME TypeOK, Passing, AskControl
  PROVE  OracleTyped' /\ Passing' /\ Followed'
<1>1. PICK silent \in Silences({Control}) :
        /\ trusted' = Trustworthy(Answer(Control, silent))
        /\ lost' = lost + Cardinality(silent)
  BY DEF AskControl
<1>2. Begun /\ Begun'
  BY DEF AskControl, Passing, Begun
<1>3. IsFiniteSet({Control})
  BY FS_Singleton
<1>10. lost \in Nat
  BY EnumerateAssumption DEF TypeOK
<1>4. lost' \in 0..MaxLost
  BY <1>1, <1>3, <1>10, Silence
<1>5. trusted' \in BOOLEAN /\ enPhase' = (IF trusted' THEN "seeds" ELSE "done")
  BY <1>1, Zenon DEF AskControl, Trustworthy
<1>6. trusted' => api.masks \in {"absent", "denied"}
  BY <1>1, ApiShape DEF Trustworthy, Answer, Reply, IsSchema
<1>7. OracleTyped'
  BY <1>4, <1>5, <1>2 DEF AskControl, OracleTyped, TypeOK
<1>8. Passing'
  BY <1>2, <1>5, <1>6 DEF AskControl, Passing, Begun
<1>9. Followed'
  BY <1>5 DEF Followed
<1> QED
  BY <1>7, <1>8, <1>9

LEMMA SeedsAsked ==
  ASSUME TypeOK, Passing, AskSeeds
  PROVE  OracleTyped' /\ Passing' /\ Followed'
<1>1. PICK s \in Silences(seeds) : Record(seeds, s) /\ frontier' = Fresh(seeds, s)
  BY DEF AskSeeds
<1>2. seeds \in SUBSET Names
  BY DEF TypeOK
<1>3. /\ enPhase = "seeds" /\ enPhase' = "rounds" /\ api' = api
      /\ seeds' = seeds /\ round' = round /\ trusted' = trusted
  BY DEF AskSeeds
<1>4. trusted /\ Begun /\ hints \in Nat /\ unresolved \in Nat
      /\ api.masks \in {"absent", "denied"}
  BY <1>3 DEF Passing
<1>5. /\ hints' \in Nat /\ unresolved' \in Nat /\ lost' \in 0..MaxLost
      /\ lost' = 0 => s = {} /\ lost = 0
      /\ unresolved' = 0 => \A n \in seeds : Answer(n, s) # "unknown"
      /\ Hinted(seeds, s) = {} => hints' = 0
      /\ found' \subseteq seeds /\ probed' = seeds
      /\ \A n \in seeds : n \in found' <=> Exists(Answer(n, s))
  BY <1>1, <1>2, <1>4, Recorded DEF Begun
<1>6. found' \subseteq DOMAIN api.status
  BY <1>4, <1>5, Telling
<1>7. /\ frontier' \subseteq DOMAIN api.status /\ frontier' \subseteq Names
      /\ Hinted(seeds, s) # {} => api.masks = "absent"
      /\ frontier' # {} => api.masks = "absent"
      /\ frontier' \cap seeds = {}
      /\ s = {} => Hop(seeds) \subseteq frontier' \cup seeds
  BY <1>1, <1>4, Volunteered DEF Begun
<1>8. ASSUME found' = {}, unresolved' = 0, hints' > 0
      PROVE  frontier' # {}
  <2>1. PICK n \in Hinted(seeds, s) : TRUE
    BY <1>5, <1>8
  <2>2. n \in seeds /\ Answer(n, s) = "absent" /\ n \in DOMAIN api.hint
    BY <2>1 DEF Hinted
  <2>3. api.masks = "absent" /\ api.hint[n] \in DOMAIN api.status
    BY <2>1, <1>7, <2>2, ApiShape DEF IsSchema
  <2>4. api.hint[n] \notin seeds
    <3>1. SUFFICES ASSUME api.hint[n] \in seeds PROVE FALSE
      OBVIOUS
    <3>2. Answer(api.hint[n], s) # "unknown"
      BY <3>1, <1>5, <1>8
    <3>3. Exists(Answer(api.hint[n], s))
      BY <3>2, <2>3, Telling
    <3> QED
      BY <3>1, <3>3, <1>5, <1>8
  <2>5. api.hint[n] \in Fresh(seeds, s)
    BY <2>1, <2>4, <1>4 DEF Fresh, Begun
  <2> QED
    BY <2>5, <1>1
<1>9. Passing'
  BY <1>3, <1>4, <1>5, <1>6, <1>7, <1>8 DEF Passing, Begun
<1>10. OracleTyped'
  BY <1>2, <1>3, <1>5, <1>7 DEF OracleTyped, TypeOK
<1>11. Followed'
  <2>1. SUFFICES ASSUME lost' = 0 PROVE Followed'
    BY DEF Followed
  <2>2. s = {}
    BY <2>1, <1>5
  <2>3. seeds \cap Real \subseteq found'
    BY <2>2, <1>5, <1>4, Telling
  <2>4. Real' = Real /\ Hop(probed)' = Hop(seeds)
    BY <1>3, <1>5 DEF Real, Hop, Reply
  <2> QED
    BY <2>2, <2>3, <2>4, <1>3, <1>4, <1>5, <1>7 DEF Followed, Begun
<1> QED
  BY <1>9, <1>10, <1>11

LEMMA HintsFollowed ==
  ASSUME TypeOK, Passing, Followed, FollowHints
  PROVE  OracleTyped' /\ Passing' /\ Followed'
<1> DEFINE next == frontier \ probed
<1>1. PICK s \in Silences(next) : Record(next, s) /\ frontier' = Fresh(next, s)
  BY DEF FollowHints
<1>2. next \in SUBSET Names
  BY DEF TypeOK
<1>3. /\ enPhase = "rounds" /\ enPhase' = "stems" /\ api' = api
      /\ seeds' = seeds /\ round' = round /\ trusted' = trusted
      /\ round < MaxRounds /\ next # {}
  BY DEF FollowHints, MayGoOn
<1>4. /\ trusted /\ hints \in Nat /\ unresolved \in Nat
      /\ api.masks \in {"absent", "denied"}
      /\ found \subseteq DOMAIN api.status
      /\ frontier \subseteq DOMAIN api.status
      /\ frontier # {} => api.masks = "absent"
  BY <1>3 DEF Passing
<1> HIDE DEF next
<1>5. /\ hints' \in Nat /\ unresolved' \in Nat /\ lost' \in 0..MaxLost
      /\ lost' = 0 => s = {} /\ lost = 0
      /\ unresolved' = 0 => \A n \in next : Answer(n, s) # "unknown"
      /\ found \subseteq found' /\ found' \subseteq found \cup next
      /\ \A n \in next : n \in found' <=> n \in found \/ Exists(Answer(n, s))
      /\ probed' = probed \cup next /\ probed' \subseteq Names
      /\ found' \subseteq Names
  BY <1>1, <1>2, <1>4, Recorded
<1>6. next \subseteq DOMAIN api.status /\ api.masks = "absent"
  BY <1>3, <1>4 DEF next
<1>7. found' \subseteq DOMAIN api.status
  BY <1>4, <1>5, <1>6
<1>8. /\ frontier' \subseteq DOMAIN api.status /\ frontier' \subseteq Names
      /\ s = {} => Hop(next) \subseteq frontier' \cup probed'
  BY <1>1, <1>5, Volunteered
<1>9. unresolved' = 0 => found' # {}
  <2>1. PICK n \in next : TRUE
    BY <1>3
  <2> QED
    BY <2>1, <1>5, <1>6, Telling
<1>10. Passing'
  BY <1>3, <1>4, <1>5, <1>6, <1>7, <1>8, <1>9 DEF Passing, Begun
<1>11. OracleTyped'
  BY <1>3, <1>5, <1>8 DEF OracleTyped, TypeOK
<1>12. Followed'
  <2>1. SUFFICES ASSUME lost' = 0 PROVE Followed'
    BY DEF Followed
  <2>2. s = {} /\ lost = 0
    BY <2>1, <1>5
  <2>3. next \cap Real \subseteq found'
    BY <2>2, <1>5, <1>4, Telling
  <2>4. /\ Real' = Real /\ Hop(seeds)' = Hop(seeds) /\ Stemmed' = Stemmed
        /\ Hop(probed)' = Hop(probed) \cup Hop(next)
        /\ Hop(Stemmed)' = Hop(Stemmed)
    BY <1>3, <1>5 DEF Real, Hop, Reply, Stemmed, StemsOf
  <2>5. /\ seeds \subseteq probed
        /\ probed \cap Real \subseteq found
        /\ Hop(probed) \subseteq probed \cup frontier
        /\ round = 0 => probed = seeds
        /\ round > 0 => Hop(seeds) \subseteq probed
        /\ round > 0 => Stemmed \subseteq probed
        /\ round > 1 => Hop(Stemmed) \subseteq probed
    BY <2>2, <1>3, <1>4, <1>6 DEF Followed
  <2>6. frontier \subseteq probed'
    BY <1>5 DEF next
  <2>7. Hop(probed)' \subseteq probed' \cup frontier'
    BY <2>2, <2>4, <2>5, <2>6, <1>5, <1>8
  <2>8. Hop(seeds) \subseteq probed'
    BY <2>5, <2>6, <1>5 DEF Hop
  <2>9. round > 0 => Stemmed \subseteq probed'
    BY <2>5, <1>5
  <2>10. round > 0 => Hop(Stemmed) \subseteq probed'
    <3>1. Stemmed \subseteq probed => Hop(Stemmed) \subseteq Hop(probed)
      BY DEF Hop
    <3> QED
      BY <3>1, <2>5, <2>6, <1>5
  <2>11. seeds \subseteq probed' /\ probed' \cap Real \subseteq found'
    BY <2>3, <2>5, <1>5
  <2>12. round \in Nat
    BY EnumerateAssumption DEF TypeOK
  <2> QED
    BY <2>4, <2>7, <2>8, <2>9, <2>10, <2>11, <2>12, <1>3 DEF Followed
<1> QED
  BY <1>10, <1>11, <1>12

LEMMA StemsAsked ==
  ASSUME TypeOK, Passing, Followed, AskStems
  PROVE  OracleTyped' /\ Passing' /\ Followed'
<1>1. PICK s \in Silences(Stems) :
        Record(Stems, s) /\ frontier' = frontier \cup Fresh(Stems, s)
  BY DEF AskStems
<1>2. Stems \in SUBSET Names
  BY ApiShape DEF Stems, IsSchema
<1>3. /\ enPhase = "stems" /\ enPhase' = "rounds" /\ api' = api
      /\ seeds' = seeds /\ round' = round + 1 /\ trusted' = trusted
  BY DEF AskStems
<1>4. /\ trusted /\ hints \in Nat /\ unresolved \in Nat /\ round < MaxRounds
      /\ api.masks \in {"absent", "denied"}
      /\ found \subseteq DOMAIN api.status
      /\ frontier \subseteq DOMAIN api.status
      /\ frontier # {} => api.masks = "absent"
      /\ unresolved = 0 => found # {}
  BY <1>3 DEF Passing
<1>5. /\ hints' \in Nat /\ unresolved' \in Nat /\ lost' \in 0..MaxLost
      /\ lost' = 0 => s = {} /\ lost = 0
      /\ unresolved' = 0 => unresolved = 0
      /\ found \subseteq found' /\ found' \subseteq found \cup Stems
      /\ \A n \in Stems : n \in found' <=> n \in found \/ Exists(Answer(n, s))
      /\ probed' = probed \cup Stems /\ probed' \subseteq Names
      /\ found' \subseteq Names
  BY <1>1, <1>2, <1>4, Recorded
<1>6. found' \subseteq DOMAIN api.status
  BY <1>4, <1>5, Telling
<1>7. /\ frontier' \subseteq DOMAIN api.status /\ frontier' \subseteq Names
      /\ frontier' # {} => api.masks = "absent"
      /\ s = {} => Hop(Stems) \subseteq frontier' \cup probed'
      /\ frontier \subseteq frontier'
  BY <1>1, <1>4, <1>5, Volunteered DEF TypeOK
<1>8. round \in Nat /\ round' \in 1..MaxRounds
  BY <1>3, <1>4, EnumerateAssumption DEF TypeOK
<1>9. Passing'
  BY <1>3, <1>4, <1>5, <1>6, <1>7, <1>8 DEF Passing, Begun
<1>10. OracleTyped'
  BY <1>3, <1>5, <1>7, <1>8 DEF OracleTyped, TypeOK
<1>11. Followed'
  <2>1. SUFFICES ASSUME lost' = 0 PROVE Followed'
    BY DEF Followed
  <2>2. s = {} /\ lost = 0
    BY <2>1, <1>5
  <2>3. Stems \cap Real \subseteq found'
    BY <2>2, <1>5, <1>4, Telling
  <2>4. /\ Real' = Real /\ Hop(seeds)' = Hop(seeds) /\ Stemmed' = Stemmed
        /\ Hop(probed)' = Hop(probed) \cup Hop(Stems)
        /\ Hop(Stemmed)' = Hop(Stemmed)
    BY <1>3, <1>5 DEF Real, Hop, Reply, Stemmed, StemsOf
  <2>5. /\ seeds \subseteq probed
        /\ probed \cap Real \subseteq found
        /\ Hop(probed) \subseteq probed \cup frontier
        /\ Hop(seeds) \subseteq probed
        /\ round > 0 /\ api.masks = "absent" => Stemmed \subseteq probed
        /\ round > 0 /\ api.masks = "absent" => Hop(Stemmed) \subseteq probed
    BY <2>2, <1>3, <1>4, <1>8 DEF Followed
  <2>6. Hop(probed)' \subseteq probed' \cup frontier'
    BY <2>2, <2>4, <2>5, <1>5, <1>7
  <2>7. api.masks = "absent" => Stemmed \subseteq probed'
    <3>1. SUFFICES ASSUME api.masks = "absent", NEW n \in seeds \cup Hop(seeds),
                          n \in DOMAIN api.stems, n \in DOMAIN api.status
                   PROVE  api.stems[n] \subseteq probed'
      BY DEF Stemmed, StemsOf
    <3>2. n \in Real
      BY <3>1, ApiShape DEF Real, IsSchema, Exists
    <3>3. n \in found
      BY <3>1, <3>2, <2>5
    <3>4. \A x \in api.stems[n] : x \in Stems \/ x \in probed
      BY <3>1, <3>3 DEF Stems
    <3> QED
      BY <3>4, <1>5
  <2>8. round > 0 /\ api.masks = "absent" => Hop(Stemmed) \subseteq probed'
    BY <2>5, <1>5
  <2> QED
    BY <2>2, <2>3, <2>4, <2>5, <2>6, <2>7, <2>8, <1>3, <1>5, <1>8 DEF Followed
<1> QED
  BY <1>9, <1>10, <1>11

LEMMA PassEnded ==
  ASSUME TypeOK, Passing, Followed, EndPass
  PROVE  OracleTyped' /\ Passing' /\ Followed'
<1>1. /\ enPhase = "rounds" /\ enPhase' = "done" /\ ~MayGoOn
      /\ UNCHANGED <<api, lost, seeds, found, probed, frontier, round, trusted,
                     unresolved, hints>>
  BY DEF EndPass
<1>2. round \in Nat /\ (round < MaxRounds => frontier \subseteq probed)
  BY <1>1, EnumerateAssumption DEF MayGoOn, TypeOK
<1>3. OracleTyped'
  BY <1>1 DEF OracleTyped, TypeOK
<1>4. Passing'
  BY <1>1, <1>2, EnumerateAssumption DEF Passing
<1>5. /\ Real' = Real /\ Hop(seeds)' = Hop(seeds) /\ Stemmed' = Stemmed
      /\ Hop(probed)' = Hop(probed) /\ Hop(Stemmed)' = Hop(Stemmed)
  BY <1>1 DEF Real, Hop, Reply, Stemmed, StemsOf
<1>6. Followed'
  BY <1>1, <1>2, <1>5 DEF Followed
<1> QED
  BY <1>3, <1>4, <1>6

LEMMA OracleKeeps ==
  ASSUME TypeOK, Passing, Followed, PassStep
  PROVE  OracleTyped' /\ Passing' /\ Followed'
BY ControlAsked, SeedsAsked, HintsFollowed, StemsAsked, PassEnded DEF PassStep

LEMMA PassBegun ==
  ASSUME TypeOK, NEW names \in SUBSET Names, Begin(names), lost' = lost
  PROVE  OracleTyped' /\ Passing' /\ Followed'
BY EnumerateAssumption DEF Begin, OracleTyped, TypeOK, Passing, Begun, Followed

LEMMA PassRests ==
  ASSUME TypeOK, Passing, Followed, UNCHANGED <<api, passVars>>,
         lost' \in 0..MaxLost, lost' = 0 => lost = 0
  PROVE  OracleTyped' /\ Passing' /\ Followed'
<1>1. UNCHANGED <<api, enPhase, seeds, found, probed, frontier, round, trusted,
                  unresolved, hints>>
  BY DEF passVars
<1>2. OracleTyped'
  BY <1>1 DEF OracleTyped, TypeOK
<1>3. Passing'
  BY <1>1 DEF Passing, Begun
<1>4. /\ Real' = Real /\ Hop(seeds)' = Hop(seeds) /\ Stemmed' = Stemmed
      /\ Hop(probed)' = Hop(probed) /\ Hop(Stemmed)' = Hop(Stemmed)
  BY <1>1 DEF Real, Hop, Reply, Stemmed, StemsOf
<1>5. Followed'
  BY <1>1, <1>4 DEF Followed
<1> QED
  BY <1>2, <1>3, <1>5

LEMMA PassLeft ==
  ASSUME TypeOK, Passing, enPhase' = "idle", lost' \in 0..MaxLost,
         UNCHANGED <<seeds, found, probed, frontier, round, trusted, unresolved,
                     hints>>
  PROVE  OracleTyped' /\ Passing' /\ Followed'
BY DEF OracleTyped, TypeOK, Passing, Followed

-----------------------------------------------------------------------------
(***************************************************************************)
(* The sweep.                                                              *)
(***************************************************************************)
Swept == (DOMAIN rel \ {Control}) \cup rest

Paid == {n \in DOMAIN rel : /\ rel[n].read = "exposed" /\ ~rel[n].unprobed
                            /\ rel[n].pc # "take"}

Entry == [pc : {"read", "take", "columns", "write", "done"},
          read : ReadStates \ {"refused"}, sensitive : BOOLEAN,
          unprobed : BOOLEAN, verbs : Verdicts \cup {NoVerdicts}]

\* What the verdicts on the verbs can be relied on for.
Tried(n, verbs) ==
  /\ \A v \in {"insert", "update"} : verbs[v] = "reached" => Admits(n, v)
  /\ \A v \in {"insert", "delete"} :
       lost = 0 /\ verbs[v] = "blocked" => ~Admits(n, v)

\* What is known of a relation is the target's own answer or no answer, and
\* its verbs are as far as their verdicts go.  While no reply was lost, sensitive
\* columns were seen or the budget ran out before they were asked for.
Fine(n, r) ==
  /\ r.pc = "read" => r = New
  /\ r.pc # "read" => r.read \in {ClassifyRead(Reply(n)), "unknown"}
  /\ r.pc \in {"take", "columns"} =>
       r.read = "exposed" /\ opts.measure /\ ~r.unprobed
  /\ r.unprobed => r.read = "exposed" /\ left < Candidates
  /\ Tried(n, r.verbs)
  /\ /\ lost = 0 /\ r.read = "exposed" /\ r.pc \in {"write", "done"}
     /\ n \in api.sensitive
     => r.sensitive \/ r.unprobed

\* The names under way are relations; what is left of the budget is what the
\* relations that were paid for have not used; an abandoned sweep saw no
\* difference between them and the control.
Sweeping ==
  /\ rdPhase \in {"idle", "head", "rest", "done", "abandoned"}
  /\ rdPhase = "idle" => DOMAIN rel = {} /\ batch = {} /\ rest = {}
  /\ rel \in [DOMAIN rel -> Entry]
  /\ left \in 0..MaxColumnProbes
  /\ rdPhase # "idle" =>
     /\ Swept \subseteq DOMAIN api.status
     /\ Control \in DOMAIN rel
     /\ stage = "probe" => Swept = found0
     /\ opts.measure =>
          left = MaxColumnProbes - Candidates * Cardinality(Paid)
  /\ batch \subseteq DOMAIN rel /\ Control \notin rest
  /\ rest \cap DOMAIN rel = {}
  /\ rdPhase \in {"rest", "done"} => rest = {}
  /\ rdPhase \in {"head", "abandoned"} => batch = DOMAIN rel
  /\ \A n \in DOMAIN rel : Fine(n, rel[n])
  /\ \A n \in DOMAIN rel \ batch : rel[n].pc = "done"
  /\ rdPhase \in {"done", "abandoned"} =>
       \A n \in DOMAIN rel : rel[n].pc = "done"
  /\ rdPhase = "abandoned" =>
       \A n \in DOMAIN rel : rel[n].read = rel[Control].read

\* Nothing was tried yet.
LEMMA Untried ==
  ASSUME NEW n
  PROVE  Tried(n, NoVerdicts)
BY DEF Tried, NoVerdicts, Verbs

\* A step of the sweep leaves the stage as it is.
StageStays == UNCHANGED <<api, opts, stage, found0, schema, target>>

LEMMA NewIsFine ==
  ASSUME NEW n, lost \in Nat
  PROVE  /\ New \in Entry /\ Fine(n, New)
         /\ New.read # "exposed" /\ New.pc = "read"
<1>1. New \in Entry
  BY DEF New, Entry, ReadStates
<1>2. /\ New.pc = "read" /\ New.read = "unknown" /\ New.unprobed = FALSE
      /\ New.verbs = NoVerdicts
  BY DEF New
<1>3. Tried(n, New.verbs)
  BY <1>2, Untried
<1> QED
  BY <1>1, <1>2, <1>3 DEF Fine

LEMMA SweepBegun ==
  ASSUME TypeOK, NEW names \in SUBSET DOMAIN api.status, BeginSweep(names),
         StageStays, lost' = lost, stage = "probe" => names = found0
  PROVE  Sweeping'
<1>1. PICK sample \in SUBSET names :
        /\ rdPhase' = "head" /\ batch' = sample \cup {Control}
        /\ rest' = names \ sample
        /\ rel' = [n \in batch' |-> New] /\ left' = MaxColumnProbes
  BY DEF BeginSweep
<1>2. DOMAIN rel' = batch' /\ \A n \in DOMAIN rel' : rel'[n] = New
  BY <1>1
<1>3. Control \notin names
  BY ApiShape
<1>4. lost \in Nat /\ lost' \in Nat /\ MaxColumnProbes \in Nat
      /\ Candidates \in Nat
  BY EnumerateAssumption, ReadStageAssumption DEF TypeOK
<1>5. New \in Entry /\ New.read # "exposed" /\ New.pc = "read"
  BY <1>4, NewIsFine
<1>6. \A n : Fine(n, New)'
  <2>1. /\ New.pc = "read" /\ New.read = "unknown" /\ New.unprobed = FALSE
        /\ New.verbs = NoVerdicts
    BY DEF New
  <2>2. \A n : Tried(n, New.verbs)'
    BY <2>1 DEF Tried, NoVerdicts, Verbs
  <2> QED
    BY <2>1, <2>2 DEF Fine
<1>7. Paid' = {}
  BY <1>2, <1>5 DEF Paid
<1>8. Cardinality(Paid)' = 0
  BY <1>7, FS_EmptySet
<1>9. Swept' = names
  BY <1>1, <1>2, <1>3 DEF Swept
<1>10. left' = MaxColumnProbes - Candidates * Cardinality(Paid)'
  BY <1>1, <1>4, <1>8
<1>11. rel' \in [DOMAIN rel' -> Entry]
  BY <1>1, <1>2, <1>5
<1>12. \A n \in DOMAIN rel' : Fine(n, rel[n])'
  BY <1>2, <1>6
<1> QED
  BY <1>1, <1>2, <1>3, <1>4, <1>9, <1>10, <1>11, <1>12
     DEF Sweeping, StageStays

PaidAfter(n, e) ==
  IF e.read = "exposed" /\ ~e.unprobed /\ e.pc # "take"
  THEN Paid \cup {n} ELSE Paid \ {n}

LEMMA Worked ==
  ASSUME TypeOK, Sweeping, rdPhase \in {"head", "rest"}, NEW n \in batch,
         rel[n].pc # "done",
         NEW e \in Entry, rel' = [rel EXCEPT ![n] = e],
         UNCHANGED <<rdPhase, batch, rest>>, StageStays,
         lost' = 0 => lost = 0, left' \in 0..left, Fine(n, e)',
         opts.measure =>
           left' = MaxColumnProbes - Candidates * Cardinality(PaidAfter(n, e))
  PROVE  Sweeping'
<1>1. n \in DOMAIN rel /\ DOMAIN rel' = DOMAIN rel
  BY DEF Sweeping
<1>2. rel' \in [DOMAIN rel -> Entry] /\ rel'[n] = e
      /\ \A m \in DOMAIN rel \ {n} : rel'[m] = rel[m]
  BY <1>1 DEF Sweeping
<1>3. left \in 0..MaxColumnProbes /\ MaxColumnProbes \in Nat /\ Candidates \in Nat
  BY ReadStageAssumption DEF Sweeping
<1>4. ASSUME NEW m \in DOMAIN rel \ {n} PROVE Fine(m, rel[m])'
  <2>1. Fine(m, rel[m]) /\ rel'[m] = rel[m]
    BY <1>2, <1>4 DEF Sweeping
  <2>2. left' <= left
    BY <1>3
  <2>3. rel[m].unprobed /\ left < Candidates => left' < Candidates
    BY <2>2, <1>3
  <2>4. api' = api /\ Tried(m, rel[m].verbs)
    BY <2>1 DEF Fine, StageStays
  <2>5. Tried(m, rel[m].verbs)'
    BY <2>1, <2>4 DEF Tried, Admits
  <2> QED
    BY <2>1, <2>3, <2>5 DEF Fine, StageStays, Reply
<1>5. \A m \in DOMAIN rel' : Fine(m, rel[m])'
  BY <1>1, <1>2, <1>4
<1>6. Paid' = PaidAfter(n, e)
  BY <1>1, <1>2 DEF Paid, PaidAfter
<1>7. Swept' = Swept
  BY <1>1 DEF Swept
<1>8. Cardinality(Paid)' = Cardinality(PaidAfter(n, e))
  BY <1>6
<1>9. \A m \in DOMAIN rel' \ batch' : rel'[m].pc = "done"
  BY <1>1, <1>2 DEF Sweeping
<1>10. left' \in 0..MaxColumnProbes
  BY <1>3
<1> QED
  BY <1>1, <1>2, <1>5, <1>7, <1>8, <1>9, <1>10 DEF Sweeping, StageStays

\* The parts of the invariant that a step of probeOne starts from.
LEMMA Working ==
  ASSUME TypeOK, Sweeping, rdPhase \in {"head", "rest"}, NEW n \in batch
  PROVE  /\ n \in DOMAIN rel /\ rel[n] \in Entry /\ Fine(n, rel[n])
         /\ IsFiniteSet(Paid) /\ Cardinality(Paid) \in Nat
         /\ left \in 0..MaxColumnProbes /\ MaxColumnProbes \in Nat
         /\ Candidates \in Nat /\ Candidates > 0
         /\ left \in 0..left
         /\ opts.measure =>
              left = MaxColumnProbes - Candidates * Cardinality(Paid)
         /\ opts \in [measure : BOOLEAN, write : BOOLEAN] =>
              opts.write \in BOOLEAN /\ opts.measure \in BOOLEAN
         /\ lost \in Nat
         /\ IsFiniteSet({n})
<1>1. n \in DOMAIN rel /\ rel[n] \in Entry /\ Fine(n, rel[n])
  BY DEF Sweeping
<1>2. DOMAIN rel \subseteq Names \cup {Control}
  BY DEF TypeOK
<1>3. IsFiniteSet(Names \cup {Control})
  BY EnumerateAssumption, FS_AddElement
<1>4. Paid \subseteq Names \cup {Control}
  BY <1>2 DEF Paid
<1>5. IsFiniteSet(Paid)
  BY <1>3, <1>4, FS_Subset
<1>6. Cardinality(Paid) \in Nat
  BY <1>5, FS_CardinalityType
<1>7. left \in 0..MaxColumnProbes /\ MaxColumnProbes \in Nat
      /\ Candidates \in Nat /\ Candidates > 0 /\ left \in 0..left
  BY ReadStageAssumption DEF Sweeping
<1>8. IsFiniteSet({n})
  BY FS_Singleton
<1>9. lost \in Nat
  BY EnumerateAssumption DEF TypeOK
<1>10. opts.measure =>
         left = MaxColumnProbes - Candidates * Cardinality(Paid)
  BY DEF Sweeping
<1> QED
  BY <1>1, <1>5, <1>6, <1>7, <1>8, <1>9, <1>10

LEMMA ReadKeeps ==
  ASSUME TypeOK, Staged, Sweeping, StageStays, rdPhase \in {"head", "rest"},
         NEW n \in batch, Read(n)
  PROVE  Sweeping' /\ lost' \in 0..MaxLost /\ (lost' = 0 => lost = 0)
<1>1. PICK s \in Silences({n}) :
        /\ lost' = lost + Cardinality(s)
        /\ rel' = [rel EXCEPT
             ![n].pc = AfterRead(ClassifyRead(Answer(n, s))),
             ![n].read = ClassifyRead(Answer(n, s)),
             ![n].sensitive = ClassifyRead(Answer(n, s)) = "exposed"
                              /\ SampleIsSensitive(n)]
  BY DEF Read
<1> DEFINE read == ClassifyRead(Answer(n, s))
           sensitive == read = "exposed" /\ SampleIsSensitive(n)
           after == [rel[n] EXCEPT !.pc = AfterRead(read), !.read = read,
                                   !.sensitive = sensitive]
<1>2. /\ n \in DOMAIN rel /\ rel[n] \in Entry /\ Fine(n, rel[n])
      /\ left \in 0..left /\ lost \in Nat /\ IsFiniteSet({n})
      /\ opts.measure =>
           left = MaxColumnProbes - Candidates * Cardinality(Paid)
      /\ opts.write \in BOOLEAN /\ opts.measure \in BOOLEAN
  BY Working DEF Staged
<1>3. lost' \in 0..MaxLost /\ (lost' = 0 => s = {} /\ lost = 0)
  BY <1>1, <1>2, Silence
<1>4. rel[n].pc = "read" /\ rel[n] = New
  BY <1>2 DEF Read, Fine
<1>5. /\ rel[n].unprobed = FALSE /\ rel[n].read = "unknown"
      /\ rel[n].verbs = NoVerdicts
  BY <1>4 DEF New
<1>6. read \in {ClassifyRead(Reply(n)), "unknown"}
      /\ read \in ReadStates \ {"refused"}
      /\ (s = {} => read = ClassifyRead(Reply(n)))
  BY ApiShape DEF Answer, Reply, ClassifyRead, IsSchema, ReadStates
<1>7. sensitive \in BOOLEAN
  BY Zenon
<1>8. /\ AfterRead(read) \in {"take", "write", "done"}
      /\ AfterRead(read) = "take" <=> read = "exposed" /\ opts.measure
  BY <1>2 DEF AfterRead
<1>9. ~opts.measure /\ read = "exposed" /\ n \in api.sensitive => sensitive
  BY DEF SampleIsSensitive
<1> HIDE DEF read, sensitive
<1>10. rel' = [rel EXCEPT ![n] = after]
  BY <1>1, <1>2 DEF read, sensitive
<1>11. after \in Entry
  BY <1>2, <1>6, <1>7, <1>8 DEF Entry
<1>19. PICK e \in Entry : e = after
  BY <1>11
<1>12. /\ e.pc = AfterRead(read) /\ e.read = read /\ e.sensitive = sensitive
       /\ e.unprobed = FALSE /\ e.verbs = NoVerdicts
  BY <1>2, <1>5, <1>19 DEF Entry
<1>13. Tried(n, e.verbs)'
  BY <1>12 DEF Tried, NoVerdicts, Verbs
<1> HIDE DEF after
<1>14. UNCHANGED <<rdPhase, batch, rest, left, api, opts>>
  BY DEF Read, StageStays
<1>15. Fine(n, e)'
  BY <1>2, <1>3, <1>6, <1>8, <1>9, <1>12, <1>13, <1>14 DEF Fine, Reply
<1>16. opts.measure => PaidAfter(n, e) = Paid
  <2>1. n \notin Paid
    BY <1>5 DEF Paid
  <2> QED
    BY <2>1, <1>8, <1>12 DEF PaidAfter
<1>17. rel[n].pc # "done"
  BY <1>4
<1>18. Sweeping'
  BY <1>2, <1>3, <1>10, <1>19, <1>14, <1>15, <1>16, <1>17, Worked
<1> QED
  BY <1>3, <1>18

LEMMA TakeKeeps ==
  ASSUME TypeOK, Staged, Sweeping, StageStays, rdPhase \in {"head", "rest"},
         NEW n \in batch, Take(n)
  PROVE  Sweeping' /\ lost' = lost
<1> DEFINE after == IF opts.write THEN "write" ELSE "done"
<1>1. /\ n \in DOMAIN rel /\ rel[n] \in Entry /\ Fine(n, rel[n])
      /\ IsFiniteSet(Paid) /\ Cardinality(Paid) \in Nat
      /\ left \in 0..MaxColumnProbes /\ MaxColumnProbes \in Nat
      /\ Candidates \in Nat /\ Candidates > 0
      /\ left \in 0..left /\ lost \in Nat
      /\ opts.measure =>
           left = MaxColumnProbes - Candidates * Cardinality(Paid)
      /\ opts.write \in BOOLEAN /\ opts.measure \in BOOLEAN
  BY Working DEF Staged
<1>2. /\ rel[n].pc = "take" /\ rel[n].read = "exposed" /\ opts.measure
      /\ rel[n].unprobed = FALSE
      /\ rel[n].read \in {ClassifyRead(Reply(n)), "unknown"}
      /\ Tried(n, rel[n].verbs)
  BY <1>1 DEF Take, Fine, Entry
<1>3. UNCHANGED <<rdPhase, batch, rest, lost, api, opts>>
  BY DEF Take, StageStays
<1>4. n \notin Paid
  BY <1>2 DEF Paid
<1>5. after \in {"write", "done"}
  OBVIOUS
<1> HIDE DEF after
<1>6. CASE Affordable
  <2>1. left' = left - Candidates /\ rel' = [rel EXCEPT ![n].pc = "columns"]
    BY <1>6 DEF Take
  <2>2. left' \in 0..left
    BY <2>1, <1>1, <1>6 DEF Affordable
  <2>3. PICK e \in Entry : e = [rel[n] EXCEPT !.pc = "columns"]
    BY <1>1 DEF Entry
  <2>4. rel' = [rel EXCEPT ![n] = e]
    BY <2>1, <2>3, <1>1
  <2>5. e.pc = "columns" /\ e.read = "exposed" /\ e.unprobed = FALSE
        /\ e.verbs = rel[n].verbs
    BY <2>3, <1>1, <1>2 DEF Entry
  <2>11. Tried(n, e.verbs)'
    BY <2>5, <1>2, <1>3 DEF Tried, Admits
  <2>6. Fine(n, e)'
    BY <2>5, <2>11, <1>2, <1>3 DEF Fine, Reply
  <2>7. PaidAfter(n, e) = Paid \cup {n}
    BY <2>5 DEF PaidAfter
  <2>8. Cardinality(Paid \cup {n}) = Cardinality(Paid) + 1
    BY <1>1, <1>4, FS_AddElement
  <2>9. left' = MaxColumnProbes - Candidates * Cardinality(PaidAfter(n, e))
    <3> DEFINE c == Cardinality(Paid)
    <3>1. left' = MaxColumnProbes - Candidates * c - Candidates
      BY <2>1, <1>1, <1>2
    <3>2. Candidates * (c + 1) = Candidates * c + Candidates
      BY <1>1
    <3>3. Candidates * c \in Int
      BY <1>1
    <3> HIDE DEF c
    <3>4. left' = MaxColumnProbes - Candidates * (c + 1)
      BY <3>1, <3>2, <3>3, <1>1
    <3> QED
      BY <3>4, <2>7, <2>8 DEF c
  <2>10. Sweeping'
    BY <1>2, <1>3, <2>2, <2>3, <2>4, <2>6, <2>9, Worked
  <2> QED
    BY <2>10, <1>3
<1>7. CASE ~Affordable
  <2>1. left' = left
        /\ rel' = [rel EXCEPT ![n].pc = after, ![n].unprobed = TRUE]
    BY <1>7 DEF Take, after
  <2>2. PICK e \in Entry : e = [rel[n] EXCEPT !.pc = after, !.unprobed = TRUE]
    BY <1>1, <1>5 DEF Entry
  <2>3. rel' = [rel EXCEPT ![n] = e]
    BY <2>1, <2>2, <1>1
  <2>4. e.pc = after /\ e.read = "exposed" /\ e.unprobed = TRUE
        /\ e.verbs = rel[n].verbs
    BY <2>2, <1>1, <1>2 DEF Entry
  <2>5. left' < Candidates
    BY <2>1, <1>1, <1>7 DEF Affordable
  <2>9. Tried(n, e.verbs)'
    BY <2>4, <1>2, <1>3 DEF Tried, Admits
  <2>6. Fine(n, e)'
    BY <2>4, <2>5, <2>9, <1>2, <1>3, <1>5 DEF Fine, Reply
  <2>7. PaidAfter(n, e) = Paid
    BY <2>4, <1>4 DEF PaidAfter
  <2>8. Sweeping'
    BY <1>1, <1>2, <1>3, <2>1, <2>2, <2>3, <2>6, <2>7, Worked
  <2> QED
    BY <2>8, <1>3
<1> QED
  BY <1>6, <1>7

LEMMA ColumnsKeep ==
  ASSUME TypeOK, Staged, Sweeping, StageStays, rdPhase \in {"head", "rest"},
         NEW n \in batch, Columns(n)
  PROVE  Sweeping' /\ lost' \in 0..MaxLost /\ (lost' = 0 => lost = 0)
<1> DEFINE next == IF opts.write THEN "write" ELSE "done"
<1>1. PICK misses \in {0, 1} :
        /\ lost + misses <= MaxLost /\ lost' = lost + misses
        /\ rel' = [rel EXCEPT ![n].pc = next,
                     ![n].sensitive = n \in api.sensitive /\ misses = 0]
  BY DEF Columns
<1>2. /\ n \in DOMAIN rel /\ rel[n] \in Entry /\ Fine(n, rel[n])
      /\ left \in 0..left /\ lost \in Nat
      /\ opts.measure =>
           left = MaxColumnProbes - Candidates * Cardinality(Paid)
      /\ opts.write \in BOOLEAN /\ opts.measure \in BOOLEAN
  BY Working DEF Staged
<1>3. lost' \in 0..MaxLost /\ (lost' = 0 => lost = 0 /\ misses = 0)
  BY <1>1, <1>2, EnumerateAssumption
<1>4. /\ rel[n].pc = "columns" /\ rel[n].read = "exposed" /\ opts.measure
      /\ rel[n].unprobed = FALSE
      /\ rel[n].read \in {ClassifyRead(Reply(n)), "unknown"}
      /\ Tried(n, rel[n].verbs)
  BY <1>2 DEF Columns, Fine, Entry
<1>5. UNCHANGED <<rdPhase, batch, rest, left, api, opts>>
  BY DEF Columns, StageStays
<1>6. next \in {"write", "done"}
  OBVIOUS
<1> HIDE DEF next
<1> DEFINE seen == n \in api.sensitive /\ misses = 0
<1>7. seen \in BOOLEAN /\ (misses = 0 /\ n \in api.sensitive => seen)
  BY Zenon
<1>12. rel' = [rel EXCEPT ![n].pc = next, ![n].sensitive = seen]
  BY <1>1
<1> HIDE DEF seen
<1>8. PICK e \in Entry : e = [rel[n] EXCEPT !.pc = next, !.sensitive = seen]
  BY <1>2, <1>6, <1>7 DEF Entry
<1>9. rel' = [rel EXCEPT ![n] = e]
  BY <1>12, <1>2, <1>8
<1>10. e.pc = next /\ e.read = "exposed" /\ e.unprobed = FALSE
       /\ e.verbs = rel[n].verbs /\ e.sensitive = seen
  BY <1>8, <1>2, <1>4 DEF Entry
<1>15. Tried(n, e.verbs)'
  BY <1>10, <1>3, <1>4, <1>5 DEF Tried, Admits
<1>11. Fine(n, e)'
  BY <1>10, <1>15, <1>3, <1>4, <1>5, <1>6, <1>7 DEF Fine, Reply
<1>13. PaidAfter(n, e) = Paid
  BY <1>10, <1>2, <1>4, <1>6 DEF PaidAfter, Paid
<1>14. Sweeping'
  BY <1>2, <1>3, <1>4, <1>5, <1>8, <1>9, <1>11, <1>13, Worked
<1> QED
  BY <1>14, <1>3

LEMMA VerbsKeep ==
  ASSUME TypeOK, Staged, Sweeping, StageStays, rdPhase \in {"head", "rest"},
         NEW n \in batch, ProbeVerbs(n)
  PROVE  Sweeping' /\ lost' \in 0..MaxLost /\ (lost' = 0 => lost = 0)
<1>1. PICK v \in Verdicts :
        /\ \A verb \in {"insert", "update"} : v[verb] = "reached" => Admits(n, verb)
        /\ lost' = lost + Cardinality(Unheard(n, v)) /\ lost' <= MaxLost
        /\ rel' = [rel EXCEPT ![n].pc = "done", ![n].verbs = v]
  BY DEF ProbeVerbs
<1>2. /\ n \in DOMAIN rel /\ rel[n] \in Entry /\ Fine(n, rel[n])
      /\ left \in 0..left /\ lost \in Nat
      /\ opts.measure =>
           left = MaxColumnProbes - Candidates * Cardinality(Paid)
  BY Working
<1>3. rel[n].pc = "write"
  BY DEF ProbeVerbs
<1>4. UNCHANGED <<rdPhase, batch, rest, left, api, opts>>
  BY DEF ProbeVerbs, StageStays
<1>11. /\ Cardinality(Unheard(n, v)) \in Nat
       /\ Cardinality(Unheard(n, v)) = 0 => Unheard(n, v) = {}
  <2>1. IsFiniteSet({"insert", "delete"})
    <3>1. IsFiniteSet({"insert"})
      BY FS_Singleton
    <3>2. {"insert", "delete"} = {"insert"} \cup {"delete"}
      OBVIOUS
    <3> QED
      BY <3>1, <3>2, FS_AddElement
  <2>2. IsFiniteSet(Unheard(n, v))
    BY <2>1, FS_Subset DEF Unheard
  <2> QED
    BY <2>2, FS_CardinalityType, FS_EmptySet
<1>12. lost' \in 0..MaxLost /\ (lost' = 0 => lost = 0 /\ Unheard(n, v) = {})
  BY <1>1, <1>2, <1>11, EnumerateAssumption
<1>5. PICK e \in Entry : e = [rel[n] EXCEPT !.pc = "done", !.verbs = v]
  BY <1>2 DEF Entry
<1>6. rel' = [rel EXCEPT ![n] = e]
  BY <1>1, <1>2, <1>5
<1>7. e.pc = "done" /\ e.read = rel[n].read /\ e.unprobed = rel[n].unprobed
      /\ e.verbs = v /\ e.sensitive = rel[n].sensitive
  BY <1>5, <1>2 DEF Entry
<1>13. Tried(n, e.verbs)'
  BY <1>1, <1>4, <1>7, <1>12 DEF Tried, Admits, Unheard
<1>8. Fine(n, e)'
  BY <1>2, <1>3, <1>4, <1>7, <1>12, <1>13 DEF Fine, Reply
<1>9. PaidAfter(n, e) = Paid
  BY <1>2, <1>3, <1>7 DEF PaidAfter, Paid
<1>10. Sweeping'
  BY <1>2, <1>3, <1>4, <1>5, <1>6, <1>8, <1>9, <1>12, Worked
<1> QED
  BY <1>10, <1>12

LEMMA JudgeKeeps ==
  ASSUME TypeOK, Staged, Sweeping, StageStays, JudgeControl
  PROVE  Sweeping' /\ lost' = lost
<1>1. /\ rdPhase = "head" /\ UNCHANGED <<lost, left>>
      /\ \A n \in batch : rel[n].pc = "done"
  BY DEF JudgeControl, Finished
<1>2. batch = DOMAIN rel /\ Control \in DOMAIN rel /\ Control \notin rest
      /\ rest \cap DOMAIN rel = {}
  BY <1>1 DEF Sweeping
<1>3. lost \in Nat
  BY EnumerateAssumption DEF TypeOK
<1>4. UNCHANGED <<api, opts, stage, found0>>
  BY DEF StageStays
<1>5. CASE Discriminates
  <2>1. /\ rdPhase' = "rest" /\ batch' = rest /\ rest' = {}
        /\ rel' = [n \in DOMAIN rel \cup rest |-> IF n \in rest THEN New ELSE rel[n]]
    BY <1>5 DEF JudgeControl
  <2>2. /\ DOMAIN rel' = DOMAIN rel \cup rest
        /\ \A n \in rest : rel'[n] = New
        /\ \A n \in DOMAIN rel : rel'[n] = rel[n]
    BY <2>1, <1>2
  <2>3. New \in Entry /\ New.read # "exposed" /\ New.pc = "read"
    BY <1>3, NewIsFine
  <2>4. rel' \in [DOMAIN rel' -> Entry]
    BY <2>1, <2>2, <2>3 DEF Sweeping
  <2>5. Paid' = Paid
    BY <2>2, <2>3 DEF Paid
  <2>6. Cardinality(Paid)' = Cardinality(Paid)
    BY <2>5
  <2>7. Swept' = Swept
    BY <2>1, <2>2, <1>2 DEF Swept
  <2>8. ASSUME NEW n \in DOMAIN rel' PROVE Fine(n, rel[n])'
    <3>1. CASE n \in rest
      <4>1. Fine(n, New)
        BY <1>3, NewIsFine
      <4> QED
        BY <4>1, <3>1, <2>2, <1>1, <1>4 DEF Fine, Reply, Tried, Admits
    <3>2. CASE n \in DOMAIN rel
      <4>1. Fine(n, rel[n]) /\ rel'[n] = rel[n]
        BY <3>2, <2>2 DEF Sweeping
      <4> QED
        BY <4>1, <1>1, <1>4 DEF Fine, Reply, Tried, Admits
    <3> QED
      BY <3>1, <3>2, <2>2
  <2>9. \A n \in DOMAIN rel' \ batch' : rel'[n].pc = "done"
    BY <2>1, <2>2, <1>1, <1>2
  <2> QED
    BY <2>1, <2>2, <2>4, <2>6, <2>7, <2>8, <2>9, <1>1, <1>2, <1>4 DEF Sweeping
<1>6. CASE ~Discriminates
  <2>1. rdPhase' = "abandoned" /\ UNCHANGED <<batch, rest, rel>>
    BY <1>6 DEF JudgeControl
  <2>2. \A n \in DOMAIN rel : rel[n].read = rel[Control].read
    BY <1>6, <1>2 DEF Discriminates
  <2>3. \A n \in DOMAIN rel : Fine(n, rel[n])'
    <3>1. \A n \in DOMAIN rel : Fine(n, rel[n])
      BY DEF Sweeping
    <3> QED
      BY <3>1, <2>1, <1>1, <1>4 DEF Fine, Reply, Tried, Admits
  <2>4. Paid' = Paid /\ Swept' = Swept
    BY <2>1 DEF Paid, Swept
  <2>5. Cardinality(Paid)' = Cardinality(Paid)
    BY <2>4
  <2> QED
    BY <2>1, <2>2, <2>3, <2>4, <2>5, <1>1, <1>2, <1>4 DEF Sweeping
<1> QED
  BY <1>5, <1>6, <1>1

LEMMA EndKeeps ==
  ASSUME TypeOK, Staged, Sweeping, StageStays, EndSweep
  PROVE  Sweeping' /\ lost' = lost
<1>1. /\ rdPhase = "rest" /\ rdPhase' = "done"
      /\ UNCHANGED <<lost, batch, rest, rel, left>>
      /\ \A n \in batch : rel[n].pc = "done"
  BY DEF EndSweep, Finished
<1>2. UNCHANGED <<api, opts, stage, found0>>
  BY DEF StageStays
<1>3. \A n \in DOMAIN rel : Fine(n, rel[n])'
  <2>1. \A n \in DOMAIN rel : Fine(n, rel[n])
    BY DEF Sweeping
  <2> QED
    BY <2>1, <1>1, <1>2 DEF Fine, Reply, Tried, Admits
<1>4. Paid' = Paid /\ Swept' = Swept
  BY <1>1 DEF Paid, Swept
<1>5. Cardinality(Paid)' = Cardinality(Paid)
  BY <1>4
<1>6. \A n \in DOMAIN rel : rel[n].pc = "done"
  BY <1>1 DEF Sweeping
<1> QED
  BY <1>1, <1>2, <1>3, <1>4, <1>5, <1>6 DEF Sweeping

LEMMA SweepKeeps ==
  ASSUME TypeOK, Staged, Sweeping, StageStays, SweepStep
  PROVE  Sweeping' /\ lost' \in 0..MaxLost /\ (lost' = 0 => lost = 0)
<1>1. lost \in 0..MaxLost
  BY DEF TypeOK
<1>2. ASSUME Work PROVE Sweeping' /\ lost' \in 0..MaxLost /\ (lost' = 0 => lost = 0)
  <2>1. PICK n \in batch : Read(n) \/ Take(n) \/ Columns(n) \/ ProbeVerbs(n)
    BY <1>2 DEF Work
  <2>2. rdPhase \in {"head", "rest"}
    BY <1>2 DEF Work
  <2> QED
    BY <1>1, <2>1, <2>2, ReadKeeps, TakeKeeps, ColumnsKeep, VerbsKeep
<1> QED
  BY <1>1, <1>2, JudgeKeeps, EndKeeps DEF SweepStep

LEMMA SweepRests ==
  ASSUME Sweeping, UNCHANGED <<api, opts, sweepVars>>, lost' = 0 => lost = 0,
         rdPhase # "idle" /\ stage' = "probe" =>
           stage = "probe" /\ found0' = found0
  PROVE  Sweeping'
<1>1. UNCHANGED <<api, opts, rdPhase, batch, rest, rel, left>>
  BY DEF sweepVars
<1>2. \A n \in DOMAIN rel : Fine(n, rel[n])'
  <2>1. \A n \in DOMAIN rel : Fine(n, rel[n])
    BY DEF Sweeping
  <2> QED
    BY <2>1, <1>1 DEF Fine, Reply, Tried, Admits
<1>3. Paid' = Paid /\ Swept' = Swept
  BY <1>1 DEF Paid, Swept
<1>4. Cardinality(Paid)' = Cardinality(Paid)
  BY <1>3
<1> QED
  BY <1>1, <1>2, <1>3, <1>4 DEF Sweeping

LEMMA NoSweep ==
  ASSUME rdPhase' = "idle", batch' = {}, rest' = {}, DOMAIN rel' = {},
         rel' \in [{} -> Entry], left' \in 0..MaxColumnProbes
  PROVE  Sweeping'
BY DEF Sweeping

LEMMA StaysIdle ==
  ASSUME Sweeping, rdPhase = "idle", UNCHANGED sweepVars
  PROVE  Sweeping'
<1>1. /\ rdPhase' = "idle" /\ batch' = {} /\ rest' = {} /\ DOMAIN rel' = {}
      /\ left' \in 0..MaxColumnProbes /\ rel' \in [DOMAIN rel' -> Entry]
  BY DEF Sweeping, sweepVars
<1> QED
  BY <1>1, NoSweep

LEMMA Cleared ==
  ASSUME Publish
  PROVE  Sweeping'
<1>1. /\ rdPhase' = "idle" /\ batch' = {} /\ rest' = {} /\ rel' = <<>> /\ left' = 0
  BY DEF Publish
<1>2. <<>> \in [{} -> Entry]
  OBVIOUS
<1>3. DOMAIN rel' = {} /\ rel' \in [{} -> Entry]
  BY <1>1, <1>2
<1>4. left' \in 0..MaxColumnProbes
  BY <1>1, ReadStageAssumption
<1> QED
  BY <1>1, <1>3, <1>4, NoSweep

-----------------------------------------------------------------------------
(***************************************************************************)
(* The column budget.                                                      *)
(***************************************************************************)
LEMMA Quotient ==
  ASSUME NEW m \in Nat, NEW c \in Nat, c > 0, NEW p \in Nat, c * p <= m
  PROVE  /\ p <= m \div c
         /\ m - c * p < c => m \div c = p
OBVIOUS

LEMMA BudgetIsExact ==
  ASSUME TypeOK, Sweeping
  PROVE  ColumnBudgetIsExact
<1> DEFINE open == {n \in DOMAIN rel : rel[n].read = "exposed"}
           paid == {n \in open : ~rel[n].unprobed}
           full == MaxColumnProbes \div Candidates
<1> SUFFICES ASSUME SweepOver, opts.measure
             PROVE  /\ left = MaxColumnProbes - Candidates * Cardinality(paid)
                    /\ rdPhase = "done" =>
                         Cardinality(paid) = Lesser(Cardinality(open), full)
  BY DEF ColumnBudgetIsExact
<1>1. rdPhase \in {"done", "abandoned"}
  BY DEF SweepOver
<1>2. \A n \in DOMAIN rel : rel[n].pc = "done" /\ Fine(n, rel[n])
  BY <1>1 DEF Sweeping
<1>3. paid = Paid
  BY <1>2 DEF Paid
<1>4. /\ left = MaxColumnProbes - Candidates * Cardinality(paid)
      /\ left \in 0..MaxColumnProbes
  BY <1>1, <1>3 DEF Sweeping
<1>5. MaxColumnProbes \in Nat /\ Candidates \in Nat /\ Candidates > 0
  BY ReadStageAssumption
<1>6. IsFiniteSet(open)
  <2>1. IsFiniteSet(Names \cup {Control})
    BY EnumerateAssumption, FS_AddElement
  <2>2. open \subseteq Names \cup {Control}
    BY DEF TypeOK
  <2> QED
    BY <2>1, <2>2, FS_Subset
<1>7. /\ paid \subseteq open /\ IsFiniteSet(paid)
      /\ Cardinality(paid) \in Nat /\ Cardinality(open) \in Nat
      /\ Cardinality(paid) <= Cardinality(open)
      /\ paid # open => Cardinality(paid) < Cardinality(open)
  BY <1>6, FS_Subset, FS_CardinalityType
<1> DEFINE p == Cardinality(paid)
           o == Cardinality(open)
<1>8. Candidates * p <= MaxColumnProbes
  <2>1. Candidates * p \in Int
    BY <1>5, <1>7
  <2> HIDE DEF p
  <2> QED
    BY <1>4, <1>5, <2>1 DEF p
<1>9. p <= full /\ (MaxColumnProbes - Candidates * p < Candidates => full = p)
  BY <1>5, <1>7, <1>8, Quotient
<1>10. paid # open => left < Candidates
  BY <1>2 DEF Fine
<1>11. p = Lesser(o, full)
  <2>1. p \in Nat /\ o \in Nat /\ p <= o /\ full \in Int
    BY <1>5, <1>7
  <2>2. CASE paid = open
    <3>1. p = o
      BY <2>2
    <3> QED
      BY <3>1, <2>1, <1>9 DEF Lesser
  <2>3. CASE paid # open
    <3>1. full = p /\ p < o
      BY <2>3, <1>4, <1>7, <1>9, <1>10
    <3> QED
      BY <3>1, <2>1 DEF Lesser
  <2> QED
    BY <2>2, <2>3
<1> QED
  BY <1>4, <1>11

-----------------------------------------------------------------------------
(***************************************************************************)
(* The report.                                                             *)
(***************************************************************************)
\* What is kept of the passes over the default schema, once they are merged.
FirstKept ==
  /\ first.hints \in Nat /\ first.unresolved \in Nat
  /\ first.found \subseteq DOMAIN Home.status
  /\ first.found # {} => Home.masks \in {"absent", "denied"}
  /\ first.unresolved = 0 /\ first.hints > 0 => first.found # {}
  /\ first.trusted \in BOOLEAN

Kept == FirstKept /\ found0 = (IF stage = "relations" THEN {} ELSE first.found)

\* What rates a relation, or names a verb that is open on it.
Rated == {"medium"} \cup Verbs

Spoken == \A f \in report : f = [id |-> f.id, schema |-> f.schema, of |-> f.of]

\* A schema is published once: its ratings are there only afterwards.
PublishedOnce == \A f \in report : f.id \in Rated =>
  /\ stage \notin {"relations", "selfcheck", "probe"}
  /\ stage = "schemas" => f.schema = Default
  /\ f.schema \notin extra
  /\ f.schema = schema => enPhase = "idle"

\* Once the default schema was swept, a relation that is open was read, or its
\* read got no answer.
Compared == stage \notin {"relations", "selfcheck", "probe"} =>
  \A n \in found0 : Home.status[n] = "exposed" =>
    n \in exposed0 \/ <<Default, n>> \in missed

Doubtful(f) == /\ f.schema = Default
               /\ f.id \in {"not-discriminating", "unresolved", "degraded"}

\* An empty result was explained, or the self-check is about to.
Owned == stage # "relations" /\ found0 = {} =>
  \/ stage = "selfcheck" /\ first.hints = 0
  \/ \E f \in report : Doubtful(f)

Understood == lost = 0 => \A f \in report :
  /\ f.id = "readable" /\ f.schema = Default
  /\ f.of \in Home.sensitive
  => \/ [id |-> "critical", schema |-> Default, of |-> f.of] \in report
     \/ [id |-> "budget", schema |-> Default, of |-> "columns"] \in report

Sayings == /\ Spoken /\ Understood
           /\ WritableIsNeverContent /\ AccessFactsAreTrue /\ BypassIsReal

LEMMA Worded ==
  /\ \A id, of : /\ Say(id, of).id = id /\ Say(id, of).schema = schema
                 /\ Say(id, of).of = of
                 /\ Say(id, of) = [id |-> id, schema |-> schema, of |-> of]
  /\ \A f, v : f = [id |-> f.id, schema |-> f.schema, of |-> f.of] =>
       /\ [f EXCEPT !.id = v] = [id |-> v, schema |-> f.schema, of |-> f.of]
       /\ [f EXCEPT !.id = v].id = v
<1>1. \A id, of : Say(id, of) = [id |-> id, schema |-> schema, of |-> of]
  BY DEF Say
<1>2. ASSUME NEW f, NEW v, f = [id |-> f.id, schema |-> f.schema, of |-> f.of]
      PROVE  /\ [f EXCEPT !.id = v] = [id |-> v, schema |-> f.schema, of |-> f.of]
             /\ [f EXCEPT !.id = v].id = v
  <2> DEFINE i == f.id
             s == f.schema
             o == f.of
  <2>1. f = [id |-> i, schema |-> s, of |-> o]
    BY <1>2
  <2> HIDE DEF i, s, o
  <2>2. [f EXCEPT !.id = v] = [id |-> v, schema |-> s, of |-> o]
    BY <2>1
  <2>3. [f EXCEPT !.id = v].id = v
    BY <2>2
  <2> QED
    BY <2>2, <2>3 DEF s, o
<1> QED
  BY <1>1, <1>2

\* What is neither a rating nor a read, nor a way around REST, says nothing
\* that has to be shown.
LEMMA PlainWords ==
  ASSUME Sayings, report \subseteq report',
         \A f \in report' \ report :
           /\ f = [id |-> f.id, schema |-> f.schema, of |-> f.of]
           /\ f.id \notin Rated \cup {"readable"}
           /\ f.id = "bypass" => \/ target[Default].status[f.of] # "exposed"
                                 \/ <<Default, f.of>> \in missed,
         UNCHANGED <<target, missed, facts>>, lost' = 0 => lost = 0
  PROVE  Sayings'
<1>1. Spoken'
  BY DEF Sayings, Spoken
<1>2. Understood'
  <2>1. Home' = Home
    BY DEF Home
  <2> QED
    BY <2>1 DEF Sayings, Understood
<1>3. WritableIsNeverContent'
  <2>1. SUFFICES ASSUME NEW f \in report', f.id = "medium", NEW v \in Verbs,
                        [f EXCEPT !.id = v] \in report'
                 PROVE  FALSE
    BY DEF WritableIsNeverContent
  <2>2. [f EXCEPT !.id = v].id = v
    BY <1>1, Worded DEF Spoken
  <2>3. f \in report /\ [f EXCEPT !.id = v] \in report
    BY <2>1, <2>2 DEF Rated
  <2> QED
    BY <2>1, <2>3 DEF Sayings, WritableIsNeverContent
<1>4. AccessFactsAreTrue'
  BY DEF Sayings, AccessFactsAreTrue, Granted
<1>5. BypassIsReal'
  BY DEF Sayings, BypassIsReal
<1> QED
  BY <1>1, <1>2, <1>3, <1>4, <1>5 DEF Sayings

\* The same words again, when nothing was said.
LEMMA SilentWords ==
  ASSUME Sayings, UNCHANGED <<report, target, missed, facts>>,
         lost' = 0 => lost = 0
  PROVE  Sayings'
BY PlainWords

LEMMA FindingsSay ==
  ASSUME NEW f \in Findings
  PROVE  /\ f.id # "bypass" /\ f.of \in Relations
         /\ f.id = "readable" =>
              /\ f.of \in Reads({"exposed"})
              /\ [id |-> Severity(f.of), of |-> f.of] \in Findings
         /\ f.id = "medium" => Severity(f.of) = "medium"
         /\ \A v \in Verbs : f.id = v => f.of \in WithVerb(v, "reached")
<1>1. \A n : Severity(n) \in {"critical", "high", "medium"}
  BY DEF Severity
<1>2. CASE f \in ReadFindings
  <2>1. \A n \in Reads({"exposed"}) :
          [id |-> Severity(n), of |-> n] \in Findings
    BY DEF Findings, ReadFindings
  <2>2. PICK n \in Reads({"exposed"}) :
          f = [id |-> "readable", of |-> n] \/ f = [id |-> Severity(n), of |-> n]
    BY <1>2 DEF ReadFindings, Entries
  <2>3. n \in Relations
    BY DEF Reads
  <2>4. f.of = n /\ f.id \in {"readable", Severity(n)}
    BY <2>2
  <2>5. f.id \in {"readable", "critical", "high", "medium"}
    BY <2>4, <1>1
  <2>6. f.id = "medium" => Severity(f.of) = "medium"
    BY <2>2, <2>4
  <2> QED
    BY <2>1, <2>3, <2>4, <2>5, <2>6 DEF Verbs
<1>3. CASE f \in InsertFindings
  BY <1>3 DEF InsertFindings, Entries, WithVerb, Verbs
<1>4. CASE f \in VerbFindings
  BY <1>4 DEF VerbFindings, Entries, WithVerb, Verbs
<1>5. CASE f \in VerbNotes
  BY <1>5 DEF VerbNotes, Entries, Reads, Verbs
<1>6. CASE f \in Inventory \cup BlindSpot
  BY <1>6 DEF Inventory, BlindSpot, Entries, Reads, Verbs
<1> QED
  BY <1>2, <1>3, <1>4, <1>5, <1>6 DEF Findings

\* What the sweep knows of the relations that it returns.
LEMMA Returned ==
  ASSUME TypeOK, Sweeping, NEW n \in Relations
  PROVE  /\ n \in DOMAIN rel /\ n \in DOMAIN api.status
         /\ rel[n].read = "exposed" => api.status[n] = "exposed"
         /\ rel[n].read = "denied" => api.status[n] \in {"refused", "denied"}
         /\ Tried(n, rel[n].verbs)
         /\ lost = 0 /\ rel[n].read = "exposed" /\ n \in api.sensitive
              => rel[n].sensitive \/ rel[n].unprobed
<1>1. rdPhase = "done" /\ n \in DOMAIN rel \ {Control}
  BY DEF Relations
<1>2. Fine(n, rel[n]) /\ rel[n].pc = "done" /\ n \in DOMAIN api.status
  BY <1>1 DEF Sweeping, Swept
<1>3. Reply(n) = api.status[n]
  BY <1>2 DEF Reply
<1> QED
  BY <1>1, <1>2, <1>3 DEF Fine, ClassifyRead

\* What AccessFactsAreTrue asks of one fact.
IsSo(f) ==
  /\ f.verb = "read" => target[f.schema].status[f.of] \in
                          IF f.allowed THEN {"exposed"} ELSE {"refused", "denied"}
  /\ f.verb \in {"insert", "update"} /\ f.allowed => Granted(f)
  /\ f.verb \in {"insert", "delete"} /\ ~f.allowed /\ lost = 0 => ~Granted(f)

LEMMA FactsAreSo == AccessFactsAreTrue <=> \A f \in facts : IsSo(f)
BY DEF AccessFactsAreTrue, IsSo

LEMMA PublishedIsSo ==
  ASSUME TypeOK, Sweeping, NEW f \in Facts
  PROVE  IsSo(f)
<1>1. api = target[schema]
  BY DEF TypeOK
<1>2. \/ \E n \in Reads({"exposed"}) :
           f = [schema |-> schema, of |-> n, verb |-> "read", allowed |-> TRUE]
      \/ \E n \in Reads({"denied"}) :
           f = [schema |-> schema, of |-> n, verb |-> "read", allowed |-> FALSE]
      \/ \E v \in Verbs : \E n \in WithVerb(v, "reached") :
           f = [schema |-> schema, of |-> n, verb |-> v, allowed |-> TRUE]
      \/ \E v \in Verbs : \E n \in WithVerb(v, "blocked") :
           f = [schema |-> schema, of |-> n, verb |-> v, allowed |-> FALSE]
  <2> DEFINE Of(v) == Observed(v, WithVerb(v, "reached"), TRUE)
                     \cup Observed(v, WithVerb(v, "blocked"), FALSE)
  <2>1. f \in Observed("read", Reads({"exposed"}), TRUE) =>
          \E n \in Reads({"exposed"}) :
            f = [schema |-> schema, of |-> n, verb |-> "read", allowed |-> TRUE]
    BY DEF Observed
  <2>2. f \in Observed("read", Reads({"denied"}), FALSE) =>
          \E n \in Reads({"denied"}) :
            f = [schema |-> schema, of |-> n, verb |-> "read", allowed |-> FALSE]
    BY DEF Observed
  <2>3. CASE f \in UNION {Of(v) : v \in Verbs}
    <3>1. PICK v \in Verbs : f \in Of(v)
      BY <2>3
    <3>2. \/ \E n \in WithVerb(v, "reached") :
               f = [schema |-> schema, of |-> n, verb |-> v, allowed |-> TRUE]
          \/ \E n \in WithVerb(v, "blocked") :
               f = [schema |-> schema, of |-> n, verb |-> v, allowed |-> FALSE]
      BY <3>1 DEF Observed
    <3> QED
      BY <3>2
  <2> QED
    BY <2>1, <2>2, <2>3 DEF Facts
<1>3. CASE \E n \in Reads({"exposed"}) :
           f = [schema |-> schema, of |-> n, verb |-> "read", allowed |-> TRUE]
  <2>1. PICK n \in Reads({"exposed"}) :
           f = [schema |-> schema, of |-> n, verb |-> "read", allowed |-> TRUE]
    BY <1>3
  <2>2. n \in Relations /\ rel[n].read = "exposed"
    BY DEF Reads
  <2>3. target[schema].status[n] = "exposed"
    BY <2>2, <1>1, Returned
  <2> QED
    BY <2>1, <2>3 DEF IsSo
<1>4. CASE \E n \in Reads({"denied"}) :
           f = [schema |-> schema, of |-> n, verb |-> "read", allowed |-> FALSE]
  <2>1. PICK n \in Reads({"denied"}) :
           f = [schema |-> schema, of |-> n, verb |-> "read", allowed |-> FALSE]
    BY <1>4
  <2>2. n \in Relations /\ rel[n].read = "denied"
    BY DEF Reads
  <2>3. target[schema].status[n] \in {"refused", "denied"}
    BY <2>2, <1>1, Returned
  <2> QED
    BY <2>1, <2>3 DEF IsSo
<1>5. CASE \E v \in Verbs : \E n \in WithVerb(v, "reached") :
           f = [schema |-> schema, of |-> n, verb |-> v, allowed |-> TRUE]
  <2>1. PICK v \in Verbs : \E n \in WithVerb(v, "reached") :
           f = [schema |-> schema, of |-> n, verb |-> v, allowed |-> TRUE]
    BY <1>5
  <2>2. PICK n \in WithVerb(v, "reached") :
           f = [schema |-> schema, of |-> n, verb |-> v, allowed |-> TRUE]
    BY <2>1
  <2>3. n \in Relations /\ rel[n].verbs[v] = "reached" /\ v # "read"
    BY DEF WithVerb, Verbs
  <2>4. v \in {"insert", "update"} => Admits(n, v)
    BY <2>3, Returned DEF Tried
  <2>5. f.verb = v /\ f.allowed = TRUE /\ (Granted(f) <=> Admits(n, v))
    BY <2>2, <1>1 DEF Granted, Admits
  <2> QED
    BY <2>3, <2>4, <2>5 DEF IsSo
<1>6. CASE \E v \in Verbs : \E n \in WithVerb(v, "blocked") :
           f = [schema |-> schema, of |-> n, verb |-> v, allowed |-> FALSE]
  <2>1. PICK v \in Verbs : \E n \in WithVerb(v, "blocked") :
           f = [schema |-> schema, of |-> n, verb |-> v, allowed |-> FALSE]
    BY <1>6
  <2>2. PICK n \in WithVerb(v, "blocked") :
           f = [schema |-> schema, of |-> n, verb |-> v, allowed |-> FALSE]
    BY <2>1
  <2>3. n \in Relations /\ rel[n].verbs[v] = "blocked" /\ v # "read"
    BY DEF WithVerb, Verbs
  <2>4. v \in {"insert", "delete"} /\ lost = 0 => ~Admits(n, v)
    BY <2>3, Returned DEF Tried
  <2>5. f.verb = v /\ f.allowed = FALSE /\ (Granted(f) <=> Admits(n, v))
    BY <2>2, <1>1 DEF Granted, Admits
  <2> QED
    BY <2>3, <2>4, <2>5 DEF IsSo
<1> QED
  BY <1>2, <1>3, <1>4, <1>5, <1>6

\* Every new entry of a publication is a finding or the budget's note.
LEMMA NewWords ==
  ASSUME Publish, NEW f \in report'
  PROVE  \/ f \in report
         \/ \E g \in Findings : f = [id |-> g.id, schema |-> schema, of |-> g.of]
         \/ f = [id |-> "budget", schema |-> schema, of |-> "columns"]
BY Worded DEF Publish

LEMMA Published ==
  ASSUME TypeOK, Sweeping, Sayings, Publish, UNCHANGED <<target, lost>>,
         \A f \in report : f.id \in Rated => f.schema # schema
  PROVE  /\ Sayings' /\ report \subseteq report' /\ missed \subseteq missed'
         /\ \A f \in report' : f.id \in Rated => f \in report \/ f.schema = schema
<1>1. /\ report \subseteq report' /\ facts \subseteq facts' /\ missed \subseteq missed'
      /\ \A g \in Findings :
           [id |-> g.id, schema |-> schema, of |-> g.of] \in report'
      /\ schema = Default /\ Unclassified # {} =>
           [id |-> "budget", schema |-> schema, of |-> "columns"] \in report'
  BY Worded DEF Publish
<1>2. api = target[schema]
  BY DEF TypeOK
<1>3. Spoken'
  <2>1. SUFFICES ASSUME NEW f \in report'
                 PROVE  f = [id |-> f.id, schema |-> f.schema, of |-> f.of]
    BY DEF Spoken
  <2>2. f \in report => f = [id |-> f.id, schema |-> f.schema, of |-> f.of]
    BY DEF Sayings, Spoken
  <2> QED
    BY <2>2, NewWords
<1>4. \A f \in report' : f.id \in Rated => f \in report \/ f.schema = schema
  BY NewWords
<1>5. ASSUME NEW f \in report', f \notin report, f.id # "budget"
      PROVE  /\ f.schema = schema
             /\ [id |-> f.id, of |-> f.of] \in Findings
  <2>1. PICK g \in Findings : f = [id |-> g.id, schema |-> schema, of |-> g.of]
    BY <1>5, NewWords
  <2>2. g = [id |-> g.id, of |-> g.of]
    <3>1. \A id, names : \A e \in Entries(id, names) : e = [id |-> e.id, of |-> e.of]
      BY DEF Entries
    <3>2. \A e \in {[id |-> Severity(n), of |-> n] : n \in Reads({"exposed"})} :
            e = [id |-> e.id, of |-> e.of]
      OBVIOUS
    <3>3. g \in VerbFindings => g = [id |-> g.id, of |-> g.of]
      BY DEF VerbFindings, Entries
    <3> QED
      BY <3>1, <3>2, <3>3 DEF Findings, ReadFindings, InsertFindings, VerbNotes,
                              Inventory, BlindSpot
  <2> QED
    BY <2>1, <2>2
<1>6. Understood'
  <2>1. SUFFICES ASSUME lost' = 0, NEW f \in report', f.id = "readable",
                        f.schema = Default, f.of \in Home.sensitive
                 PROVE  \/ [id |-> "critical", schema |-> Default, of |-> f.of] \in report'
                        \/ [id |-> "budget", schema |-> Default, of |-> "columns"] \in report'
    BY DEF Understood, Home
  <2>2. CASE f \in report
    BY <2>1, <2>2, <1>1 DEF Sayings, Understood
  <2>3. CASE f \notin report
    <3> DEFINE n == f.of
    <3>1. schema = Default /\ [id |-> "readable", of |-> n] \in Findings
      BY <2>1, <2>3, <1>5
    <3>2. n \in Reads({"exposed"}) /\ n \in Relations
          /\ [id |-> Severity(n), of |-> n] \in Findings
      BY <3>1, FindingsSay
    <3>3. rel[n].read = "exposed" /\ n \in api.sensitive /\ lost = 0
      BY <2>1, <3>1, <3>2, <1>2 DEF Reads, Home
    <3>4. rel[n].sensitive \/ rel[n].unprobed
      BY <3>2, <3>3, Returned
    <3>5. ASSUME rel[n].sensitive
          PROVE  [id |-> "critical", schema |-> Default, of |-> n] \in report'
      BY <3>1, <3>2, <3>5, <1>1 DEF Severity
    <3>6. ASSUME rel[n].unprobed PROVE Unclassified # {}
      BY <3>2, <3>6 DEF Unclassified
    <3> QED
      BY <3>1, <3>4, <3>5, <3>6, <1>1
  <2> QED
    BY <2>2, <2>3
<1>7. WritableIsNeverContent'
  <2>1. SUFFICES ASSUME NEW f \in report', f.id = "medium", NEW v \in Verbs,
                        [f EXCEPT !.id = v] \in report'
                 PROVE  FALSE
    BY DEF WritableIsNeverContent
  <2>2. PICK g \in report' : g = [f EXCEPT !.id = v]
    BY <2>1
  <2>3. g.id = v /\ g.schema = f.schema /\ g.of = f.of
    <3>1. f = [id |-> f.id, schema |-> f.schema, of |-> f.of]
      BY <1>3 DEF Spoken
    <3>2. g = [id |-> v, schema |-> f.schema, of |-> f.of]
      BY <2>2, <3>1, Worded
    <3> QED
      BY <3>2
  <2>4. f.id \in Rated /\ g.id \in Rated /\ f.id # "budget" /\ g.id # "budget"
    BY <2>1, <2>3 DEF Rated, Verbs
  <2>5. f \in report <=> g \in report
    BY <2>3, <2>4, <1>4, <1>5
  <2>6. CASE f \in report
    BY <2>1, <2>2, <2>5, <2>6 DEF Sayings, WritableIsNeverContent
  <2>7. CASE f \notin report
    <3>1. [id |-> "medium", of |-> f.of] \in Findings
          /\ [id |-> v, of |-> f.of] \in Findings
      BY <2>1, <2>3, <2>4, <2>5, <2>7, <1>5
    <3>2. Severity(f.of) = "medium" /\ f.of \in WithVerb(v, "reached")
      BY <3>1, FindingsSay
    <3>3. f.of \in Writable
      BY <3>2, <2>1 DEF Writable
    <3> QED
      BY <3>2, <3>3 DEF Severity
  <2> QED
    BY <2>6, <2>7
<1>8. AccessFactsAreTrue'
  <2>1. \A f \in facts : IsSo(f)
    BY FactsAreSo DEF Sayings
  <2>2. \A f \in Facts : IsSo(f)
    BY PublishedIsSo
  <2>3. facts' = facts \cup Facts /\ target' = target /\ lost' = lost
    BY DEF Publish
  <2>4. \A f \in facts' : IsSo(f)'
    BY <2>1, <2>2, <2>3 DEF IsSo, Granted
  <2> QED
    BY <2>4 DEF AccessFactsAreTrue, IsSo, Granted
<1>9. BypassIsReal'
  <2>1. SUFFICES ASSUME NEW f \in report', f.id = "bypass"
                 PROVE  \/ target[Default].status[f.of] # "exposed"
                        \/ <<Default, f.of>> \in missed'
    BY DEF BypassIsReal
  <2>2. f \in report
    <3>1. SUFFICES ASSUME f \notin report PROVE FALSE
      OBVIOUS
    <3>2. [id |-> "bypass", of |-> f.of] \in Findings
      BY <2>1, <3>1, <1>5
    <3> QED
      BY <3>2, FindingsSay
  <2> QED
    BY <2>1, <2>2, <1>1 DEF Sayings, BypassIsReal
<1> QED
  BY <1>1, <1>3, <1>4, <1>6, <1>7, <1>8, <1>9 DEF Sayings

-----------------------------------------------------------------------------
(***************************************************************************)
(* The stages.                                                             *)
(***************************************************************************)
Stages == {"relations", "selfcheck", "probe", "schemas", "each", "graphql", "end"}

Placed ==
  /\ target \in Targets /\ schema \in DOMAIN target /\ api = target[schema]
  /\ stage \in Stages /\ dropped \in SUBSET Names

Told == Kept /\ Sayings /\ PublishedOnce /\ Compared /\ Owned

Ind == TypeOK /\ Staged /\ Passing /\ Followed /\ Sweeping /\ Told

LEMMA Typing ==
  ASSUME OracleTyped', Sweeping', Placed'
  PROVE  TypeOK'
<1>1. IsSchema(api)'
  BY TargetsAssumption DEF Placed
<1>2. DOMAIN rel' \subseteq Names \cup {Control}
  BY <1>1 DEF Sweeping, Swept, IsSchema
<1>3. \A n \in DOMAIN rel' : rel'[n].read \in ReadStates \ {"refused"}
  BY DEF Sweeping, Entry
<1> QED
  BY <1>2, <1>3 DEF OracleTyped, Sweeping, Placed, Stages, TypeOK

LEMMA IsPlaced == ASSUME TypeOK PROVE Placed
BY DEF TypeOK, Placed, Stages

\* What stays true when a stage hands nothing on.
LEMMA NothingTold ==
  ASSUME Told, UNCHANGED <<stageVars>>, lost' = 0 => lost = 0,
         enPhase' = "idle" <=> enPhase = "idle"
  PROVE  Told'
<1>1. UNCHANGED <<target, stage, schema, extra, first, found0, exposed0, missed,
                  report, facts>>
  BY DEF stageVars
<1>2. Sayings'
  BY <1>1, SilentWords DEF Told
<1>3. Kept'
  BY <1>1 DEF Told, Kept, FirstKept, Home
<1>4. PublishedOnce' /\ Compared' /\ Owned'
  BY <1>1 DEF Told, PublishedOnce, Compared, Owned, Home, Doubtful
<1> QED
  BY <1>2, <1>3, <1>4 DEF Told

LEMMA OracleLoses ==
  ASSUME TypeOK, Passing, PassStep
  PROVE  lost' = 0 => lost = 0
<1>1. lost \in Nat /\ seeds \subseteq Names /\ frontier \ probed \subseteq Names
  BY EnumerateAssumption DEF TypeOK
<1>2. Stems \subseteq Names
  BY ApiShape DEF Stems, IsSchema
<1>3. IsFiniteSet({Control})
  BY FS_Singleton
<1>4. IsFiniteSet(seeds) /\ IsFiniteSet(frontier \ probed) /\ IsFiniteSet(Stems)
  BY <1>1, <1>2, FS_Subset, EnumerateAssumption
<1>5. ASSUME NEW B, IsFiniteSet(B), NEW s \in Silences(B),
             lost' = lost + Cardinality(s)
      PROVE  lost' = 0 => lost = 0
  BY <1>1, <1>5, Silence
<1>6. ASSUME AskControl PROVE lost' = 0 => lost = 0
  <2>1. PICK s \in Silences({Control}) : lost' = lost + Cardinality(s)
    BY <1>6 DEF AskControl
  <2> QED
    BY <2>1, <1>3, <1>5
<1>7. ASSUME AskSeeds PROVE lost' = 0 => lost = 0
  <2>1. PICK s \in Silences(seeds) : lost' = lost + Cardinality(s)
    BY <1>7 DEF AskSeeds, Record
  <2> QED
    BY <2>1, <1>4, <1>5
<1>8. ASSUME FollowHints PROVE lost' = 0 => lost = 0
  <2>1. PICK s \in Silences(frontier \ probed) : lost' = lost + Cardinality(s)
    BY <1>8 DEF FollowHints, Record
  <2> QED
    BY <2>1, <1>4, <1>5
<1>9. ASSUME AskStems PROVE lost' = 0 => lost = 0
  <2>1. PICK s \in Silences(Stems) : lost' = lost + Cardinality(s)
    BY <1>9 DEF AskStems, Record
  <2> QED
    BY <2>1, <1>4, <1>5
<1>10. ASSUME EndPass PROVE lost' = 0 => lost = 0
  BY <1>10 DEF EndPass
<1> QED
  BY <1>6, <1>7, <1>8, <1>9, <1>10 DEF PassStep

LEMMA OracleStep ==
  ASSUME Ind, Oracle
  PROVE  Ind'
<1>1. PassStep /\ UNCHANGED <<opts, sweepVars, stageVars>>
  BY DEF Oracle
<1>2. /\ enPhase \in {"control", "seeds", "rounds", "stems"}
      /\ enPhase' \in {"seeds", "rounds", "stems", "done"} /\ api' = api
  BY <1>1 DEF PassStep, AskControl, AskSeeds, FollowHints, AskStems, EndPass
<1>3. /\ UNCHANGED <<target, stage, schema, extra, dropped, found0, rdPhase>>
      /\ lost' = 0 => lost = 0
  BY <1>1, OracleLoses DEF Ind, stageVars, sweepVars
<1>4. OracleTyped' /\ Passing' /\ Followed'
  BY <1>1, OracleKeeps DEF Ind
<1>5. stage \in {"relations", "each"} /\ rdPhase = "idle"
  BY <1>2 DEF Ind, Staged
<1>6. Sweeping'
  BY <1>1, <1>5, StaysIdle DEF Ind
<1>7. Staged'
  BY <1>1, <1>3, <1>5 DEF Ind, Staged
<1>8. Placed'
  BY <1>2, <1>3, IsPlaced DEF Ind, Placed
<1>9. Told'
  BY <1>1, <1>2, <1>3, NothingTold DEF Ind
<1> QED
  BY <1>4, <1>6, <1>7, <1>8, <1>9, Typing DEF Ind

LEMMA SweepingStep ==
  ASSUME Ind, Sweep
  PROVE  Ind'
<1>1. SweepStep /\ UNCHANGED <<api, opts, passVars, stageVars>>
  BY DEF Sweep
<1>2. StageStays
  BY <1>1 DEF StageStays, stageVars
<1>3. Sweeping' /\ lost' \in 0..MaxLost /\ (lost' = 0 => lost = 0)
  BY <1>1, <1>2, SweepKeeps DEF Ind
<1>4. OracleTyped' /\ Passing' /\ Followed'
  BY <1>1, <1>3, PassRests DEF Ind
<1>5. rdPhase # "idle" /\ enPhase' = enPhase /\ found' = found
  BY <1>1 DEF SweepStep, Work, JudgeControl, EndSweep, passVars
<1>6. UNCHANGED <<target, stage, schema, extra, dropped>>
  BY <1>1 DEF stageVars
<1>7. Staged'
  BY <1>1, <1>5, <1>6 DEF Ind, Staged
<1>8. Placed'
  BY <1>1, <1>6, IsPlaced DEF Ind, Placed
<1>9. Told'
  BY <1>1, <1>3, <1>5, NothingTold DEF Ind
<1> QED
  BY <1>3, <1>4, <1>7, <1>8, <1>9, Typing DEF Ind

LEMMA StartRelationsStep ==
  ASSUME Ind, StartRelations
  PROVE  Ind'
<1>1. /\ stage = "relations" /\ enPhase = "idle" /\ Begin(Pinned)
      /\ UNCHANGED <<api, opts, lost, sweepVars, stageVars>>
  BY DEF StartRelations
<1>2. Pinned \in SUBSET Names
  BY AssessAssumption
<1>3. OracleTyped' /\ Passing' /\ Followed'
  BY <1>1, <1>2, PassBegun DEF Ind
<1>4. rdPhase = "idle"
  BY <1>1 DEF Ind, Staged
<1>5. Sweeping'
  BY <1>1, <1>4, StaysIdle DEF Ind
<1>6. /\ UNCHANGED <<target, stage, schema, extra, dropped, rdPhase, first, found0,
                     exposed0, missed, report, facts>>
      /\ enPhase' = "control"
  BY <1>1 DEF stageVars, sweepVars, Begin
<1>7. Staged'
  BY <1>1, <1>4, <1>6 DEF Ind, Staged
<1>8. Placed'
  BY <1>1, <1>6, IsPlaced DEF Ind, Placed
<1>9. Sayings'
  BY <1>1, <1>6, SilentWords DEF Ind, Told
<1>10. Kept' /\ Compared' /\ Owned'
  BY <1>6 DEF Ind, Told, Kept, FirstKept, Compared, Owned, Home, Doubtful
<1>11. PublishedOnce'
  BY <1>1, <1>6 DEF Ind, Told, PublishedOnce
<1> QED
  BY <1>3, <1>5, <1>7, <1>8, <1>9, <1>10, <1>11, Typing DEF Ind, Told

LEMMA MergeKeeps ==
  ASSUME Ind, stage = "relations", enPhase = "done", first' = Merged,
         target' = target
  PROVE  /\ FirstKept'
         /\ first.found \subseteq first'.found
         /\ first.unresolved <= first'.unresolved
         /\ first.hints <= first'.hints
<1>1. schema = Default /\ api = Home
  BY DEF Ind, Staged, TypeOK, Home
<1>2. /\ first'.found = first.found \cup found
      /\ first'.unresolved = first.unresolved + unresolved
      /\ first'.hints = first.hints + hints
      /\ first'.trusted = (first.trusted /\ trusted)
  BY DEF Merged
<1>3. /\ hints \in Nat /\ unresolved \in Nat /\ trusted \in BOOLEAN
      /\ found \subseteq DOMAIN Home.status
      /\ found # {} => Home.masks \in {"absent", "denied"}
      /\ unresolved = 0 /\ hints > 0 => found # {}
  BY <1>1 DEF Ind, Passing
<1>4. FirstKept
  BY DEF Ind, Told, Kept
<1>5. Home' = Home
  BY DEF Home
<1>6. first'.trusted \in BOOLEAN
  BY <1>2
<1>7. /\ first'.hints \in Nat /\ first'.unresolved \in Nat
      /\ first.unresolved <= first'.unresolved /\ first.hints <= first'.hints
      /\ first'.found \subseteq DOMAIN Home.status
      /\ first'.found # {} => Home.masks \in {"absent", "denied"}
      /\ first'.unresolved = 0 /\ first'.hints > 0 => first'.found # {}
  BY <1>2, <1>3, <1>4 DEF FirstKept
<1> QED
  BY <1>2, <1>5, <1>6, <1>7 DEF FirstKept

LEMMA ExpandStep ==
  ASSUME Ind, Expand
  PROVE  Ind'
<1>1. PICK sent \in Shortlist(Led \cup Generic) :
        /\ Begin(sent)
        /\ dropped' = (Led \cup Generic) \ sent
        /\ report' = report \cup
             IF Truncated(sent) THEN {Say("budget", "relations")} ELSE {}
  BY DEF Expand
<1>2. /\ stage = "relations" /\ enPhase = "done" /\ first' = Merged
      /\ UNCHANGED <<api, opts, lost, sweepVars, target, stage, schema, extra,
                     harvested, found0, exposed0, missed, proven, facts>>
  BY DEF Expand
<1>3. sent \in SUBSET Names /\ dropped' \in SUBSET Names
  BY <1>1, AssessAssumption DEF Shortlist, Led
<1>4. OracleTyped' /\ Passing' /\ Followed'
  BY <1>1, <1>2, <1>3, PassBegun DEF Ind
<1>5. rdPhase = "idle" /\ UNCHANGED <<rdPhase>>
  BY <1>2 DEF Ind, Staged, sweepVars
<1>6. Sweeping'
  BY <1>2, <1>5, StaysIdle DEF Ind
<1>7. Staged'
  BY <1>1, <1>2, <1>5 DEF Ind, Staged, Begin
<1>8. Placed'
  BY <1>2, <1>3, IsPlaced DEF Ind, Placed
<1>9. /\ report \subseteq report'
      /\ \A f \in report' \ report :
           f = Say("budget", "relations")
  BY <1>1
<1>10. Sayings'
  BY <1>2, <1>9, PlainWords, Worded DEF Ind, Told, Rated, Verbs
<1>11. FirstKept'
  BY <1>2, MergeKeeps
<1>12. Kept'
  BY <1>2, <1>11 DEF Ind, Told, Kept
<1>13. Compared' /\ Owned'
  BY <1>2 DEF Compared, Owned
<1>14. PublishedOnce'
  <2>1. \A f \in report' : f.id \in Rated => f \in report
    BY <1>9, Worded DEF Rated, Verbs
  <2> QED
    BY <2>1, <1>2 DEF Ind, Told, PublishedOnce
<1> QED
  BY <1>4, <1>6, <1>7, <1>8, <1>10, <1>12, <1>13, <1>14, Typing DEF Ind, Told

LEMMA FinishRelationsStep ==
  ASSUME Ind, FinishRelations
  PROVE  Ind'
<1>1. /\ stage = "relations" /\ enPhase = "done" /\ first' = Merged
      /\ found0' = first'.found /\ stage' = "selfcheck" /\ enPhase' = "idle"
      /\ report' = report \cup Doubts(first')
      /\ UNCHANGED <<api, opts, lost, sweepVars, seeds, found, probed, frontier,
                     round, trusted, unresolved, hints, target, schema, extra,
                     dropped, exposed0, missed, facts>>
  BY DEF FinishRelations
<1>2. OracleTyped' /\ Passing' /\ Followed'
  BY <1>1, PassLeft DEF Ind, TypeOK
<1>3. rdPhase = "idle" /\ UNCHANGED rdPhase
  BY <1>1 DEF Ind, Staged, sweepVars
<1>4. Sweeping'
  BY <1>1, <1>3, StaysIdle DEF Ind
<1>5. Staged'
  BY <1>1, <1>3 DEF Ind, Staged
<1>6. Placed'
  BY <1>1, IsPlaced DEF Ind, Placed, Stages
<1>7. FirstKept'
  BY <1>1, MergeKeeps
<1>8. Kept'
  BY <1>1, <1>7 DEF Kept
<1>9. /\ report \subseteq report'
      /\ \A f \in report' \ report :
           \/ f = Say("not-discriminating", "relations")
           \/ f = Say("unresolved", "relations")
  BY <1>1 DEF Doubts
<1>10. Sayings'
  BY <1>1, <1>9, PlainWords, Worded DEF Ind, Told, Rated, Verbs
<1>11. \A f \in report' : f.id \notin Rated
  BY <1>1, <1>9, Worded DEF Ind, Told, PublishedOnce, Rated, Verbs
<1>12. Owned'
  <2>1. SUFFICES ASSUME found0' = {}, first'.hints # 0
                 PROVE  \E f \in report' : Doubtful(f)'
    BY <1>1 DEF Owned
  <2>2. first'.unresolved # 0
    BY <2>1, <1>1, <1>7 DEF FirstKept
  <2>3. Say("unresolved", "relations") \in report'
    BY <2>2, <1>1 DEF Doubts
  <2>4. schema = Default
    BY <1>1 DEF Ind, Staged
  <2>5. Doubtful(Say("unresolved", "relations"))
    BY <2>4, Worded DEF Doubtful
  <2> QED
    BY <2>3, <2>5 DEF Doubtful
<1>13. PublishedOnce' /\ Compared'
  BY <1>1, <1>11 DEF PublishedOnce, Compared
<1> QED
  BY <1>2, <1>4, <1>5, <1>6, <1>8, <1>10, <1>12, <1>13, Typing DEF Ind, Told

LEMMA SelfCheckStep ==
  ASSUME Ind, SelfCheck
  PROVE  Ind'
<1>1. PICK s \in Silences({"routines", "codes"}) :
        /\ report' = report \cup {Say("degraded", c) : c \in Degraded(s)}
        /\ lost' = lost + Cardinality(s)
  BY DEF SelfCheck
<1>2. /\ stage = "selfcheck" /\ stage' = "probe"
      /\ UNCHANGED <<api, opts, passVars, sweepVars, target, schema, extra,
                     first, dropped, found0, exposed0, missed, facts>>
  BY DEF SelfCheck
<1>3. IsFiniteSet({"routines", "codes"})
  <2>1. IsFiniteSet({"routines"})
    BY FS_Singleton
  <2>2. IsFiniteSet({"routines"} \cup {"codes"})
    BY <2>1, FS_AddElement
  <2>3. {"routines", "codes"} = {"routines"} \cup {"codes"}
    OBVIOUS
  <2> QED
    BY <2>2, <2>3
<1>4. lost \in Nat
  BY EnumerateAssumption DEF Ind, TypeOK
<1>5. lost' \in 0..MaxLost /\ (lost' = 0 => lost = 0)
  BY <1>1, <1>3, <1>4, Silence
<1>6. OracleTyped' /\ Passing' /\ Followed'
  BY <1>2, <1>5, PassRests DEF Ind
<1>7. rdPhase = "idle" /\ UNCHANGED <<rdPhase, enPhase, found>>
  BY <1>2 DEF Ind, Staged, sweepVars, passVars
<1>8. Sweeping'
  BY <1>2, <1>7, StaysIdle DEF Ind
<1>9. Staged'
  BY <1>2, <1>7 DEF Ind, Staged
<1>10. Placed'
  BY <1>2, IsPlaced DEF Ind, Placed, Stages
<1>11. /\ report \subseteq report'
       /\ \A f \in report' \ report : \E c : f = Say("degraded", c)
  BY <1>1
<1>12. Sayings'
  BY <1>2, <1>5, <1>11, PlainWords, Worded DEF Ind, Told, Rated, Verbs
<1>13. Kept'
  BY <1>2 DEF Ind, Told, Kept, FirstKept, Home
<1>14. \A f \in report' : f.id \notin Rated
  BY <1>2, <1>11, Worded DEF Ind, Told, PublishedOnce, Rated, Verbs
<1>15. Owned'
  <2>1. SUFFICES ASSUME found0' = {} PROVE \E f \in report' : Doubtful(f)'
    BY DEF Owned
  <2>2. CASE \E f \in report : Doubtful(f)
    BY <2>2, <1>11 DEF Doubtful
  <2>3. CASE ~\E f \in report : Doubtful(f)
    <3>1. first.hints = 0 /\ first.found = {}
      BY <2>1, <2>3, <1>2 DEF Ind, Told, Owned, Kept
    <3>2. "hints" \in Degraded(s)
      BY <3>1 DEF Degraded, OracleMute
    <3>3. Say("degraded", "hints") \in report'
      BY <3>2, <1>1
    <3>4. schema = Default
      BY <1>2 DEF Ind, Staged
    <3>5. Doubtful(Say("degraded", "hints"))
      BY <3>4, Worded DEF Doubtful
    <3> QED
      BY <3>3, <3>5 DEF Doubtful
  <2> QED
    BY <2>2, <2>3
<1>16. PublishedOnce' /\ Compared'
  BY <1>2, <1>14 DEF PublishedOnce, Compared
<1> QED
  BY <1>6, <1>8, <1>9, <1>10, <1>12, <1>13, <1>15, <1>16, Typing DEF Ind, Told

LEMMA StartProbeStep ==
  ASSUME Ind, StartProbe
  PROVE  Ind'
<1>1. /\ stage = "probe" /\ rdPhase = "idle" /\ BeginSweep(found0)
      /\ UNCHANGED <<api, opts, lost, passVars, stageVars>>
  BY DEF StartProbe
<1>2. StageStays /\ UNCHANGED <<target, schema, extra, dropped, enPhase>>
  BY <1>1 DEF StageStays, stageVars, passVars
<1>3. found0 \subseteq DOMAIN api.status
  BY <1>1 DEF Ind, Told, Kept, FirstKept, Staged, TypeOK, Home
<1>4. Sweeping'
  BY <1>1, <1>2, <1>3, SweepBegun DEF Ind
<1>5. OracleTyped' /\ Passing' /\ Followed'
  BY <1>1, PassRests DEF Ind, TypeOK
<1>6. Staged'
  BY <1>1, <1>2 DEF Ind, Staged, StageStays
<1>7. Placed'
  BY <1>1, <1>2, IsPlaced DEF Ind, Placed, StageStays
<1>8. Told'
  BY <1>1, <1>2, NothingTold DEF Ind
<1> QED
  BY <1>4, <1>5, <1>6, <1>7, <1>8, Typing DEF Ind

LEMMA FinishProbeStep ==
  ASSUME Ind, FinishProbe
  PROVE  Ind'
<1>1. /\ stage = "probe" /\ SweepOver /\ Publish /\ stage' = "schemas"
      /\ exposed0' = Reads({"exposed"})
      /\ UNCHANGED <<api, opts, lost, passVars, target, schema, extra, first,
                     dropped, found0>>
  BY DEF FinishProbe
<1>2. /\ enPhase = "idle" /\ UNCHANGED <<enPhase, found>>
      /\ schema = Default /\ api = Home /\ extra = {}
      /\ rdPhase \in {"done", "abandoned"} /\ rdPhase' = "idle"
  BY <1>1 DEF Ind, Staged, passVars, TypeOK, Home, SweepOver, Publish
<1>3. Sweeping'
  BY <1>1, Cleared
<1>4. OracleTyped' /\ Passing' /\ Followed'
  BY <1>1, PassRests DEF Ind, TypeOK
<1>5. Staged'
  BY <1>1, <1>2 DEF Ind, Staged
<1>6. Placed'
  BY <1>1, IsPlaced DEF Ind, Placed, Stages
<1>7. Kept'
  BY <1>1 DEF Ind, Told, Kept, FirstKept, Home
<1>8. \A f \in report : f.id \notin Rated
  BY <1>1 DEF Ind, Told, PublishedOnce
<1>9. /\ Sayings' /\ report \subseteq report' /\ missed \subseteq missed'
      /\ \A f \in report' : f.id \in Rated => f.schema = schema
  BY <1>1, <1>8, Published DEF Ind, Told
<1>10. PublishedOnce'
  BY <1>1, <1>2, <1>9 DEF PublishedOnce
<1>11. Owned'
  <2>1. SUFFICES ASSUME found0 = {} PROVE \E f \in report' : Doubtful(f)'
    BY <1>1 DEF Owned
  <2>2. \E f \in report : Doubtful(f)
    BY <2>1, <1>1 DEF Ind, Told, Owned
  <2> QED
    BY <2>2, <1>9 DEF Doubtful
<1>12. Compared'
  <2>1. SUFFICES ASSUME NEW n \in found0, Home.status[n] = "exposed"
                 PROVE  n \in exposed0' \/ <<Default, n>> \in missed'
    BY <1>1 DEF Compared, Home
  <2>2. missed' = missed \cup {<<schema, m>> : m \in rest \cup
                   {k \in DOMAIN rel : rel[k].read = "unknown"}}
    BY <1>1 DEF Publish
  <2>3. n \in Swept /\ n \in DOMAIN api.status /\ n # Control
    BY <1>1, <1>2, <2>1, ApiShape DEF Ind, Sweeping
  <2>4. CASE n \in rest
    BY <2>2, <2>4, <1>2
  <2>5. CASE n \in DOMAIN rel
    <3>1. rel[n].pc = "done" /\ rel[Control].pc = "done" /\ Control \in DOMAIN rel
      BY <2>5, <1>2 DEF Ind, Sweeping
    <3>2. Fine(n, rel[n]) /\ Fine(Control, rel[Control])
      BY <2>5, <3>1 DEF Ind, Sweeping
    <3>3. rel[n].read \in {"exposed", "unknown"}
      BY <2>1, <2>3, <3>1, <3>2, <1>2 DEF Fine, Reply, ClassifyRead
    <3>4. CASE rel[n].read = "unknown"
      BY <2>2, <2>5, <3>4, <1>2
    <3>5. CASE rel[n].read = "exposed"
      <4>1. found0 \subseteq first.found /\ first.found # {}
        BY <1>1, <2>1 DEF Ind, Told, Kept
      <4>2. api.masks \in {"absent", "denied"}
        BY <4>1, <1>2 DEF Ind, Told, Kept, FirstKept
      <4>3. rel[Control].read # "exposed"
        BY <4>2, <3>1, <3>2, ApiShape DEF Fine, Reply, ClassifyRead, Ind
      <4>4. rdPhase = "done"
        BY <4>3, <3>5, <2>5, <1>2 DEF Ind, Sweeping
      <4> QED
        BY <4>4, <3>5, <2>5, <2>3, <1>1 DEF Reads, Relations
    <3> QED
      BY <3>3, <3>4, <3>5
  <2> QED
    BY <2>3, <2>4, <2>5 DEF Swept
<1> QED
  BY <1>3, <1>4, <1>5, <1>6, <1>7, <1>9, <1>10, <1>11, <1>12, Typing DEF Ind, Told

LEMMA DiscoverStep ==
  ASSUME Ind, Discover
  PROVE  Ind'
<1>1. PICK s \in Silences({Control}) :
        /\ extra' \subseteq DOMAIN target \ {Default}
        /\ lost' = lost + Cardinality(s)
  BY DEF Discover, DefaultSchemas
<1>2. /\ stage = "schemas" /\ enPhase = "idle" /\ stage' = "each"
      /\ report' = report \cup {Say("schema", x) : x \in extra'}
      /\ UNCHANGED <<api, opts, passVars, sweepVars, scanRest, schema, missed,
                     facts>>
  BY DEF Discover
<1>3. IsFiniteSet({Control})
  BY FS_Singleton
<1>4. lost \in Nat
  BY EnumerateAssumption DEF Ind, TypeOK
<1>5. lost' \in 0..MaxLost /\ (lost' = 0 => lost = 0)
  BY <1>1, <1>3, <1>4, Silence
<1>6. OracleTyped' /\ Passing' /\ Followed'
  BY <1>2, <1>5, PassRests DEF Ind
<1>7. /\ rdPhase = "idle" /\ UNCHANGED <<rdPhase, enPhase, found>>
      /\ schema = Default
      /\ UNCHANGED <<target, first, dropped, found0, exposed0>>
  BY <1>2 DEF Ind, Staged, sweepVars, passVars, scanRest
<1>8. Sweeping'
  BY <1>2, <1>7, StaysIdle DEF Ind
<1>9. Staged'
  BY <1>1, <1>2, <1>7 DEF Ind, Staged
<1>10. Placed'
  BY <1>2, <1>7, IsPlaced DEF Ind, Placed, Stages
<1>11. /\ report \subseteq report'
       /\ \A f \in report' \ report : \E x : f = Say("schema", x)
  BY <1>2
<1>12. Sayings'
  BY <1>2, <1>5, <1>7, <1>11, PlainWords, Worded DEF Ind, Told, Rated, Verbs
<1>13. Kept'
  BY <1>2, <1>7 DEF Ind, Told, Kept, FirstKept, Home
<1>14. \A f \in report' : f.id \in Rated => f \in report
  BY <1>11, Worded DEF Rated, Verbs
<1>15. PublishedOnce'
  <2>1. \A f \in report : f.id \in Rated => f.schema = Default
    BY <1>2 DEF Ind, Told, PublishedOnce
  <2>2. Default \notin extra'
    BY <1>1
  <2> QED
    BY <2>1, <2>2, <1>2, <1>7, <1>14 DEF PublishedOnce
<1>16. Owned' /\ Compared'
  BY <1>2, <1>7, <1>11 DEF Ind, Told, Owned, Compared, Doubtful, Home
<1> QED
  BY <1>6, <1>8, <1>9, <1>10, <1>12, <1>13, <1>15, <1>16, Typing DEF Ind, Told

LEMMA NextSchemaStep ==
  ASSUME Ind, NextSchema
  PROVE  Ind'
<1>1. PICK s \in extra : schema' = s /\ api' = target[s] /\ extra' = extra \ {s}
  BY DEF NextSchema
<1>2. /\ stage = "each" /\ enPhase = "idle" /\ Begin(Pinned)
      /\ UNCHANGED <<opts, lost, sweepVars, scanRest, stage, missed, report, facts>>
  BY DEF NextSchema
<1>3. Pinned \in SUBSET Names
  BY AssessAssumption
<1>4. OracleTyped' /\ Passing' /\ Followed'
  BY <1>2, <1>3, PassBegun DEF Ind
<1>5. /\ rdPhase = "idle" /\ UNCHANGED rdPhase
      /\ UNCHANGED <<target, first, dropped, found0, exposed0>>
      /\ enPhase' = "control"
  BY <1>2 DEF Ind, Staged, sweepVars, scanRest, Begin
<1>6. Sweeping'
  BY <1>2, <1>5, StaysIdle DEF Ind
<1>7. Staged'
  BY <1>1, <1>2, <1>5 DEF Ind, Staged
<1>8. Placed'
  BY <1>1, <1>2, <1>5, IsPlaced DEF Ind, Placed, Staged
<1>9. Sayings'
  BY <1>2, <1>5, SilentWords DEF Ind, Told
<1>10. Kept' /\ Compared' /\ Owned'
  BY <1>2, <1>5 DEF Ind, Told, Kept, FirstKept, Compared, Owned, Home, Doubtful
<1>11. PublishedOnce'
  BY <1>1, <1>2 DEF Ind, Told, PublishedOnce
<1> QED
  BY <1>4, <1>6, <1>7, <1>8, <1>9, <1>10, <1>11, Typing DEF Ind, Told

LEMMA SkipSchemaStep ==
  ASSUME Ind, SkipSchema
  PROVE  Ind'
<1>1. /\ stage = "each" /\ enPhase = "done" /\ (~trusted \/ found = {})
      /\ report' = report \cup IF Blind THEN {Say("not-assessed", schema)} ELSE {}
      /\ enPhase' = "idle"
      /\ UNCHANGED <<api, opts, lost, sweepVars, seeds, found, probed, frontier,
                     round, trusted, unresolved, hints, scanRest, stage, schema,
                     extra, missed, facts>>
  BY DEF SkipSchema
<1>2. found = {}
  BY <1>1 DEF Ind, Passing
<1>3. /\ rdPhase = "idle" /\ UNCHANGED rdPhase
      /\ UNCHANGED <<target, first, dropped, found0, exposed0>>
  BY <1>1, <1>2 DEF Ind, Staged, sweepVars, scanRest
<1>4. OracleTyped' /\ Passing' /\ Followed'
  BY <1>1, PassLeft DEF Ind, TypeOK
<1>5. Sweeping'
  BY <1>1, <1>3, StaysIdle DEF Ind
<1>6. Staged'
  BY <1>1, <1>3 DEF Ind, Staged
<1>7. Placed'
  BY <1>1, <1>3, IsPlaced DEF Ind, Placed
<1>8. /\ report \subseteq report'
      /\ \A f \in report' \ report : f = Say("not-assessed", schema)
  BY <1>1
<1>9. Sayings'
  BY <1>1, <1>3, <1>8, PlainWords, Worded DEF Ind, Told, Rated, Verbs
<1>10. Kept' /\ Compared' /\ Owned'
  BY <1>1, <1>3, <1>8
     DEF Ind, Told, Kept, FirstKept, Compared, Owned, Home, Doubtful
<1>11. \A f \in report' : f.id \in Rated => f \in report
  BY <1>8, Worded DEF Rated, Verbs
<1>12. PublishedOnce'
  BY <1>1, <1>11 DEF Ind, Told, PublishedOnce
<1> QED
  BY <1>4, <1>5, <1>6, <1>7, <1>9, <1>10, <1>12, Typing DEF Ind, Told

LEMMA SweepSchemaStep ==
  ASSUME Ind, SweepSchema
  PROVE  Ind'
<1>1. /\ stage = "each" /\ enPhase = "done" /\ found # {} /\ rdPhase = "idle"
      /\ BeginSweep(found)
      /\ UNCHANGED <<api, opts, lost, passVars, stageVars>>
  BY DEF SweepSchema
<1>2. /\ StageStays
      /\ UNCHANGED <<target, schema, extra, dropped, enPhase, found>>
  BY <1>1 DEF StageStays, stageVars, passVars
<1>3. found \subseteq DOMAIN api.status
  BY <1>1 DEF Ind, Passing
<1>4. Sweeping'
  BY <1>1, <1>2, <1>3, SweepBegun DEF Ind
<1>5. OracleTyped' /\ Passing' /\ Followed'
  BY <1>1, PassRests DEF Ind, TypeOK
<1>6. Staged'
  BY <1>1, <1>2 DEF Ind, Staged, StageStays
<1>7. Placed'
  BY <1>1, <1>2, IsPlaced DEF Ind, Placed, StageStays
<1>8. Told'
  BY <1>1, <1>2, NothingTold DEF Ind
<1> QED
  BY <1>4, <1>5, <1>6, <1>7, <1>8, Typing DEF Ind

LEMMA FinishSchemaStep ==
  ASSUME Ind, FinishSchema
  PROVE  Ind'
<1>1. /\ stage = "each" /\ SweepOver /\ Publish /\ enPhase' = "idle"
      /\ UNCHANGED <<api, opts, lost, seeds, found, probed, frontier, round,
                     trusted, unresolved, hints, scanRest, stage, schema, extra>>
  BY DEF FinishSchema
<1>2. /\ rdPhase' = "idle" /\ enPhase = "done"
      /\ UNCHANGED <<target, first, dropped, found0, exposed0>>
  BY <1>1 DEF Ind, Staged, scanRest, SweepOver, Publish
<1>3. Sweeping'
  BY <1>1, Cleared
<1>4. OracleTyped' /\ Passing' /\ Followed'
  BY <1>1, PassLeft DEF Ind, TypeOK
<1>5. Staged'
  BY <1>1, <1>2 DEF Ind, Staged
<1>6. Placed'
  BY <1>1, <1>2, IsPlaced DEF Ind, Placed
<1>7. \A f \in report : f.id \in Rated => f.schema # schema
  BY <1>2 DEF Ind, Told, PublishedOnce
<1>8. /\ Sayings' /\ report \subseteq report' /\ missed \subseteq missed'
      /\ \A f \in report' : f.id \in Rated => f \in report \/ f.schema = schema
  BY <1>1, <1>2, <1>7, Published DEF Ind, Told
<1>9. PublishedOnce'
  <2>1. schema \notin extra
    BY DEF Ind, Staged
  <2> QED
    BY <2>1, <1>1, <1>8 DEF Ind, Told, PublishedOnce
<1>10. Kept' /\ Compared' /\ Owned'
  BY <1>1, <1>2, <1>8
     DEF Ind, Told, Kept, FirstKept, Compared, Owned, Home, Doubtful
<1> QED
  BY <1>3, <1>4, <1>5, <1>6, <1>8, <1>9, <1>10, Typing DEF Ind, Told

LEMMA EndSchemasStep ==
  ASSUME Ind, EndSchemas
  PROVE  Ind'
<1>1. /\ stage = "each" /\ enPhase = "idle" /\ extra = {} /\ stage' = "graphql"
      /\ schema' = Default /\ api' = target[Default]
      /\ UNCHANGED <<opts, lost, passVars, sweepVars, scanRest, extra, missed,
                     report, facts>>
  BY DEF EndSchemas
<1>2. /\ rdPhase = "idle" /\ UNCHANGED <<rdPhase, enPhase, found>>
      /\ UNCHANGED <<target, first, dropped, found0, exposed0>>
  BY <1>1 DEF Ind, Staged, sweepVars, passVars, scanRest
<1>3. OracleTyped' /\ Passing' /\ Followed'
  BY <1>1, <1>2, PassLeft DEF Ind, TypeOK, passVars
<1>4. Sweeping'
  BY <1>1, <1>2, StaysIdle DEF Ind
<1>5. Staged'
  BY <1>1, <1>2 DEF Ind, Staged
<1>6. Placed'
  BY <1>1, <1>2, IsPlaced, AssessAssumption DEF Ind, Placed, Stages
<1>7. Sayings'
  BY <1>1, <1>2, SilentWords DEF Ind, Told
<1>8. Kept' /\ Compared' /\ Owned'
  BY <1>1, <1>2 DEF Ind, Told, Kept, FirstKept, Compared, Owned, Home, Doubtful
<1>9. PublishedOnce'
  BY <1>1, <1>2 DEF Ind, Told, PublishedOnce
<1> QED
  BY <1>3, <1>4, <1>5, <1>6, <1>7, <1>8, <1>9, Typing DEF Ind, Told

\* What the GraphQL stage says, whatever its questions meet.
LEMMA GraphQLSays ==
  ASSUME GraphQL, NEW f \in report'
  PROVE  \/ f \in report
         \/ \E n \in found0 \ exposed0 : f = Say("bypass", n)
         \/ \E n : f = Say("graphql", n)
         \/ f = Say("not-assessed", "graphql")
<1>1. PICK s, control :
        report' = report \cup
          CASE control = "on"  -> GraphQLFindings(s)
            [] control = "off" -> {}
            [] OTHER           -> {Say("not-assessed", "graphql")}
  BY DEF GraphQL
<1>2. CASE control = "on"
  <2>1. f \in report \/ f \in GraphQLFindings(s)
    BY <1>1, <1>2
  <2> QED
    BY <2>1 DEF GraphQLFindings, Served, RestReadable
<1>3. CASE control = "off"
  <2>1. f \in report
    BY <1>1, <1>3
  <2> QED
    BY <2>1
<1>4. CASE control # "on" /\ control # "off"
  <2>1. f \in report \/ f = Say("not-assessed", "graphql")
    BY <1>1, <1>4
  <2> QED
    BY <2>1
<1> QED
  BY <1>2, <1>3, <1>4

LEMMA GraphQLStep ==
  ASSUME Ind, GraphQL
  PROVE  Ind'
<1>1. PICK s \in Silences(found0 \cup {Control}) : lost' = lost + Cardinality(s)
  BY DEF GraphQL
<1>2. /\ stage = "graphql" /\ stage' = "end"
      /\ UNCHANGED <<api, opts, passVars, sweepVars, scanRest, schema, extra,
                     missed, facts>>
  BY DEF GraphQL
<1>3. /\ rdPhase = "idle" /\ enPhase = "idle" /\ schema = Default
      /\ UNCHANGED <<rdPhase, enPhase, found>>
      /\ UNCHANGED <<target, first, dropped, found0, exposed0>>
  BY <1>2 DEF Ind, Staged, sweepVars, passVars, scanRest
<1>4. lost' \in 0..MaxLost /\ (lost' = 0 => lost = 0)
  <2>1. found0 \subseteq Names
    BY ApiShape, <1>2 DEF Ind, Told, Kept, FirstKept, IsSchema
  <2>2. IsFiniteSet(found0 \cup {Control})
    BY <2>1, EnumerateAssumption, FS_Subset, FS_AddElement
  <2>3. lost \in Nat
    BY EnumerateAssumption DEF Ind, TypeOK
  <2> QED
    BY <1>1, <2>2, <2>3, Silence
<1>5. OracleTyped' /\ Passing' /\ Followed'
  BY <1>2, <1>4, PassRests DEF Ind
<1>6. Sweeping'
  BY <1>2, <1>3, StaysIdle DEF Ind
<1>7. Staged'
  BY <1>2, <1>3 DEF Ind, Staged
<1>8. Placed'
  BY <1>2, <1>3, IsPlaced DEF Ind, Placed, Stages
<1>9. report \subseteq report'
  BY DEF GraphQL
<1>10. \A f \in report' \ report :
         /\ f.id \notin Rated \cup {"readable"}
         /\ f = [id |-> f.id, schema |-> f.schema, of |-> f.of]
         /\ f.id = "bypass" => f.of \in found0 \ exposed0
  <2>1. SUFFICES ASSUME NEW f \in report' \ report
                 PROVE  /\ f.id \notin Rated \cup {"readable"}
                        /\ f = [id |-> f.id, schema |-> f.schema, of |-> f.of]
                        /\ f.id = "bypass" => f.of \in found0 \ exposed0
    OBVIOUS
  <2>2. \/ \E n \in found0 \ exposed0 : f = Say("bypass", n)
        \/ \E n : f = Say("graphql", n)
        \/ f = Say("not-assessed", "graphql")
    BY <2>1, GraphQLSays
  <2>3. \E id, n : /\ f = Say(id, n) /\ id \in {"bypass", "graphql", "not-assessed"}
                   /\ id = "bypass" => n \in found0 \ exposed0
    BY <2>2
  <2> QED
    BY <2>3, Worded DEF Rated, Verbs
<1>11. \A f \in report' \ report : f.id = "bypass" =>
         \/ target[Default].status[f.of] # "exposed"
         \/ <<Default, f.of>> \in missed
  BY <1>2, <1>10 DEF Ind, Told, Compared, Home
<1>12. Sayings'
  BY <1>2, <1>3, <1>4, <1>9, <1>10, <1>11, PlainWords DEF Ind, Told
<1>13. Kept' /\ Compared' /\ Owned'
  BY <1>2, <1>3, <1>9
     DEF Ind, Told, Kept, FirstKept, Compared, Owned, Home, Doubtful
<1>14. PublishedOnce'
  BY <1>2, <1>3, <1>10 DEF Ind, Told, PublishedOnce
<1> QED
  BY <1>5, <1>6, <1>7, <1>8, <1>12, <1>13, <1>14, Typing DEF Ind, Told

LEMMA SkipGraphQLStep ==
  ASSUME Ind, SkipGraphQL
  PROVE  Ind'
<1>1. /\ stage = "graphql" /\ stage' = "end"
      /\ UNCHANGED <<api, opts, lost, passVars, sweepVars, scanRest, schema, extra,
                     missed, report, facts>>
  BY DEF SkipGraphQL
<1>2. /\ rdPhase = "idle" /\ enPhase = "idle" /\ schema = Default
      /\ UNCHANGED <<rdPhase, enPhase, found>>
      /\ UNCHANGED <<target, first, dropped, found0, exposed0>>
  BY <1>1 DEF Ind, Staged, sweepVars, passVars, scanRest
<1>3. OracleTyped' /\ Passing' /\ Followed'
  BY <1>1, PassRests DEF Ind, TypeOK
<1>4. Sweeping'
  BY <1>1, <1>2, StaysIdle DEF Ind
<1>5. Staged' /\ Placed'
  BY <1>1, <1>2, IsPlaced DEF Ind, Staged, Placed, Stages
<1>6. Sayings'
  BY <1>1, <1>2, SilentWords DEF Ind, Told
<1>7. Kept' /\ Compared' /\ Owned' /\ PublishedOnce'
  BY <1>1, <1>2
     DEF Ind, Told, Kept, FirstKept, Compared, Owned, Home, Doubtful, PublishedOnce
<1> QED
  BY <1>3, <1>4, <1>5, <1>6, <1>7, Typing DEF Ind, Told

-----------------------------------------------------------------------------
(***************************************************************************)
(* The theorems.                                                           *)
(***************************************************************************)
LEMMA Starts == Init => Ind
<1> SUFFICES ASSUME Init PROVE Ind
  OBVIOUS
<1>1. /\ target \in Targets /\ schema = Default /\ api = target[Default]
      /\ stage = "relations" /\ lost = 0 /\ extra = {} /\ first = Nothing
      /\ opts \in [measure : BOOLEAN, write : BOOLEAN]
      /\ dropped = {} /\ found0 = {} /\ report = {} /\ facts = {}
  BY DEF Init
<1>2. /\ enPhase = "idle" /\ seeds = {} /\ found = {} /\ probed = {}
      /\ frontier = {} /\ round = 0 /\ trusted = TRUE
      /\ unresolved = 0 /\ hints = 0
  BY DEF Init, Idle
<1>3. rdPhase = "idle" /\ batch = {} /\ rest = {} /\ rel = <<>> /\ left = 0
  BY DEF Init, NotSweeping
<1>4. <<>> \in [{} -> Entry]
  OBVIOUS
<1>5. DOMAIN rel = {} /\ rel \in [{} -> Entry]
  BY <1>3, <1>4
<1>6. TypeOK
  BY <1>1, <1>2, <1>3, <1>5, AssessAssumption, EnumerateAssumption,
     ReadStageAssumption DEF TypeOK
<1>7. Staged /\ Passing /\ Followed
  BY <1>1, <1>2, <1>3 DEF Staged, Passing, Followed
<1>8. Sweeping
  BY <1>3, <1>5, ReadStageAssumption DEF Sweeping
<1>9. Told
  BY <1>1 DEF Told, Kept, FirstKept, Nothing, Sayings, Spoken, Understood,
              WritableIsNeverContent, AccessFactsAreTrue, BypassIsReal,
              PublishedOnce, Compared, Owned
<1> QED
  BY <1>6, <1>7, <1>8, <1>9 DEF Ind

LEMMA Stutters ==
  ASSUME Ind, UNCHANGED vars
  PROVE  Ind'
<1>1. UNCHANGED <<api, opts, lost, passVars, sweepVars, stageVars>>
  BY DEF vars
<1>2. UNCHANGED <<target, stage, schema, extra, dropped, found0, rdPhase, enPhase,
                  found>>
  BY <1>1 DEF stageVars, sweepVars, passVars
<1>3. OracleTyped' /\ Passing' /\ Followed'
  BY <1>1, PassRests DEF Ind, TypeOK
<1>4. Sweeping'
  BY <1>1, <1>2, SweepRests DEF Ind
<1>5. Staged' /\ Placed'
  BY <1>1, <1>2, IsPlaced DEF Ind, Staged, Placed
<1>6. Told'
  BY <1>1, <1>2, NothingTold DEF Ind
<1> QED
  BY <1>3, <1>4, <1>5, <1>6, Typing DEF Ind

LEMMA Stays == Ind /\ [Next]_vars => Ind'
<1> SUFFICES ASSUME Ind, [Next]_vars PROVE Ind'
  OBVIOUS
<1> QED
  BY StartRelationsStep, ExpandStep, FinishRelationsStep, SelfCheckStep,
     StartProbeStep, FinishProbeStep, DiscoverStep, NextSchemaStep,
     SkipSchemaStep, SweepSchemaStep, FinishSchemaStep, EndSchemasStep,
     GraphQLStep, SkipGraphQLStep, OracleStep, SweepingStep, Stutters
     DEF Next

\* The inductive invariant of the assessment stages is never left.
THEOREM StaysInductive == Spec => []Ind
BY Starts, Stays, PTL DEF Spec

LEMMA Phantomless == Ind => NoPhantom
<1> SUFFICES ASSUME Ind PROVE NoPhantom
  OBVIOUS
<1>1. enPhase = "idle" \/ found \subseteq DOMAIN api.status
  BY DEF Ind, Passing
<1>2. found0 \subseteq DOMAIN target[Default].status
  BY DEF Ind, Told, Kept, FirstKept, Home
<1> QED
  BY <1>1, <1>2 DEF NoPhantom

\* What a scan says of the relations is so, in every project: no name is taken
\* for a relation behind a host that answers to any, a read it gives as observed
\* is the target's own answer and an INSERT or UPDATE it gives as allowed is
\* open, an INSERT or DELETE it gives as denied is not unless a request got no
\* answer, a relation it calls writable is never rated as site content, and a
\* way around REST is one.  (enumerate.Run, probe.Run, accessFacts and the GraphQL stage.)
THEOREM AssessmentStaysSound == Spec => []AssessmentIsSound
<1>1. Ind => AssessmentIsSound
  BY Phantomless DEF Ind, Told, Sayings, AssessmentIsSound
<1> QED
  BY <1>1, StaysInductive, PTL

LEMMA HintsLead == Ind => HintedIsFound
<1> DEFINE one  == Hop(seeds)
           stem == UNION {api.stems[n] : n \in (seeds \cup one) \cap
                                      DOMAIN api.stems \cap DOMAIN api.status}
           real == {n \in DOMAIN api.status : Exists(api.status[n])}
<1> SUFFICES ASSUME Ind, enPhase = "done", trusted, lost = 0, one \ seeds # {}
             PROVE  /\ one \cap real \subseteq found
                    /\ MaxRounds > 1 => Hop(stem) \cap real \subseteq found
  BY DEF HintedIsFound
<1>1. /\ probed \cap Real \subseteq found
      /\ Hop(probed) \subseteq probed \cup frontier
      /\ round = 0 => probed = seeds
      /\ round > 0 => Hop(seeds) \subseteq probed
      /\ round > 0 /\ api.masks = "absent" => Stemmed \subseteq probed
      /\ round > 1 => (api.masks = "absent" => Hop(Stemmed) \subseteq probed)
      /\ round < MaxRounds => frontier \subseteq probed
  BY DEF Ind, Followed
<1>2. round \in 0..MaxRounds /\ MaxRounds \in Nat \ {0}
  BY EnumerateAssumption DEF Ind, TypeOK
<1>3. real = Real /\ stem = Stemmed
  BY DEF Real, Stemmed, StemsOf
<1>4. api.masks = "absent"
  <2>1. PICK m \in seeds \cap DOMAIN api.hint : Reply(m) = "absent"
    BY DEF Hop
  <2> QED
    BY <2>1, ApiShape DEF Reply, IsSchema, Ind
<1>5. round > 0
  <2>1. SUFFICES ASSUME round = 0 PROVE FALSE
    BY <1>2
  <2>2. probed = seeds /\ frontier \subseteq probed
    BY <2>1, <1>1, <1>2
  <2> QED
    BY <2>2, <1>1
<1>6. one \cap real \subseteq found
  BY <1>1, <1>3, <1>5
<1>7. ASSUME MaxRounds > 1 PROVE Hop(Stemmed) \subseteq probed
  <2>1. CASE round > 1
    BY <2>1, <1>1, <1>4
  <2>2. CASE round = 1
    <3>1. frontier \subseteq probed /\ Stemmed \subseteq probed
      BY <2>2, <1>1, <1>2, <1>4, <1>7
    <3>2. Hop(Stemmed) \subseteq Hop(probed)
      BY <3>1 DEF Hop
    <3> QED
      BY <3>1, <3>2, <1>1
  <2> QED
    BY <2>1, <2>2, <1>2, <1>5
<1> QED
  BY <1>1, <1>3, <1>6, <1>7

LEMMA EmptyIsOwned == Ind => EmptyIsNeverClean
BY DEF Ind, Told, Owned, Doubtful, EmptyIsNeverClean

LEMMA UnderstatedIsTold == Ind => UnderstatedIsDeclared
BY DEF Ind, Told, Sayings, Understood, UnderstatedIsDeclared, Home

LEMMA BudgetHolds == Ind => ColumnBudgetIsExact
BY BudgetIsExact DEF Ind

\* What a scan does not say it owns up to, in every project: an empty result
\* is explained, what a hint names is found, the column budget pays for as
\* many relations as it can, and a relation that it did not pay for is not
\* passed off as harmless.  (enumerate.Run, selfcheck, probe.Run, probeBudget.)
THEOREM AssessmentStaysComplete == Spec => []AssessmentIsComplete
<1>1. Ind => AssessmentIsComplete
  BY HintsLead, EmptyIsOwned, UnderstatedIsTold, BudgetHolds
     DEF AssessmentIsComplete
<1> QED
  BY <1>1, StaysInductive, PTL

LEMMA FirstGrows ==
  ASSUME Ind, [Next]_vars
  PROVE  /\ first.found \subseteq first'.found
         /\ first.unresolved <= first'.unresolved
         /\ first.hints <= first'.hints
<1>1. first.unresolved \in Nat /\ first.hints \in Nat
  BY DEF Ind, Told, Kept, FirstKept
<1>2. CASE Expand \/ FinishRelations
  BY <1>2, MergeKeeps DEF Expand, FinishRelations
<1>3. CASE ~(Expand \/ FinishRelations)
  <2>1. first' = first
    BY <1>3 DEF Next, StartRelations, SelfCheck, StartProbe, FinishProbe, Discover,
                NextSchema, SkipSchema, SweepSchema, FinishSchema, EndSchemas,
                GraphQL, SkipGraphQL, Oracle, Sweep, vars, stageVars, scanRest
  <2> QED
    BY <2>1, <1>1
<1> QED
  BY <1>2, <1>3

\* The fallback expansion of EnumerateStage keeps what the first pass had:
\* names, open probes and hints.
THEOREM ExpansionKeepsAll == Spec => ExpansionLosesNothing
<1>1. Ind /\ [Next]_vars =>
        [/\ first.found \subseteq first'.found
         /\ first.unresolved <= first'.unresolved
         /\ first.hints <= first'.hints]_vars
  BY FirstGrows
<1> QED
  BY <1>1, StaysInductive, PTL DEF Spec, ExpansionLosesNothing
=============================================================================
