------------------------------ MODULE ReadStage ------------------------------
(***************************************************************************)
(* probe.Run: every relation that was found is read, with -measure asked   *)
(* for the columns of a pinned list, and with -write probed for its verbs. *)
(* A control name and a sample of the relations go first; if all of them   *)
(* read alike the sweep is abandoned.  Workers run probeOne concurrently   *)
(* and share one budget of column probes.                                  *)
(***************************************************************************)
EXTENDS Enumerate

CONSTANTS
  SampleSize,       \* controlSampleSize
  MaxColumnProbes,
  Candidates,       \* how many column names are pinned
  Verdicts          \* verdicts of the write stage, by verb, that may occur

ASSUME ReadStageAssumption ==
  /\ {SampleSize, MaxColumnProbes, Candidates} \subseteq Nat
  /\ Candidates > 0

Verbs == {"insert", "update", "delete"}

VARIABLES
  opts,      \* -measure and -write
  rdPhase,   \* "idle", "head", "rest", "done", "abandoned"
  batch,     \* the relations of the running client.Map
  rest,      \* the ones to come
  rel,       \* what probeOne knows of each relation it was called for
  left       \* probeBudget.left

sweepVars == <<rdPhase, batch, rest, rel, left>>

NoVerdicts == [v \in Verbs |-> "none"]

New == [pc |-> "read", read |-> "unknown", sensitive |-> FALSE,
        unprobed |-> FALSE, verbs |-> NoVerdicts]

Lesser(a, b) == IF a < b THEN a ELSE b

NotSweeping ==
  rdPhase = "idle" /\ batch = {} /\ rest = {} /\ rel = <<>> /\ left = 0

\* Run: the control and a sample of the relations first.
BeginSweep(names) ==
  \E sample \in SUBSET names :
    /\ Cardinality(sample) = Lesser(Cardinality(names), SampleSize)
    /\ rdPhase' = "head"
    /\ batch' = sample \cup {Control}
    /\ rest' = names \ sample
    /\ rel' = [n \in batch' |-> New]
    /\ left' = MaxColumnProbes

\* To ClassifyRead the two refusals are one.
ClassifyRead(reply) == IF reply = "refused" THEN "denied" ELSE reply

\* After the read: columns to ask for, verbs to probe, or done.
AfterRead(read) ==
  IF read = "exposed" /\ opts.measure THEN "take"
  ELSE IF opts.write THEN "write" ELSE "done"

\* columnsOf and the rules over names and values, when rows were sampled.
SampleIsSensitive(n) == ~opts.measure /\ n \in api.sensitive

Read(n) ==
  /\ rel[n].pc = "read"
  /\ \E silent \in Silences({n}) :
       LET read == ClassifyRead(Answer(n, silent)) IN
       /\ lost' = lost + Cardinality(silent)
       /\ rel' = [rel EXCEPT ![n].pc = AfterRead(read), ![n].read = read,
                    ![n].sensitive = read = "exposed" /\ SampleIsSensitive(n)]
  /\ UNCHANGED <<rdPhase, batch, rest, left>>

\* Mutant: its last full share is held back.
AffordableStrictly == left > Candidates

\* probeBudget.take: all or nothing.
Affordable == left >= Candidates

Take(n) ==
  /\ rel[n].pc = "take"
  /\ IF Affordable
     THEN /\ left' = left - Candidates
          /\ rel' = [rel EXCEPT ![n].pc = "columns"]
     ELSE /\ left' = left
          /\ rel' = [rel EXCEPT ![n].pc = IF opts.write THEN "write" ELSE "done",
                                ![n].unprobed = TRUE]
  /\ UNCHANGED <<lost, rdPhase, batch, rest>>

\* probeSensitiveColumns: a column whose question stays without an answer is
\* taken not to be there.
Columns(n) ==
  /\ rel[n].pc = "columns"
  /\ \E misses \in {0, 1} :
       /\ lost + misses <= MaxLost
       /\ lost' = lost + misses
       /\ rel' = [rel EXCEPT ![n].pc = IF opts.write THEN "write" ELSE "done",
                    ![n].sensitive = n \in api.sensitive /\ misses = 0]
  /\ UNCHANGED <<rdPhase, batch, rest, left>>

Admits(n, verb) == n \in DOMAIN api.open /\ verb \in api.open[n]

\* An INSERT is called refused when the bare one that decides gets no answer,
\* and a DELETE when the gateway turns it away.
Unheard(n, v) ==
  {verb \in {"insert", "delete"} : v[verb] = "blocked" /\ Admits(n, verb)}

\* The verdicts are WriteProbe's, as far as they can be relied on there: an
\* INSERT or UPDATE called reached was (ReachedIsSound).  A DELETE need not
\* have been, when the verifying read is throttled or the owner took the row
\* away, nor an UPDATE called refused, when the owner took its row away.
ProbeVerbs(n) ==
  /\ rel[n].pc = "write"
  /\ \E v \in Verdicts :
       /\ \A verb \in {"insert", "update"} : v[verb] = "reached" => Admits(n, verb)
       /\ lost' = lost + Cardinality(Unheard(n, v))
       /\ lost' <= MaxLost
       /\ rel' = [rel EXCEPT ![n].pc = "done", ![n].verbs = v]
  /\ UNCHANGED <<rdPhase, batch, rest, left>>

Finished == \A n \in batch : rel[n].pc = "done"

\* Does the answer depend on which relation was asked for?
Discriminates ==
  \/ rel[Control].read = "absent"
  \/ batch = {Control}
  \/ \E n \in batch \ {Control} : rel[n].read # rel[Control].read

JudgeControl ==
  /\ rdPhase = "head" /\ Finished
  /\ IF Discriminates
     THEN /\ rdPhase' = "rest"
          /\ batch' = rest
          /\ rel' = [n \in DOMAIN rel \cup rest |->
                       IF n \in rest THEN New ELSE rel[n]]
          /\ rest' = {}
     ELSE rdPhase' = "abandoned" /\ UNCHANGED <<batch, rest, rel>>
  /\ UNCHANGED <<lost, left>>

EndSweep ==
  /\ rdPhase = "rest" /\ Finished
  /\ rdPhase' = "done"
  /\ UNCHANGED <<lost, batch, rest, rel, left>>

Work ==
  /\ rdPhase \in {"head", "rest"}
  /\ \E n \in batch : Read(n) \/ Take(n) \/ Columns(n) \/ ProbeVerbs(n)

SweepStep == Work \/ JudgeControl \/ EndSweep

-----------------------------------------------------------------------------
\* Result.Relations, and what Result.Findings makes of them.

Relations == IF rdPhase = "done" THEN DOMAIN rel \ {Control} ELSE {}

Reads(states) == {n \in Relations : rel[n].read \in states}
WithVerb(verb, verdict) == {n \in Relations : rel[n].verbs[verb] = verdict}

Writable == UNION {WithVerb(verb, "reached") : verb \in Verbs}

\* Some verb was decided one way or the other.
WriteAnswered ==
  UNION {WithVerb(verb, v) : verb \in Verbs, v \in {"reached", "blocked"}}

\* The site's own copy: the columns look published, and the write probe ran
\* and was answered.
LooksLikeContent(n) == n \in api.content \cap WriteAnswered

\* Mutant: looks like content is asked before writable.
SeverityContentFirst(n) ==
  IF rel[n].sensitive THEN "critical"
  ELSE IF LooksLikeContent(n) THEN "medium" ELSE "high"

\* What decides a read's severity, in the order of readFinding.
Severity(n) ==
  IF rel[n].sensitive THEN "critical"
  ELSE IF n \in Writable THEN "high"
  ELSE IF LooksLikeContent(n) THEN "medium" ELSE "high"

Entries(id, names) == {[id |-> id, of |-> n] : n \in names}

ReadFindings == Entries("readable", Reads({"exposed"}))
                \cup {[id |-> Severity(n), of |-> n] : n \in Reads({"exposed"})}

InsertFindings == Entries("insert", WithVerb("insert", "reached"))
                  \cup Entries("insert-unknown",
                               WithVerb("insert", "inconclusive"))

VerbFindings == UNION {Entries(v, WithVerb(v, "reached")) :
                         v \in {"update", "delete"}}

\* The notes per verb are for readable relations only: no other offers a row.
VerbNotes == Entries("verb-unknown", Reads({"exposed"}) \cap
               UNION {WithVerb(v, "inconclusive") : v \in {"update", "delete"}})

Inventory == Entries("protected", Reads({"empty", "denied"}))

\* One statement covers the verbs of all relations that were not readable.
BlindSpot == Entries("unreadable", Relations \ Reads({"exposed"}))

Findings == ReadFindings \cup InsertFindings \cup VerbFindings
            \cup VerbNotes \cup Inventory \cup BlindSpot

\* Mutant: only the relations of the sample are counted.
UnclassifiedInSample == {n \in Relations \ batch : rel[n].unprobed}

Unclassified == {n \in Relations : rel[n].unprobed}
==============================================================================
