------------------------------ MODULE MCAccount ------------------------------
\* Two scans: of two projects in one process, or of one project in two, with
\* and without -no-residue and -mailbox.
EXTENDS Account

Pair(j, k) == [s \in {"A", "B"} |-> IF s = "A" THEN j ELSE k]

SupabaseJob(process, noResidue, mailbox) ==
  Job("supabase", "sb", process, noResidue, mailbox)
FirebaseJob(process, noResidue) ==
  Job("firebase", "fb", process, noResidue, FALSE)

TwoScans ==
  {Pair(SupabaseJob(1, n, m), FirebaseJob(1, n)) : n, m \in BOOLEAN}
  \cup {Pair(SupabaseJob(1, n, m), SupabaseJob(2, FALSE, k)) :
          n, m, k \in BOOLEAN}
  \cup {Pair(FirebaseJob(1, n), FirebaseJob(2, k)) : n, k \in BOOLEAN}

Admission(open, weak, confirm, anonymous) ==
  [open |-> open, weak |-> weak, confirm |-> confirm, anonymous |-> anonymous,
   public |-> {"r1"}, members |-> {"r1", "r2"}]

EveryPolicy ==
  {[p \in {"sb", "fb"} |-> IF p = "sb" THEN Admission(o, w, c, FALSE)
                           ELSE Admission(o, w, FALSE, c)] :
     o, w, c \in BOOLEAN}
==============================================================================
