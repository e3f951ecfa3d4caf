-------------------------------- MODULE Account --------------------------------
(***************************************************************************)
(* How a scan comes by an account on the target, and what it leaves there: *)
(* escalate.Acquire for Supabase, authFindings for Firebase, the mailbox   *)
(* that receives a confirmation, the store of identities both share, what  *)
(* the report says of it all, and the comparison the account is for.       *)
(*                                                                         *)
(* Scans interleave: targets of a list run in one process and share its    *)
(* mutex, while two processes share nothing but the file.  A process can   *)
(* be killed between any two steps, and its scans be run again.            *)
(***************************************************************************)
EXTENDS Naturals, FiniteSets

CONSTANTS
  Scans,
  Plans,       \* what the scans are, a set of functions from Scans to jobs
  Policies,    \* how the projects admit users, a set of functions
  MaxLost,     \* bound: replies that never arrive
  MaxKills     \* bound: processes killed

ASSUME AccountAssumption ==
  /\ {MaxLost, MaxKills} \subseteq Nat
  /\ IsFiniteSet(Scans)

\* What Acquire and authFindings look at.
Job(backend, project, process, noResidue, mailbox) ==
  [backend |-> backend, project |-> project, process |-> process,
   noResidue |-> noResidue, mailbox |-> mailbox]

\* What is said of an account, as opposed to the relations it gains; "inbox-left"
\* is a line of the log, the others are findings.
Notes == {"left-behind", "weak", "not-assessed", "inbox-left", "open-signup",
          "visitor-left"}

\* A Firebase project answers a registration with a session: nothing there
\* waits for a confirmation.
ASSUME PlansAssumption ==
  \A plan \in Plans : \A s \in Scans :
    /\ plan[s].backend \in {"supabase", "firebase"}
    /\ {plan[s].noResidue, plan[s].mailbox} \subseteq BOOLEAN
    /\ \A admission \in Policies :
         LET p == admission[plan[s].project] IN
         /\ {p.open, p.weak, p.confirm, p.anonymous} \subseteq BOOLEAN
         /\ IsFiniteSet(p.public)
         /\ (p.public \cup p.members) \cap Notes = {}
         /\ plan[s].backend = "firebase" => ~p.confirm

VARIABLES
  job, policy,
  users,    \* accounts on the projects: address, password, and who made them
  store,    \* identities.json: can it be parsed, and the accounts in it
  inboxes,  \* projects with an inbox at the mail service
  mails,    \* projects whose confirmation has arrived there
  run,      \* the local state of each scan
  report,   \* what each scan has said, in a finding or in the log
  made,     \* history: the scans that registered an account
  lost, kills

vars == <<job, policy, users, store, inboxes, mails, run, report, made, lost,
          kills>>
world == <<job, policy, kills>>

\* The address is derived from the project: one of the two is ProbeEmail, the
\* other the mailbox's.
Addresses == {"derived", "mailbox"}
Passwords == {"weak", "strong"}

Fresh == [pc |-> "lookup", email |-> "derived", pw |-> "weak",
          token |-> FALSE, created |-> FALSE, weak |-> FALSE,
          ephemeral |-> FALSE, inbox |-> FALSE, copy |-> <<>>]

Init ==
  /\ job \in Plans /\ policy \in Policies
  /\ users = {} /\ store = [intact |-> TRUE, accounts |-> <<>>]
  /\ inboxes = {} /\ mails = {}
  /\ run = [s \in Scans |-> Fresh]
  /\ report = [s \in Scans |-> {}] /\ made = {}
  /\ lost = 0 /\ kills = 0

Project(s) == job[s].project
Supabase(s) == job[s].backend = "supabase"

\* Some reply goes missing, up to MaxLost of them.
Replied == lost' = lost
Silence == lost < MaxLost /\ lost' = lost + 1

Goto(s, pc) == run' = [run EXCEPT ![s].pc = pc]
Say(s, notes) == report' = [report EXCEPT ![s] = @ \cup notes]

-----------------------------------------------------------------------------
\* A remembered account, signed in, before anything that leaves a trace.

AfterStored(s) ==
  CASE Supabase(s) /\ job[s].mailbox /\ ~job[s].noResidue -> "open"
    [] job[s].noResidue                                   -> "recover"
    [] OTHER                                              -> "signup"

\* identity.Lookup
Lookup(s) ==
  /\ run[s].pc = "lookup"
  /\ run' = [run EXCEPT ![s] =
       IF Project(s) \in DOMAIN store.accounts
       THEN [Fresh EXCEPT !.pc = "stored",
                          !.email = store.accounts[Project(s)].email,
                          !.pw = store.accounts[Project(s)].pw]
       ELSE [Fresh EXCEPT !.pc = AfterStored(s)]]
  /\ UNCHANGED <<world, users, store, inboxes, mails, report, made, lost>>

\* The target's side of a sign-in.
Admits(s, email, pw) ==
  \E u \in users : /\ u.project = Project(s) /\ u.email = email
                   /\ u.pw = pw /\ u.confirmed

\* Mutant: what the password said of the policy is not reported again.
WeakOfStoredForgotten(s) == FALSE

\* Supabase says again what the stored password says of the policy, Firebase
\* does not.
WeakOfStored(s) == Supabase(s) /\ run[s].pw = "weak"

SignInStored(s) ==
  /\ run[s].pc = "stored"
  /\ \/ /\ Admits(s, run[s].email, run[s].pw) /\ Replied
        /\ run' = [run EXCEPT ![s].pc = "session", ![s].token = TRUE,
                              ![s].weak = WeakOfStored(s)]
     \/ /\ IF Admits(s, run[s].email, run[s].pw) THEN Silence ELSE Replied
        /\ run' = [run EXCEPT ![s] = [Fresh EXCEPT !.pc = AfterStored(s)]]
  /\ UNCHANGED <<world, users, store, inboxes, mails, report, made>>

-----------------------------------------------------------------------------
\* The mailbox

\* AgentMail.Open: fetched, or created.  When the reply of the creation is
\* lost, Acquire fails and knows of no inbox to remove.
OpenInbox(s) ==
  /\ run[s].pc = "open"
  /\ \/ /\ Replied
        /\ inboxes' = inboxes \cup {Project(s)}
        /\ run' = [run EXCEPT ![s].pc = "signup", ![s].email = "mailbox",
                              ![s].inbox = TRUE]
     \/ /\ Silence
        /\ inboxes' \in {inboxes, inboxes \cup {Project(s)}}
        /\ Goto(s, "failed")
  /\ UNCHANGED <<world, users, store, mails, report, made>>

\* Mutant: there is no deadline.
AwaitForEver(s) ==
  /\ run[s].pc = "await"
  /\ Project(s) \in inboxes \cap mails /\ Goto(s, "follow")
  /\ UNCHANGED <<world, users, store, inboxes, mails, report, made, lost>>

\* Await polls until a message is there or the time is up.
Await(s) ==
  /\ run[s].pc = "await"
  /\ \/ Project(s) \in inboxes \cap mails /\ Goto(s, "follow")
     \/ Goto(s, "failed")
  /\ UNCHANGED <<world, users, store, inboxes, mails, report, made, lost>>

Confirmed(s) ==
  {IF u.project = Project(s) /\ u.email = "mailbox"
   THEN [u EXCEPT !.confirmed = TRUE] ELSE u : u \in users}

\* The link is followed; without a reply Acquire gives up, whether or not it
\* was received.
Follow(s) ==
  /\ run[s].pc = "follow"
  /\ \/ Replied /\ users' = Confirmed(s) /\ Goto(s, "confirmed")
     \/ Silence /\ users' \in {users, Confirmed(s)} /\ Goto(s, "failed")
  /\ UNCHANGED <<world, store, inboxes, mails, report, made>>

SignInConfirmed(s) ==
  /\ run[s].pc = "confirmed"
  /\ \/ /\ Admits(s, run[s].email, run[s].pw) /\ Replied
        /\ run' = [run EXCEPT ![s].pc = "remember", ![s].created = TRUE,
                              ![s].weak = run[s].pw = "weak"]
     \/ /\ IF Admits(s, run[s].email, run[s].pw) THEN Silence ELSE Replied
        /\ Goto(s, "failed")
  /\ UNCHANGED <<world, users, store, inboxes, mails, report, made>>

\* Mailbox.Close, deferred by Acquire, removes the inbox and what is in it.  A
\* failure is a warning in the log, and in no finding.
Close(s) == /\ inboxes' = inboxes \ {Project(s)}
            /\ mails' = mails \ {Project(s)}

\* Mutant: only a scan that came by a session removes its inbox.
InboxOfSession(s) == run[s].inbox /\ run[s].token

InboxToClose(s) == run[s].inbox

CloseInbox(s, notes) ==
  IF ~InboxToClose(s) THEN Replied /\ UNCHANGED <<inboxes, mails>> /\ Say(s, notes)
  ELSE \/ Replied /\ Close(s) /\ Say(s, notes)
       \/ /\ Silence /\ (UNCHANGED <<inboxes, mails>> \/ Close(s))
          /\ Say(s, notes \cup {"inbox-left"})

-----------------------------------------------------------------------------
\* Registering, weak password first

\* Mutant: a new address for every scan.
EmailOfScan(s) == s

\* What is registered under.
Email(s) == run[s].email

\* The target's side.  Where confirmation is asked for, it answers the same
\* whether or not the address is known.
SignUpReply(s) ==
  LET p     == policy[Project(s)]
      known == \E u \in users : u.project = Project(s) /\ u.email = Email(s)
  IN  IF ~p.open \/ (run[s].pw = "weak" /\ ~p.weak) THEN "refused"
      ELSE IF p.confirm THEN "confirm"
      ELSE IF known THEN "refused" ELSE "session"

\* An account appears, unless the address is taken.
Register(s) ==
  LET p   == policy[Project(s)]
      new == [project |-> Project(s), email |-> Email(s), pw |-> run[s].pw,
              confirmed |-> ~p.confirm, by |-> s]
      known == \E u \in users : u.project = Project(s) /\ u.email = Email(s)
  IN  IF known THEN UNCHANGED <<users, mails, made>>
      ELSE /\ users' = users \cup {new}
           /\ made' = made \cup {s}
           /\ mails' \in {mails, mails \cup IF p.confirm /\ Project(s) \in inboxes
                                             THEN {Project(s)} ELSE {}}

NoEffect == UNCHANGED <<users, mails, made>>

\* The other password, or the first again.
Try(s, pc) ==
  run' = [run EXCEPT ![s].pc = pc,
                     ![s].pw = IF @ = "weak" THEN "strong" ELSE "weak"]

\* A refusal, or no reply: the strong password, then what comes after both.
AfterRefusal(s) ==
  Try(s, IF run[s].pw = "weak" THEN "signup"
         ELSE IF ~Supabase(s) /\ job[s].noResidue THEN "anonymous" ELSE "recover")

\* Where a session leads.  The account of a Firebase scan under -no-residue is
\* ephemeral and never remembered.
AfterSignUp(s) ==
  run' = [run EXCEPT ![s].created = TRUE, ![s].token = TRUE,
            ![s].weak = run[s].pw = "weak",
            ![s].pc = IF ~Supabase(s) /\ job[s].noResidue
                      THEN "session" ELSE "remember",
            ![s].ephemeral = ~Supabase(s) /\ job[s].noResidue]

SignUp(s) ==
  /\ run[s].pc = "signup"
  /\ LET reply == SignUpReply(s) IN
     \/ /\ Replied
        /\ CASE reply = "refused" -> NoEffect /\ AfterRefusal(s)
             [] reply = "session" -> Register(s) /\ AfterSignUp(s)
             [] reply = "confirm" ->
                  /\ Register(s)
                  /\ Goto(s, IF run[s].inbox THEN "await" ELSE "failed")
     \/ /\ reply # "refused" /\ Silence
        /\ NoEffect \/ Register(s)
        /\ AfterRefusal(s)
  /\ UNCHANGED <<world, store, inboxes, report>>

\* Both passwords this scanner uses are tried against an address it may have
\* registered before.
Recover(s) ==
  /\ run[s].pc = "recover"
  /\ \/ /\ Admits(s, run[s].email, run[s].pw) /\ Replied
        /\ run' = [run EXCEPT ![s].pc = "remember", ![s].token = TRUE,
                              ![s].created = FALSE,
                              ![s].weak = run[s].pw = "weak"]
     \/ /\ IF Admits(s, run[s].email, run[s].pw) THEN Silence ELSE Replied
        /\ Try(s, IF run[s].pw = "weak" THEN "recover"
                  ELSE IF Supabase(s) THEN "failed"
                  ELSE IF job[s].noResidue THEN "signup" ELSE "anonymous")
  /\ UNCHANGED <<world, users, store, inboxes, mails, report, made>>

-----------------------------------------------------------------------------
\* identity.Remember: under the mutex of its process the file is read, and
\* then written, which truncates it first.

Mutex(s) == {t \in Scans : run[t].pc \in {"truncate", "write"}
                           /\ job[t].process = job[s].process}

\* Mutant: scans of one process do not exclude each other.
NobodyHolds(s) == TRUE

Free(s) == Mutex(s) = {}

Load(s) ==
  /\ run[s].pc = "remember" /\ Free(s)
  /\ run' = [run EXCEPT ![s].pc = "truncate", ![s].token = TRUE,
               ![s].copy = store.accounts]
  /\ UNCHANGED <<world, users, store, inboxes, mails, report, made, lost>>

Truncate(s) ==
  /\ run[s].pc = "truncate"
  /\ store' = [intact |-> FALSE, accounts |-> <<>>]
  /\ Goto(s, "write")
  /\ UNCHANGED <<world, users, inboxes, mails, report, made, lost>>

Write(s) ==
  /\ run[s].pc = "write"
  /\ store' = [intact |-> TRUE, accounts |->
                  [p \in DOMAIN run[s].copy \cup {Project(s)} |->
                     IF p = Project(s)
                     THEN [email |-> Email(s), pw |-> run[s].pw]
                     ELSE run[s].copy[p]]]
  /\ Goto(s, "session")
  /\ UNCHANGED <<world, users, inboxes, mails, report, made, lost>>

-----------------------------------------------------------------------------
\* What is said of it.

\* Mutant: an account that is reused is reported as one that was created.
NoteOfAnySession(s) ==
  {"left-behind"} \cup (IF run[s].weak THEN {"weak"} ELSE {})

\* accountNote, with a session: a finding for the account created, one for the
\* weak password.
AccountNote(s) ==
  (IF run[s].created THEN {"left-behind"} ELSE {})
  \cup (IF run[s].weak THEN {"weak"} ELSE {})

SupabaseSession(s) ==
  /\ run[s].pc = "session" /\ Supabase(s)
  /\ CloseInbox(s, AccountNote(s))
  /\ Goto(s, "compare")
  /\ UNCHANGED <<world, users, store, made>>

\* accountNote, with an error: what a signed-in user reaches is not assessed.
Failed(s) ==
  /\ run[s].pc = "failed"
  /\ CloseInbox(s, {"not-assessed"})
  /\ Goto(s, "over")
  /\ UNCHANGED <<world, users, store, made>>

\* Mutant: everything the account can read is a gain.
NothingToCompare(s, silent) == {}

\* What the base role could already read.  A read without a reply reads as
\* nothing.
BaseReadable(s, silent) == policy[Project(s)].public \ silent

\* escalate.Compare: what the account reads and the anonymous caller did not.
Compare(s) ==
  /\ run[s].pc = "compare"
  /\ \E silent \in SUBSET policy[Project(s)].public :
       /\ lost + Cardinality(silent) <= MaxLost
       /\ lost' = lost + Cardinality(silent)
       /\ Say(s, policy[Project(s)].members \ BaseReadable(s, silent))
  /\ Goto(s, "over")
  /\ UNCHANGED <<world, users, store, inboxes, mails, made>>

-----------------------------------------------------------------------------
\* authFindings and finishSession, for Firebase

FirebaseSession(s) ==
  /\ run[s].pc = "session" /\ ~Supabase(s)
  /\ Say(s, {"open-signup"} \cup IF run[s].weak THEN {"weak"} ELSE {})
  /\ Goto(s, "anonymous")
  /\ UNCHANGED <<world, users, store, inboxes, mails, made, lost>>

Visitor(s) == [project |-> Project(s), email |-> s, pw |-> "none",
               confirmed |-> TRUE, by |-> s]

\* anonymousSignInEnabled: a session with no credentials at all.
SignInAnonymously(s) ==
  /\ run[s].pc = "anonymous"
  /\ \/ /\ ~policy[Project(s)].anonymous /\ Replied
        /\ Goto(s, "finish") /\ UNCHANGED <<users, made>>
     \/ /\ policy[Project(s)].anonymous
        /\ users' = users \cup {Visitor(s)}
        /\ made' = made \cup {s}
        /\ \/ Replied /\ Goto(s, "visitor")
           \/ Silence /\ Goto(s, "finish")
  /\ UNCHANGED <<world, store, inboxes, mails, report>>

\* deleteAccount: what has no reply is taken for not removed.
Delete(s, account, id) ==
  \/ Replied /\ users' = users \ account /\ UNCHANGED report
  \/ /\ Silence /\ users' \in {users, users \ account}
     /\ Say(s, {id})

RemoveVisitor(s) ==
  /\ run[s].pc = "visitor"
  /\ Delete(s, {Visitor(s)}, "visitor-left")
  /\ Goto(s, "finish")
  /\ UNCHANGED <<world, store, inboxes, mails, made>>

\* Mutant: the account that was made for this scan stays.
KeptForNextTime(s) == FALSE

Ephemeral(s) == run[s].ephemeral

\* finishSession, after the questions have been asked.
Finish(s) ==
  /\ run[s].pc = "finish"
  /\ IF Ephemeral(s)
     THEN Delete(s, {u \in users : u.project = Project(s) /\ u.email = Email(s)},
                 "left-behind")
     ELSE Replied /\ UNCHANGED <<users, report>>
  /\ Goto(s, "over")
  /\ UNCHANGED <<world, store, inboxes, mails, made>>

-----------------------------------------------------------------------------
\* The process of a scan dies, and the scan is run again.
Kill(process) ==
  /\ kills < MaxKills /\ kills' = kills + 1
  /\ \E s \in Scans : job[s].process = process /\ run[s].pc # "over"
  /\ run' = [s \in Scans |-> IF job[s].process = process THEN Fresh ELSE run[s]]
  /\ report' = [s \in Scans |-> IF job[s].process = process THEN {} ELSE report[s]]
  /\ UNCHANGED <<job, policy, users, store, inboxes, mails, made, lost>>

Step(s) ==
  \/ Lookup(s) \/ SignInStored(s) \/ OpenInbox(s) \/ Await(s) \/ Follow(s)
  \/ SignInConfirmed(s) \/ SignUp(s) \/ Recover(s) \/ Load(s) \/ Truncate(s)
  \/ Write(s) \/ SupabaseSession(s) \/ Failed(s) \/ Compare(s)
  \/ FirebaseSession(s) \/ SignInAnonymously(s) \/ RemoveVisitor(s) \/ Finish(s)

Next == (\E s \in Scans : Step(s)) \/ (\E s \in Scans : Kill(job[s].process))

Spec == Init /\ [][Next]_vars
FairSpec == Spec /\ \A s \in Scans : WF_vars(Step(s))
-----------------------------------------------------------------------------
Over(s) == run[s].pc = "over"

TypeOK ==
  /\ job \in Plans /\ policy \in Policies
  /\ \A u \in users : u.email \in Addresses \cup Scans
                      /\ u.confirmed \in BOOLEAN
  /\ \A p \in DOMAIN store.accounts : store.accounts[p].pw \in Passwords
  /\ lost \in 0..MaxLost /\ kills \in 0..MaxKills
  /\ \A s \in Scans : Cardinality(Mutex(s)) <= 1

\* However often scans are run, killed, or lose the store, a project gets at
\* most one account per address of this scanner's, and one only when no mailbox
\* is in play.  (A new one per run is the litter the store is there to prevent.)
OneAccountPerProject ==
  \A p \in DOMAIN policy :
    Cardinality({u \in users : u.project = p /\ u.pw # "none"})
      <= IF \E s \in Scans : job[s].mailbox THEN 2 ELSE 1

\* -no-residue: a Supabase scan registers nothing and opens no inbox; what a
\* Firebase scan registers is gone, or reported, or a reply was lost.
NoResidueIsKept ==
  \A s \in Scans : job[s].noResidue =>
    /\ ~run[s].inbox
    /\ Supabase(s) => s \notin made
    /\ Over(s) /\ lost = 0 /\ kills = 0 => \A u \in users : u.by # s

\* An account said to have been created and left behind was created by a run of
\* that scan: the owner is not sent looking for what is not there.  (With one
\* mailbox, two scans at once may both follow the link and both say so.)
LeftBehindIsTrue ==
  \A s \in Scans : "left-behind" \in report[s] /\ ~job[s].mailbox => s \in made

\* Whether it registered its account, recovered it or signed in to it again, a
\* Supabase scan reports the weak password exactly when that is the password.
WeakVerdictIsStable ==
  \A s \in Scans : Supabase(s) /\ run[s].token /\ Over(s) =>
    ("weak" \in report[s] <=> run[s].pw = "weak")

\* Remember forgets no other project's account, unless the file could not be
\* parsed or two processes wrote it at once.
OneProcess == \A s, t \in Scans : job[s].process = job[t].process
StoreForgetsNothing ==
  [][OneProcess /\ kills = 0 =>
       \A s \in Scans : Write(s) =>
         \A t \in Scans : Over(t) /\ run[t].token /\ ~run[t].ephemeral =>
           Project(t) \in DOMAIN store'.accounts]_vars

\* The inbox a scan opened is gone when the scan is over, unless the log warns
\* that it is not, or another scan of the project is using it.
InboxIsRemoved ==
  \A s \in Scans : Over(s) /\ run[s].inbox /\ Project(s) \in inboxes =>
    \/ "inbox-left" \in report[s]
    \/ \E t \in Scans \ {s} : Project(t) = Project(s) /\ job[t].mailbox
    \/ kills > 0

\* A relation reported as gained by signing up is one that an anonymous caller
\* cannot read, unless the read of it got no reply.
GainIsReal ==
  \A s \in Scans : lost = 0 =>
    report[s] \cap policy[Project(s)].public = {}

\* What scans make of accounts: at most one per project and address, whoever is
\* killed in between, its verdict on the password the same every time, and no
\* gain that is everybody's.
AccountsAreSound ==
  /\ TypeOK
  /\ OneAccountPerProject
  /\ WeakVerdictIsStable
  /\ GainIsReal

\* What scans leave behind: nothing where the operator forbids it, nothing said
\* to be left that was not made, and no inbox without at least a warning in the
\* log.
ResidueIsKnown ==
  /\ NoResidueIsKept
  /\ LeftBehindIsTrue
  /\ InboxIsRemoved

\* Every scan ends, killed or not: the wait for a confirmation is bounded and
\* nobody waits for the mutex for ever.
EveryScanEnds == \A s \in Scans : <>Over(s)

\* Not so: an account that a completed scan registered is in its report.  One
\* that waits for a confirmation nobody receives is not, nor is one whose reply
\* was lost and that the scan then signs in to as if it had been there before.
ResidueIsReported ==
  \A s \in Scans : s \in made /\ Over(s) /\ Supabase(s) /\ kills = 0 =>
    "left-behind" \in report[s]

\* Not so: the weakness of a password is reported by every Firebase scan that
\* uses the account.
WeakVerdictIsStableEverywhere ==
  \A s \in Scans : run[s].token /\ Over(s) =>
    ("weak" \in report[s] <=> run[s].pw = "weak")
==============================================================================
