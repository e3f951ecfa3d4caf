---------------------------- MODULE AccountProofs ----------------------------
(***************************************************************************)
(* Proofs about Account, for every set of scans, every plan of what they   *)
(* are and every policy of the projects, with any number of lost replies   *)
(* and killed processes.                                                   *)
(***************************************************************************)
EXTENDS Account, FiniteSetTheorems, TLAPS

-----------------------------------------------------------------------------
(***************************************************************************)
(* Types.                                                                  *)
(***************************************************************************)
PCs == {"lookup", "stored", "open", "signup", "recover", "await", "follow",
        "confirmed", "remember", "truncate", "write", "session", "compare",
        "failed", "anonymous", "visitor", "finish", "over"}
Projects == {plan[s].project : plan \in Plans, s \in Scans}
Account1 == [email : Addresses, pw : Passwords]
Accounts == UNION {[P -> Account1] : P \in SUBSET Projects}
Local == [pc : PCs, email : Addresses, pw : Passwords, token : BOOLEAN,
          created : BOOLEAN, weak : BOOLEAN, ephemeral : BOOLEAN,
          inbox : BOOLEAN, copy : Accounts]
User == [project : Projects, email : Addresses \cup Scans,
         pw : Passwords \cup {"none"}, confirmed : BOOLEAN, by : Scans]

Typed ==
  /\ job \in Plans /\ policy \in Policies
  /\ users \subseteq User
  /\ store \in [intact : BOOLEAN, accounts : Accounts]
  /\ run \in [Scans -> Local]
  /\ report = [s \in Scans |-> report[s]]
  /\ lost \in 0..MaxLost /\ kills \in 0..MaxKills

-----------------------------------------------------------------------------
(***************************************************************************)
(* What each scan knows of itself.                                         *)
(***************************************************************************)
\* From the session on; a token is held nowhere else.
Late == {"remember", "truncate", "write", "session", "compare", "anonymous",
         "visitor", "finish", "over"}

\* Which steps a scan of a kind takes: the mailbox is a Supabase scan's that
\* may leave a trace, and a Supabase scan that may not registers nothing.
WayIsItsOwn(s) ==
  /\ run[s].pc \in {"open", "await", "follow", "confirmed"} \/ run[s].inbox
       => Supabase(s) /\ job[s].mailbox /\ ~job[s].noResidue
  /\ Supabase(s) => run[s].pc \notin {"anonymous", "visitor", "finish"}
  /\ Supabase(s) /\ job[s].noResidue => run[s].pc # "signup" /\ s \notin made
  /\ ~Supabase(s) => run[s].pc \notin {"failed", "compare"}
  /\ run[s].token => run[s].pc \in Late

\* What it says of the password is so, and said once it has a session.
VerdictHolds(s) == Supabase(s) =>
  /\ run[s].pc \in {"remember", "truncate", "write", "session"} =>
       (run[s].weak <=> run[s].pw = "weak")
  /\ run[s].pc \notin {"compare", "over"} => "weak" \notin report[s]
  /\ run[s].pc \in {"compare", "over"} /\ run[s].token =>
       ("weak" \in report[s] <=> run[s].pw = "weak")

\* What it takes for its own doing is.
DoneByItself(s) ==
  /\ run[s].created \/ "left-behind" \in report[s] => s \in made \/ job[s].mailbox
  /\ run[s].ephemeral => s \in made /\ ~Supabase(s) /\ job[s].noResidue

\* The inbox is closed as soon as it is not needed any more.
OthersInbox(s) == \E t \in Scans \ {s} : Project(t) = Project(s) /\ job[t].mailbox
InboxIsClosed(s) ==
  run[s].pc \in {"compare", "over"} /\ run[s].inbox /\ Project(s) \in inboxes =>
    "inbox-left" \in report[s] \/ OthersInbox(s)

NoFalseGain(s) == lost = 0 => report[s] \cap policy[Project(s)].public = {}

Sane(s) == /\ WayIsItsOwn(s) /\ VerdictHolds(s) /\ DoneByItself(s)
           /\ InboxIsClosed(s) /\ NoFalseGain(s)

-----------------------------------------------------------------------------
(***************************************************************************)
(* The accounts.                                                           *)
(***************************************************************************)
SomeMailbox == \E s \in Scans : job[s].mailbox

\* An address of this scanner's is on a project once.
Once(people) ==
  \A u, v \in people :
    u.project = v.project /\ u.email = v.email /\ u.pw # "none" /\ v.pw # "none" => u = v

\* Everybody who is there was made by a scan, and the mailbox's address is in
\* use only where there is a mailbox.
Known ==
  /\ \A u \in users : /\ u.by \in made
                      /\ u.pw # "none" => u.email \in Addresses
                      /\ u.pw # "none" /\ u.email = "mailbox" => SomeMailbox
  /\ \A s \in Scans : run[s].email = "mailbox" => SomeMailbox
  /\ \A p \in DOMAIN store.accounts :
       store.accounts[p].email = "mailbox" => SomeMailbox
  /\ \A s \in Scans : \A p \in DOMAIN run[s].copy :
       run[s].copy[p].email = "mailbox" => SomeMailbox

AddressesAreOnce == Once(users) /\ Known

\* While no reply is lost and nothing killed, what is on the project by a scan
\* that may leave nothing is what the scan is about to remove.
AboutToGo(s, u) ==
  \/ /\ run[s].ephemeral /\ u.project = Project(s) /\ u.email = Email(s)
     /\ run[s].pc \in {"session", "anonymous", "visitor", "finish"}
  \/ run[s].pc = "visitor" /\ u = Visitor(s)
LeavesNothing ==
  lost = 0 /\ kills = 0 =>
    \A s \in Scans : job[s].noResidue => \A u \in users : u.by = s => AboutToGo(s, u)

-----------------------------------------------------------------------------
(***************************************************************************)
(* The store.                                                              *)
(***************************************************************************)
Holds(s) == run[s].pc \in {"truncate", "write"}
OneWriter == \A s, t \in Scans : Holds(s) /\ Holds(t) /\ job[s].process = job[t].process => s = t

\* A scan whose account the store has, or will have again.
Remembered(t) ==
  \/ run[t].pc = "stored"
  \/ /\ run[t].token /\ ~run[t].ephemeral
     /\ run[t].pc \in {"session", "compare", "anonymous", "visitor", "finish", "over"}

NothingForgotten ==
  OneProcess /\ kills = 0 =>
    /\ \A s \in Scans : run[s].pc = "truncate" => store.accounts = run[s].copy
    /\ \A s \in Scans : run[s].pc = "write" => DOMAIN store.accounts = {}
    /\ \A t \in Scans : Remembered(t) =>
         /\ (\A s \in Scans : ~Holds(s)) => Project(t) \in DOMAIN store.accounts
         /\ \A s \in Scans : Holds(s) => Project(t) \in DOMAIN run[s].copy

Ind == /\ Typed /\ (\A s \in Scans : Sane(s)) /\ AddressesAreOnce
       /\ LeavesNothing /\ OneWriter /\ NothingForgotten

-----------------------------------------------------------------------------
LEMMA EmptyStore == <<>> \in Accounts
<1>1. <<>> \in [{} -> Account1]
  OBVIOUS
<1> QED BY <1>1 DEF Accounts

LEMMA FreshIsLocal == Fresh \in Local
BY EmptyStore DEF Fresh, Local, PCs, Addresses, Passwords

LEMMA InitTyped == Init => Typed
<1> SUFFICES ASSUME Init PROVE Typed
  OBVIOUS
<1>1. store \in [intact : BOOLEAN, accounts : Accounts]
  BY EmptyStore DEF Init
<1>2. run \in [Scans -> Local]
  BY FreshIsLocal DEF Init
<1>3. lost \in 0..MaxLost /\ kills \in 0..MaxKills
  BY AccountAssumption DEF Init
<1> QED BY <1>1, <1>2, <1>3 DEF Init, Typed

\* A remembered account is an address and a password.
LEMMA StoredIsTyped ==
  ASSUME NEW f \in Accounts, NEW p \in DOMAIN f
  PROVE  f[p].email \in Addresses /\ f[p].pw \in Passwords
BY DEF Accounts, Account1

\* What is remembered of a project replaces what was.
LEMMA RememberedIsTyped ==
  ASSUME NEW f \in Accounts, NEW q \in Projects, NEW a \in Account1
  PROVE  [p \in DOMAIN f \cup {q} |-> IF p = q THEN a ELSE f[p]] \in Accounts
<1>1. PICK P \in SUBSET Projects : f \in [P -> Account1]
  BY DEF Accounts
<1>2. DOMAIN f \cup {q} \in SUBSET Projects
  BY <1>1
<1>3. [p \in DOMAIN f \cup {q} |-> IF p = q THEN a ELSE f[p]]
        \in [DOMAIN f \cup {q} -> Account1]
  BY <1>1
<1> QED BY <1>2, <1>3 DEF Accounts

LEMMA ProjectIsTyped ==
  ASSUME Typed, NEW s \in Scans PROVE Project(s) \in Projects
BY DEF Typed, Projects, Project

\* Only its own step changes what a scan knows and says.
Own(s) == /\ UNCHANGED <<job, policy, kills>>
          /\ \E r \in Local : run' = [run EXCEPT ![s] = r]
          /\ \E R : report' = [report EXCEPT ![s] = R]

LEMMA OwnSays ==
  ASSUME Typed, NEW s \in Scans
  PROVE  /\ UNCHANGED report => \E R : report' = [report EXCEPT ![s] = R]
         /\ \A notes : Say(s, notes) => \E R : report' = [report EXCEPT ![s] = R]
<1>1. report = [report EXCEPT ![s] = report[s]]
  BY DEF Typed
<1> QED BY <1>1 DEF Say

LEMMA OwnGoes ==
  ASSUME Typed, NEW s \in Scans, NEW pc \in PCs
  PROVE  Goto(s, pc) => \E r \in Local : run' = [run EXCEPT ![s] = r]
<1>1. [run[s] EXCEPT !.pc = pc] \in Local
  BY DEF Typed, Local
<1>2. [run EXCEPT ![s].pc = pc] = [run EXCEPT ![s] = [run[s] EXCEPT !.pc = pc]]
  BY DEF Typed
<1> QED BY <1>1, <1>2 DEF Goto

LEMMA AfterStoredIsPC == \A s : AfterStored(s) \in {"open", "recover", "signup"}
BY DEF AfterStored

LEMMA LookupOwn == ASSUME Typed, NEW s \in Scans, Lookup(s) PROVE Own(s)
<1>1. AfterStored(s) \in PCs
  BY AfterStoredIsPC DEF PCs
<1>2. [Fresh EXCEPT !.pc = AfterStored(s)] \in Local
  BY <1>1, FreshIsLocal DEF Local
<1>3. ASSUME Project(s) \in DOMAIN store.accounts
      PROVE  [Fresh EXCEPT !.pc = "stored",
                           !.email = store.accounts[Project(s)].email,
                           !.pw = store.accounts[Project(s)].pw] \in Local
  <2>1. /\ store.accounts[Project(s)].email \in Addresses
        /\ store.accounts[Project(s)].pw \in Passwords
    BY <1>3, StoredIsTyped DEF Typed
  <2> QED BY <2>1, FreshIsLocal DEF Local, PCs
<1> QED BY <1>2, <1>3, OwnSays DEF Lookup, Own, world

\* What a step of a scan may change of what it knows.
LEMMA Moves ==
  ASSUME NEW r \in Local, NEW pc \in PCs
  PROVE  /\ \A token, weak \in BOOLEAN :
              [r EXCEPT !.pc = pc, !.token = token, !.weak = weak] \in Local
         /\ \A created, weak \in BOOLEAN :
              [r EXCEPT !.pc = pc, !.created = created, !.weak = weak] \in Local
         /\ \A token, created, weak \in BOOLEAN :
              [r EXCEPT !.pc = pc, !.token = token, !.created = created,
                        !.weak = weak] \in Local
         /\ \A token, created, weak, ephemeral \in BOOLEAN :
              [r EXCEPT !.created = created, !.token = token, !.weak = weak,
                        !.pc = pc, !.ephemeral = ephemeral] \in Local
         /\ \A email \in Addresses, inbox \in BOOLEAN :
              [r EXCEPT !.pc = pc, !.email = email, !.inbox = inbox] \in Local
         /\ \A pw \in Passwords : [r EXCEPT !.pc = pc, !.pw = pw] \in Local
         /\ \A token \in BOOLEAN, copy \in Accounts :
              [r EXCEPT !.pc = pc, !.token = token, !.copy = copy] \in Local
BY DEF Local

LEMMA Verdicts ==
  ASSUME NEW s
  PROVE  /\ WeakOfStored(s) \in BOOLEAN /\ (run[s].pw = "weak") \in BOOLEAN
         /\ (~Supabase(s) /\ job[s].noResidue) \in BOOLEAN
BY Zenon DEF WeakOfStored

LEMMA SignInStoredOwn ==
  ASSUME Typed, NEW s \in Scans, SignInStored(s) PROVE Own(s)
<1>1. AfterStored(s) \in PCs
  BY AfterStoredIsPC DEF PCs
<1>2. [Fresh EXCEPT !.pc = AfterStored(s)] \in Local
  BY <1>1, FreshIsLocal DEF Local
<1> DEFINE w == WeakOfStored(s)
<1>3. w \in BOOLEAN
  BY Verdicts
<1>4. \/ run' = [run EXCEPT ![s].pc = "session", ![s].token = TRUE, ![s].weak = w]
      \/ run' = [run EXCEPT ![s] = [Fresh EXCEPT !.pc = AfterStored(s)]]
  BY DEF SignInStored
<1> HIDE DEF w
<1>5. run[s] \in Local /\ "session" \in PCs
  BY DEF Typed, PCs
<1>6. [run[s] EXCEPT !.pc = "session", !.token = TRUE, !.weak = w] \in Local
  BY <1>3, <1>5, Moves
<1>7. [run EXCEPT ![s].pc = "session", ![s].token = TRUE, ![s].weak = w]
        = [run EXCEPT ![s] = [run[s] EXCEPT !.pc = "session", !.token = TRUE,
                                            !.weak = w]]
  BY DEF Typed
<1>8. \E r \in Local : run' = [run EXCEPT ![s] = r]
  BY <1>2, <1>4, <1>6, <1>7
<1> QED BY <1>8, OwnSays DEF SignInStored, Own, world

LEMMA OpenInboxOwn == ASSUME Typed, NEW s \in Scans, OpenInbox(s) PROVE Own(s)
<1>1. run[s] \in Local /\ {"signup", "failed"} \subseteq PCs
      /\ "mailbox" \in Addresses
  BY DEF Typed, PCs, Addresses
<1>2. [run[s] EXCEPT !.pc = "signup", !.email = "mailbox", !.inbox = TRUE]
        \in Local
  BY <1>1, Moves
<1>3. [run EXCEPT ![s].pc = "signup", ![s].email = "mailbox", ![s].inbox = TRUE]
        = [run EXCEPT ![s] = [run[s] EXCEPT !.pc = "signup",
                                            !.email = "mailbox",
                                            !.inbox = TRUE]]
  BY DEF Typed
<1> QED BY <1>1, <1>2, <1>3, OwnSays, OwnGoes DEF OpenInbox, Own, world

LEMMA WaitOwn ==
  ASSUME Typed, NEW s \in Scans, Await(s) \/ Follow(s) PROVE Own(s)
<1>1. {"failed", "follow", "confirmed"} \subseteq PCs
  BY DEF PCs
<1> QED BY <1>1, OwnSays, OwnGoes DEF Await, Follow, Own, world

LEMMA SignInConfirmedOwn ==
  ASSUME Typed, NEW s \in Scans, SignInConfirmed(s) PROVE Own(s)
<1>1. run[s] \in Local /\ {"remember", "failed"} \subseteq PCs
  BY DEF Typed, PCs
<1> DEFINE w == run[s].pw = "weak"
<1>2. w \in BOOLEAN
  OBVIOUS
<1>3. \/ run' = [run EXCEPT ![s].pc = "remember", ![s].created = TRUE,
                            ![s].weak = w]
      \/ Goto(s, "failed")
  BY DEF SignInConfirmed
<1> HIDE DEF w
<1>4. [run[s] EXCEPT !.pc = "remember", !.created = TRUE, !.weak = w] \in Local
  BY <1>1, <1>2, Moves
<1>5. [run EXCEPT ![s].pc = "remember", ![s].created = TRUE, ![s].weak = w]
        = [run EXCEPT ![s] = [run[s] EXCEPT !.pc = "remember", !.created = TRUE,
                                            !.weak = w]]
  BY DEF Typed
<1>6. \E r \in Local : run' = [run EXCEPT ![s] = r]
  BY <1>1, <1>3, <1>4, <1>5, OwnGoes
<1> QED BY <1>6, OwnSays DEF SignInConfirmed, Own, world

\* The other password is tried, or the first again.
LEMMA TryOwn ==
  ASSUME Typed, NEW s \in Scans, NEW pc \in PCs, Try(s, pc)
  PROVE  \E r \in Local : run' = [run EXCEPT ![s] = r]
<1> DEFINE w == IF run[s].pw = "weak" THEN "strong" ELSE "weak"
<1>1. run[s] \in Local /\ w \in Passwords
  BY DEF Typed, Passwords
<1>2. run' = [run EXCEPT ![s] = [run[s] EXCEPT !.pc = pc, !.pw = w]]
  BY DEF Try, Typed
<1> HIDE DEF w
<1>3. [run[s] EXCEPT !.pc = pc, !.pw = w] \in Local
  BY <1>1, Moves
<1> QED BY <1>2, <1>3

LEMMA SignUpOwn == ASSUME Typed, NEW s \in Scans, SignUp(s) PROVE Own(s)
<1>0. run[s] \in Local /\ {"await", "failed", "session", "remember", "signup",
                           "anonymous", "recover"} \subseteq PCs
  BY DEF Typed, PCs
<1>1. ASSUME AfterRefusal(s) PROVE \E r \in Local : run' = [run EXCEPT ![s] = r]
  BY <1>0, <1>1, TryOwn DEF AfterRefusal
<1>2. ASSUME AfterSignUp(s) PROVE \E r \in Local : run' = [run EXCEPT ![s] = r]
  <2> DEFINE w  == run[s].pw = "weak"
             e  == ~Supabase(s) /\ job[s].noResidue
             pc == IF e THEN "session" ELSE "remember"
  <2>1. w \in BOOLEAN /\ e \in BOOLEAN /\ pc \in PCs
    BY <1>0, Verdicts
  <2>2. run' = [run EXCEPT ![s].created = TRUE, ![s].token = TRUE,
                           ![s].weak = w, ![s].pc = pc, ![s].ephemeral = e]
    BY <1>2 DEF AfterSignUp
  <2> HIDE DEF w, e, pc
  <2>3. [run[s] EXCEPT !.created = TRUE, !.token = TRUE, !.weak = w,
                       !.pc = pc, !.ephemeral = e] \in Local
    BY <1>0, <2>1, Moves
  <2>4. run' = [run EXCEPT ![s] = [run[s] EXCEPT !.created = TRUE,
                  !.token = TRUE, !.weak = w, !.pc = pc, !.ephemeral = e]]
    BY <2>2 DEF Typed
  <2> QED BY <2>3, <2>4
<1>3. ASSUME Goto(s, IF run[s].inbox THEN "await" ELSE "failed")
      PROVE  \E r \in Local : run' = [run EXCEPT ![s] = r]
  BY <1>0, <1>3, OwnGoes
<1>4. \/ AfterRefusal(s) \/ AfterSignUp(s)
      \/ Goto(s, IF run[s].inbox THEN "await" ELSE "failed")
  <2>1. SignUpReply(s) \in {"refused", "confirm", "session"}
    BY DEF SignUpReply
  <2> QED BY <2>1 DEF SignUp
<1> QED BY <1>1, <1>2, <1>3, <1>4, OwnSays DEF SignUp, Own, world

LEMMA RecoverOwn == ASSUME Typed, NEW s \in Scans, Recover(s) PROVE Own(s)
<1>0. run[s] \in Local /\ {"remember", "recover", "failed", "signup",
                           "anonymous"} \subseteq PCs
  BY DEF Typed, PCs
<1> DEFINE w == run[s].pw = "weak"
<1>1. w \in BOOLEAN
  OBVIOUS
<1>2. \/ run' = [run EXCEPT ![s].pc = "remember", ![s].token = TRUE,
                            ![s].created = FALSE, ![s].weak = w]
      \/ \E pc \in PCs : Try(s, pc)
  BY <1>0 DEF Recover
<1> HIDE DEF w
<1>3. [run[s] EXCEPT !.pc = "remember", !.token = TRUE, !.created = FALSE,
                     !.weak = w] \in Local
  BY <1>0, <1>1, Moves
<1>4. [run EXCEPT ![s].pc = "remember", ![s].token = TRUE,
                  ![s].created = FALSE, ![s].weak = w]
        = [run EXCEPT ![s] = [run[s] EXCEPT !.pc = "remember", !.token = TRUE,
                                            !.created = FALSE, !.weak = w]]
  BY DEF Typed
<1>5. \E r \in Local : run' = [run EXCEPT ![s] = r]
  BY <1>2, <1>3, <1>4, TryOwn
<1> QED BY <1>5, OwnSays DEF Recover, Own, world

LEMMA RememberOwn ==
  ASSUME Typed, NEW s \in Scans, Load(s) \/ Truncate(s) \/ Write(s) PROVE Own(s)
<1>0. run[s] \in Local /\ {"truncate", "write", "session"} \subseteq PCs
      /\ store.accounts \in Accounts
  BY DEF Typed, PCs
<1>1. CASE Load(s)
  <2>1. [run[s] EXCEPT !.pc = "truncate", !.token = TRUE,
                       !.copy = store.accounts] \in Local
    BY <1>0, Moves
  <2>2. run' = [run EXCEPT ![s] = [run[s] EXCEPT !.pc = "truncate",
                                     !.token = TRUE, !.copy = store.accounts]]
    BY <1>1 DEF Load, Typed
  <2> QED BY <1>1, <2>1, <2>2, OwnSays DEF Load, Own, world
<1>2. CASE Truncate(s) \/ Write(s)
  BY <1>0, <1>2, OwnGoes, OwnSays DEF Truncate, Write, Own, world
<1> QED BY <1>1, <1>2

LEMMA CloseInboxOwn ==
  ASSUME Typed, NEW s \in Scans, NEW notes, CloseInbox(s, notes)
  PROVE  \E R : report' = [report EXCEPT ![s] = R]
BY OwnSays DEF CloseInbox

LEMMA ReportOwn ==
  ASSUME Typed, NEW s \in Scans,
         \/ SupabaseSession(s) \/ Failed(s) \/ Compare(s)
         \/ FirebaseSession(s) \/ SignInAnonymously(s) \/ RemoveVisitor(s)
         \/ Finish(s)
  PROVE  Own(s)
<1>0. {"compare", "over", "anonymous", "finish", "visitor"} \subseteq PCs
  BY DEF PCs
<1>1. CASE SupabaseSession(s) \/ Failed(s)
  BY <1>0, <1>1, OwnGoes, CloseInboxOwn
     DEF SupabaseSession, Failed, Own, world
<1>2. CASE Compare(s) \/ FirebaseSession(s) \/ SignInAnonymously(s)
  BY <1>0, <1>2, OwnGoes, OwnSays
     DEF Compare, FirebaseSession, SignInAnonymously, Own, world
<1>3. CASE RemoveVisitor(s) \/ Finish(s)
  BY <1>0, <1>3, OwnGoes, OwnSays DEF RemoveVisitor, Finish, Delete, Own, world
<1> QED BY <1>1, <1>2, <1>3

LEMMA StepIsOwn == ASSUME Typed, NEW s \in Scans, Step(s) PROVE Own(s)
BY LookupOwn, SignInStoredOwn, OpenInboxOwn, WaitOwn, SignInConfirmedOwn,
   SignUpOwn, RecoverOwn, RememberOwn, ReportOwn DEF Step

-----------------------------------------------------------------------------
(***************************************************************************)
(* Types are kept.                                                         *)
(***************************************************************************)
LEMMA ConfirmedIsTyped ==
  ASSUME Typed, NEW s \in Scans PROVE Confirmed(s) \subseteq User
<1> SUFFICES ASSUME NEW u \in users
             PROVE  /\ u \in User
                    /\ [u EXCEPT !.confirmed = TRUE] \in User
  BY DEF Confirmed
<1> QED BY DEF Typed, User

LEMMA RegisterIsTyped ==
  ASSUME Typed, NEW s \in Scans, Register(s) PROVE users' \subseteq User
<1>1. job[s].project \in Projects /\ run[s] \in Local
  BY ProjectIsTyped DEF Project, Typed
<1> DEFINE c == ~policy[Project(s)].confirm
<1>2. c \in BOOLEAN
  BY Zenon
<1>3. \/ users' = users
      \/ users' = users \cup
           {[project |-> Project(s), email |-> Email(s), pw |-> run[s].pw,
             confirmed |-> c, by |-> s]}
  BY DEF Register
<1> HIDE DEF c
<1>4. [project |-> Project(s), email |-> Email(s), pw |-> run[s].pw,
       confirmed |-> c, by |-> s] \in User
  BY <1>1, <1>2 DEF User, Local, Email, Project
<1> QED BY <1>3, <1>4 DEF Typed

LEMMA VisitorIsTyped ==
  ASSUME Typed, NEW s \in Scans PROVE Visitor(s) \in User
BY ProjectIsTyped DEF Visitor, User

\* What becomes of a registration.
LEMMA SignUpCases ==
  ASSUME NEW s, SignUp(s)
  PROVE  /\ run[s].pc = "signup" /\ UNCHANGED <<job, policy, kills, store, inboxes, report>>
         /\ \/ SignUpReply(s) = "refused" /\ Replied /\ NoEffect /\ AfterRefusal(s)
            \/ SignUpReply(s) = "session" /\ Replied /\ Register(s) /\ AfterSignUp(s)
            \/ /\ SignUpReply(s) = "confirm" /\ Replied /\ Register(s)
               /\ Goto(s, IF run[s].inbox THEN "await" ELSE "failed")
            \/ /\ SignUpReply(s) # "refused" /\ Silence
               /\ NoEffect \/ Register(s)
               /\ AfterRefusal(s)
<1>1. SignUpReply(s) \in {"refused", "confirm", "session"}
  BY DEF SignUpReply
<1> QED BY <1>1 DEF SignUp, world

LEMMA UsersTyped ==
  ASSUME Typed, NEW s \in Scans, Step(s) PROVE users' \subseteq User
<1>0. users \subseteq User
  BY DEF Typed
<1>1. CASE SignUp(s)
  <2>1. Register(s) \/ NoEffect
    BY <1>1, SignUpCases
  <2> QED BY <1>0, <2>1, RegisterIsTyped DEF NoEffect
<1>2. CASE Follow(s)
  BY <1>0, <1>2, ConfirmedIsTyped DEF Follow
<1>3. CASE SignInAnonymously(s)
  BY <1>0, <1>3, VisitorIsTyped DEF SignInAnonymously
<1>4. CASE RemoveVisitor(s) \/ Finish(s)
  BY <1>0, <1>4 DEF RemoveVisitor, Finish, Delete
<1>5. CASE UNCHANGED users
  BY <1>0, <1>5
<1> QED BY <1>1, <1>2, <1>3, <1>4, <1>5
        DEF Step, Lookup, SignInStored, OpenInbox, Await, SignInConfirmed,
            Recover, Load, Truncate, Write, SupabaseSession, Failed, Compare,
            FirebaseSession

LEMMA StoreTyped ==
  ASSUME Typed, NEW s \in Scans, Step(s)
  PROVE  store' \in [intact : BOOLEAN, accounts : Accounts]
<1>1. CASE Truncate(s)
  BY <1>1, EmptyStore DEF Truncate
<1>2. CASE Write(s)
  <2>1. run[s] \in Local
    BY DEF Typed
  <2> DEFINE a == [email |-> Email(s), pw |-> run[s].pw]
             f == run[s].copy
  <2>2. a \in Account1 /\ f \in Accounts
    BY <2>1 DEF Local, Account1, Email
  <2>3. store' = [intact |-> TRUE,
                  accounts |-> [p \in DOMAIN f \cup {Project(s)} |->
                                  IF p = Project(s) THEN a ELSE f[p]]]
    BY <1>2 DEF Write
  <2> HIDE DEF a, f
  <2>4. [p \in DOMAIN f \cup {Project(s)} |-> IF p = Project(s) THEN a ELSE f[p]]
          \in Accounts
    BY <2>2, RememberedIsTyped, ProjectIsTyped
  <2> QED BY <2>3, <2>4
<1>3. CASE UNCHANGED store
  BY <1>3 DEF Typed
<1> QED BY <1>1, <1>2, <1>3
        DEF Step, Lookup, SignInStored, OpenInbox, Await, Follow,
            SignInConfirmed, SignUp, Recover, Load, SupabaseSession, Failed,
            Compare, FirebaseSession, SignInAnonymously, RemoveVisitor, Finish

\* Replies only go missing, and no more of them than the bound allows.
LEMMA LostTyped ==
  ASSUME Typed, NEW s \in Scans, Step(s)
  PROVE  lost' \in 0..MaxLost /\ lost <= lost'
<1>0. lost \in 0..MaxLost /\ MaxLost \in Nat
  BY AccountAssumption DEF Typed
<1>1. ASSUME Replied \/ Silence PROVE lost' \in 0..MaxLost /\ lost <= lost'
  BY <1>0, <1>1 DEF Replied, Silence
<1>2. CASE Compare(s)
  <2>1. PICK silent \in SUBSET policy[Project(s)].public :
          /\ lost + Cardinality(silent) <= MaxLost
          /\ lost' = lost + Cardinality(silent)
    BY <1>2 DEF Compare
  <2>2. IsFiniteSet(policy[Project(s)].public)
    BY PlansAssumption DEF Typed, Project
  <2>3. Cardinality(silent) \in Nat
    BY <2>2, FS_Subset, FS_CardinalityType
  <2> QED BY <1>0, <2>1, <2>3
<1>3. CASE Replied \/ Silence
  BY <1>1, <1>3
<1>4. CASE UNCHANGED lost
  BY <1>0, <1>4
<1>5. CASE SupabaseSession(s) \/ Failed(s)
  BY <1>1, <1>5 DEF SupabaseSession, Failed, CloseInbox
<1>6. CASE \/ RemoveVisitor(s) \/ Finish(s) \/ SignUp(s)
  BY <1>1, <1>6 DEF RemoveVisitor, Finish, Delete, SignUp
<1> QED BY <1>2, <1>3, <1>4, <1>5, <1>6
        DEF Step, Lookup, SignInStored, OpenInbox, Await, Follow,
            SignInConfirmed, Recover, Load, Truncate, Write,
            FirebaseSession, SignInAnonymously

LEMMA KillOwn ==
  ASSUME Typed, NEW process, Kill(process)
  PROVE  /\ run' \in [Scans -> Local] /\ report' = [s \in Scans |-> report'[s]]
         /\ kills' \in 0..MaxKills /\ kills' > 0
         /\ UNCHANGED <<job, policy, users, store, inboxes, mails, made, lost>>
         /\ \A s \in Scans : \/ run'[s] = Fresh /\ report'[s] = {}
                             \/ run'[s] = run[s] /\ report'[s] = report[s]
         /\ \A s \in Scans : job[s].process = process => run'[s] = Fresh
<1>1. kills \in 0..MaxKills /\ MaxKills \in Nat
  BY AccountAssumption DEF Typed
<1> QED BY <1>1, FreshIsLocal DEF Kill, Typed

LEMMA TypedStep == Typed /\ [Next]_vars => Typed'
<1> SUFFICES ASSUME Typed, [Next]_vars PROVE Typed'
  OBVIOUS
<1>1. ASSUME NEW s \in Scans, Step(s) PROVE Typed'
  <2>1. /\ job' = job /\ policy' = policy /\ kills' = kills
        /\ run' \in [Scans -> Local]
        /\ report' = [t \in Scans |-> report'[t]]
    BY <1>1, StepIsOwn DEF Own, Typed
  <2> QED BY <1>1, <2>1, UsersTyped, StoreTyped, LostTyped DEF Typed
<1>2. ASSUME NEW process, Kill(process) PROVE Typed'
  BY <1>2, KillOwn DEF Typed
<1>3. CASE UNCHANGED vars
  BY <1>3 DEF Typed, vars
<1> QED BY <1>1, <1>2, <1>3 DEF Next

-----------------------------------------------------------------------------
(***************************************************************************)
(* What a scan knows of itself is kept by its own steps, and by everybody  *)
(* else's.                                                                 *)
(***************************************************************************)
\* Who registers is on record, and only a scan with a mailbox opens an inbox.
LEMMA WorldStep ==
  ASSUME Typed, NEW s \in Scans, Sane(s), Step(s)
  PROVE  /\ made \subseteq made' /\ made' \subseteq made \cup {s}
         /\ inboxes' \subseteq inboxes \cup {Project(s)}
         /\ inboxes' \subseteq inboxes \/ job[s].mailbox
<1>1. CASE SignUp(s)
  <2>1. Register(s) \/ NoEffect
    BY <1>1, SignUpCases
  <2>2. UNCHANGED inboxes
    BY <1>1, SignUpCases
  <2> QED BY <2>1, <2>2 DEF Register, NoEffect
<1>2. CASE OpenInbox(s)
  BY <1>2 DEF OpenInbox, Sane, WayIsItsOwn
<1>3. CASE SignInAnonymously(s)
  BY <1>3 DEF SignInAnonymously
<1>4. CASE SupabaseSession(s) \/ Failed(s)
  BY <1>4 DEF SupabaseSession, Failed, CloseInbox, Close
<1>5. CASE UNCHANGED <<made, inboxes>>
  BY <1>5
<1> QED BY <1>1, <1>2, <1>3, <1>4, <1>5
        DEF Step, Lookup, SignInStored, Await, Follow, SignInConfirmed,
            Recover, Load, Truncate, Write, Compare, FirebaseSession,
            RemoveVisitor, Finish

LEMMA SaneOfOthers ==
  ASSUME Typed, NEW s \in Scans, Sane(s), Step(s),
         NEW t \in Scans, t # s, Sane(t)
  PROVE  Sane(t)'
<1>1. /\ job' = job /\ policy' = policy
      /\ run'[t] = run[t] /\ report'[t] = report[t]
  BY StepIsOwn DEF Own, Typed
<1>2. /\ made \subseteq made' /\ made' \subseteq made \cup {s}
      /\ inboxes' \subseteq inboxes \cup {Project(s)}
      /\ inboxes' \subseteq inboxes \/ job[s].mailbox
  BY WorldStep
<1>3. lost' = 0 => lost = 0
  BY LostTyped, AccountAssumption DEF Typed
<1>4. WayIsItsOwn(t)'
  BY <1>1, <1>2 DEF Sane, WayIsItsOwn, Supabase
<1>5. VerdictHolds(t)'
  BY <1>1 DEF Sane, VerdictHolds, Supabase
<1>6. DoneByItself(t)'
  BY <1>1, <1>2 DEF Sane, DoneByItself, Supabase
<1>7. InboxIsClosed(t)'
  BY <1>1, <1>2 DEF Sane, InboxIsClosed, OthersInbox, Project
<1>8. NoFalseGain(t)'
  BY <1>1, <1>3 DEF Sane, NoFalseGain, Project
<1> QED BY <1>4, <1>5, <1>6, <1>7, <1>8 DEF Sane

\* A step of a scan to another point, that changes nothing else it knows.
LEMMA Gone ==
  ASSUME Typed, NEW s \in Scans, NEW pc, Goto(s, pc)
  PROVE  /\ run'[s] = [run[s] EXCEPT !.pc = pc]
         /\ run'[s].pc = pc /\ run'[s].email = run[s].email
         /\ run'[s].pw = run[s].pw /\ run'[s].token = run[s].token
         /\ run'[s].created = run[s].created /\ run'[s].weak = run[s].weak
         /\ run'[s].ephemeral = run[s].ephemeral
         /\ run'[s].inbox = run[s].inbox /\ run'[s].copy = run[s].copy
BY DEF Goto, Typed, Local

LEMMA Said ==
  ASSUME Typed, NEW s \in Scans, NEW notes, Say(s, notes)
  PROVE  report'[s] = report[s] \cup notes
BY DEF Say, Typed

LEMMA FreshIsSane ==
  ASSUME Typed, NEW s \in Scans, Sane(s),
         UNCHANGED <<job, policy, made, inboxes>>, lost' = 0 => lost = 0,
         run'[s] = Fresh, report'[s] = {}
  PROVE  Sane(s)'
<1> QED BY DEF Sane, WayIsItsOwn, VerdictHolds, DoneByItself, InboxIsClosed,
               NoFalseGain, Fresh, Supabase, Project

\* Back where it looked for an account of its own.
LEMMA SaneBack ==
  ASSUME Typed, NEW s \in Scans, Sane(s), NEW pc \in {"stored", AfterStored(s)},
         UNCHANGED <<job, policy, made, inboxes, report>>, lost' = 0 => lost = 0,
         run[s].pc \in {"lookup", "stored"},
         run'[s].pc = pc, ~run'[s].token, ~run'[s].created,
         ~run'[s].ephemeral, ~run'[s].inbox
  PROVE  Sane(s)'
<1>2. pc = "open" => Supabase(s) /\ job[s].mailbox /\ ~job[s].noResidue
  BY DEF AfterStored
<1>3. pc = "signup" => ~job[s].noResidue
  BY DEF AfterStored
<1>4. pc \in {"stored", "open", "signup", "recover"}
  BY AfterStoredIsPC
<1>5. WayIsItsOwn(s)'
  BY <1>2, <1>3, <1>4 DEF Sane, WayIsItsOwn, Supabase
<1>6. VerdictHolds(s)' /\ DoneByItself(s)' /\ InboxIsClosed(s)' /\ NoFalseGain(s)'
  BY <1>4 DEF Sane, VerdictHolds, DoneByItself, InboxIsClosed, NoFalseGain,
                    Supabase, Project
<1> QED BY <1>5, <1>6 DEF Sane

\* It starts from nothing but the point it is at.
LEMMA Backs ==
  ASSUME Typed, NEW s \in Scans, NEW pc,
         run' = [run EXCEPT ![s] = [Fresh EXCEPT !.pc = pc]]
  PROVE  /\ run'[s].pc = pc /\ ~run'[s].token /\ ~run'[s].created
         /\ ~run'[s].ephemeral /\ ~run'[s].inbox /\ run'[s].email = "derived"
         /\ run'[s].copy = <<>>
BY DEF Fresh, Typed

LEMMA LookedUp ==
  ASSUME Typed, NEW s \in Scans, Lookup(s)
  PROVE  /\ run'[s].pc \in {"stored", AfterStored(s)}
         /\ ~run'[s].token /\ ~run'[s].created
         /\ ~run'[s].ephemeral /\ ~run'[s].inbox /\ run'[s].copy = <<>>
         /\ run'[s].pc = "stored" <=> Project(s) \in DOMAIN store.accounts
         /\ run'[s].email = IF Project(s) \in DOMAIN store.accounts
                            THEN store.accounts[Project(s)].email ELSE "derived"
<1>1. CASE Project(s) \in DOMAIN store.accounts
  <2>1. run'[s] = [Fresh EXCEPT !.pc = "stored",
                                !.email = store.accounts[Project(s)].email,
                                !.pw = store.accounts[Project(s)].pw]
    BY <1>1 DEF Lookup, Typed
  <2> QED BY <1>1, <2>1 DEF Fresh
<1>2. CASE Project(s) \notin DOMAIN store.accounts
  <2>1. run' = [run EXCEPT ![s] = [Fresh EXCEPT !.pc = AfterStored(s)]]
    BY <1>2 DEF Lookup
  <2>2. AfterStored(s) # "stored"
    BY AfterStoredIsPC
  <2> DEFINE pc == AfterStored(s)
  <2>3. pc # "stored" /\ pc \in {"stored", AfterStored(s)}
    BY <2>2
  <2> HIDE DEF pc
  <2>4. run' = [run EXCEPT ![s] = [Fresh EXCEPT !.pc = pc]]
    BY <2>1 DEF pc
  <2> QED BY <1>2, <2>3, <2>4, Backs
<1> QED BY <1>1, <1>2

LEMMA SaneLookup ==
  ASSUME Typed, NEW s \in Scans, Sane(s), Lookup(s) PROVE Sane(s)'
<1>1. /\ UNCHANGED <<job, policy, made, inboxes, report>>
      /\ lost' = 0 => lost = 0
      /\ run[s].pc = "lookup"
  BY DEF Lookup, world
<1> QED BY <1>1, LookedUp, SaneBack

LEMMA SaneSignInStored ==
  ASSUME Typed, NEW s \in Scans, Sane(s), SignInStored(s) PROVE Sane(s)'
<1>1. /\ UNCHANGED <<job, policy, made, inboxes, report>>
      /\ lost' = 0 => lost = 0
      /\ run[s].pc = "stored"
  <2>1. lost \in Nat
    BY DEF Typed
  <2> QED BY <2>1 DEF SignInStored, world, Replied, Silence
<1>2. ASSUME run' = [run EXCEPT ![s] = [Fresh EXCEPT !.pc = AfterStored(s)]]
      PROVE  Sane(s)'
  BY <1>1, <1>2, Backs, SaneBack
<1>3. ASSUME run' = [run EXCEPT ![s].pc = "session", ![s].token = TRUE,
                                ![s].weak = WeakOfStored(s)]
      PROVE  Sane(s)'
  <2> DEFINE w == WeakOfStored(s)
  <2>1. Supabase(s) => (w <=> run[s].pw = "weak")
    BY DEF WeakOfStored
  <2>2. run' = [run EXCEPT ![s].pc = "session", ![s].token = TRUE, ![s].weak = w]
    BY <1>3
  <2> HIDE DEF w
  <2>3. /\ run'[s].pc = "session" /\ run'[s].token = TRUE /\ run'[s].weak = w
        /\ run'[s].inbox = run[s].inbox /\ run'[s].pw = run[s].pw
        /\ run'[s].created = run[s].created /\ run'[s].ephemeral = run[s].ephemeral
    BY <2>2 DEF Typed, Local
  <2>4. WayIsItsOwn(s)'
    BY <1>1, <2>3 DEF Sane, WayIsItsOwn, Supabase, Late
  <2>5. VerdictHolds(s)'
    BY <1>1, <2>1, <2>3 DEF Sane, VerdictHolds, Supabase
  <2>6. DoneByItself(s)' /\ InboxIsClosed(s)' /\ NoFalseGain(s)'
    BY <1>1, <2>3 DEF Sane, DoneByItself, InboxIsClosed, NoFalseGain, Supabase, Project
  <2> QED BY <2>4, <2>5, <2>6 DEF Sane
<1> QED BY <1>2, <1>3 DEF SignInStored

\* A scan that waits for its confirmation, or gives up.
LEMMA SaneWait ==
  ASSUME Typed, NEW s \in Scans, Sane(s), OpenInbox(s) \/ Await(s) \/ Follow(s)
  PROVE  Sane(s)'
<1>1. /\ UNCHANGED <<job, policy, made, report>>
      /\ lost' = 0 => lost = 0
      /\ run[s].pc \in {"open", "await", "follow"}
  <2>1. lost \in Nat
    BY DEF Typed
  <2> QED BY <2>1 DEF OpenInbox, Await, Follow, world, Replied, Silence
<1>2. /\ run'[s].pc \in {"signup", "failed", "follow", "confirmed"}
      /\ run'[s].token = run[s].token /\ run'[s].created = run[s].created
      /\ run'[s].ephemeral = run[s].ephemeral
  <2>1. CASE run' = [run EXCEPT ![s].pc = "signup", ![s].email = "mailbox",
                                ![s].inbox = TRUE]
    BY <2>1 DEF Typed, Local
  <2>2. CASE \E pc \in {"failed", "follow", "confirmed"} : Goto(s, pc)
    BY <2>2, Gone
  <2> QED BY <2>1, <2>2 DEF OpenInbox, Await, Follow
<1>3. Supabase(s) /\ job[s].mailbox /\ ~job[s].noResidue
  BY <1>1 DEF Sane, WayIsItsOwn
<1>4. WayIsItsOwn(s)'
  BY <1>1, <1>2, <1>3 DEF Sane, WayIsItsOwn, Supabase, Late
<1>5. VerdictHolds(s)' /\ DoneByItself(s)'
  BY <1>1, <1>2, <1>3 DEF Sane, VerdictHolds, DoneByItself, Supabase
<1>6. InboxIsClosed(s)' /\ NoFalseGain(s)'
  BY <1>1, <1>2 DEF Sane, InboxIsClosed, NoFalseGain, Project
<1> QED BY <1>4, <1>5, <1>6 DEF Sane

LEMMA SaneSignInConfirmed ==
  ASSUME Typed, NEW s \in Scans, Sane(s), SignInConfirmed(s) PROVE Sane(s)'
<1>1. /\ UNCHANGED <<job, policy, made, inboxes, report>>
      /\ lost' = 0 => lost = 0
      /\ run[s].pc = "confirmed"
  <2>1. lost \in Nat
    BY DEF Typed
  <2> QED BY <2>1 DEF SignInConfirmed, world, Replied, Silence
<1> DEFINE w == run[s].pw = "weak"
<1>2. \/ run' = [run EXCEPT ![s].pc = "remember", ![s].created = TRUE, ![s].weak = w]
      \/ Goto(s, "failed")
  BY DEF SignInConfirmed
<1>3. w <=> run[s].pw = "weak"
  OBVIOUS
<1> HIDE DEF w
<1>4. /\ run'[s].token = run[s].token /\ run'[s].inbox = run[s].inbox
      /\ run'[s].pw = run[s].pw /\ run'[s].ephemeral = run[s].ephemeral
      /\ \/ run'[s].pc = "remember" /\ run'[s].weak = w
         \/ run'[s].pc = "failed"
  <2>1. CASE Goto(s, "failed")
    BY <2>1, Gone
  <2>2. CASE run' = [run EXCEPT ![s].pc = "remember", ![s].created = TRUE,
                                ![s].weak = w]
    BY <2>2 DEF Typed, Local
  <2> QED BY <1>2, <2>1, <2>2
<1>5. Supabase(s) /\ job[s].mailbox /\ ~job[s].noResidue
  BY <1>1 DEF Sane, WayIsItsOwn
<1>6. WayIsItsOwn(s)'
  BY <1>1, <1>4, <1>5 DEF Sane, WayIsItsOwn, Supabase, Late
<1>7. VerdictHolds(s)' /\ DoneByItself(s)'
  BY <1>1, <1>3, <1>4, <1>5 DEF Sane, VerdictHolds, DoneByItself, Supabase
<1>8. InboxIsClosed(s)' /\ NoFalseGain(s)'
  BY <1>1, <1>4 DEF Sane, InboxIsClosed, NoFalseGain, Project
<1> QED BY <1>6, <1>7, <1>8 DEF Sane

\* A password that was refused.
LEMMA Tried ==
  ASSUME Typed, NEW s \in Scans, NEW pc, Try(s, pc)
  PROVE  /\ run'[s].pc = pc /\ run'[s].token = run[s].token
         /\ run'[s].created = run[s].created /\ run'[s].inbox = run[s].inbox
         /\ run'[s].ephemeral = run[s].ephemeral /\ run'[s].weak = run[s].weak
         /\ run'[s].email = run[s].email /\ run'[s].copy = run[s].copy
BY DEF Try, Typed, Local

\* A session that its own registration, or its own password, opened.
LEMMA Signed ==
  ASSUME Typed, NEW s \in Scans, AfterSignUp(s)
  PROVE  /\ run'[s].token /\ run'[s].created
         /\ run'[s].weak <=> run[s].pw = "weak"
         /\ run'[s].pw = run[s].pw /\ run'[s].inbox = run[s].inbox
         /\ run'[s].email = run[s].email /\ run'[s].copy = run[s].copy
         /\ run'[s].ephemeral <=> ~Supabase(s) /\ job[s].noResidue
         /\ run'[s].pc = IF ~Supabase(s) /\ job[s].noResidue
                         THEN "session" ELSE "remember"
<1> DEFINE w  == run[s].pw = "weak"
           e  == ~Supabase(s) /\ job[s].noResidue
           pc == IF e THEN "session" ELSE "remember"
<1>1. run' = [run EXCEPT ![s].created = TRUE, ![s].token = TRUE,
                         ![s].weak = w, ![s].pc = pc, ![s].ephemeral = e]
  BY DEF AfterSignUp
<1> HIDE DEF w, e, pc
<1>2. /\ run'[s].token /\ run'[s].created /\ run'[s].weak = w
      /\ run'[s].pw = run[s].pw /\ run'[s].inbox = run[s].inbox
      /\ run'[s].email = run[s].email /\ run'[s].copy = run[s].copy
      /\ run'[s].ephemeral = e /\ run'[s].pc = pc
  BY <1>1 DEF Typed, Local
<1> QED BY <1>2 DEF w, e, pc

\* No reply goes back to being there.
LEMMA RepliesStayLost ==
  ASSUME Typed, Replied \/ Silence PROVE lost' = 0 => lost = 0
<1>1. lost \in Nat
  BY DEF Typed
<1> QED BY <1>1 DEF Replied, Silence

\* Firebase asks nobody for a confirmation.
LEMMA OnlySupabaseConfirms ==
  ASSUME Typed, NEW s \in Scans
  PROVE  /\ SignUpReply(s) = "confirm" => Supabase(s)
         /\ SignUpReply(s) = "session" =>
              /\ ~policy[Project(s)].confirm
              /\ ~\E u \in users : u.project = Project(s) /\ u.email = Email(s)
         /\ ~Supabase(s) => ~policy[Project(s)].confirm
<1>1. ~Supabase(s) => ~policy[Project(s)].confirm
  BY PlansAssumption DEF Typed, Supabase, Project
<1>2. SignUpReply(s) = "confirm" => policy[Project(s)].confirm
  BY DEF SignUpReply
<1>3. SignUpReply(s) = "session" =>
        /\ ~policy[Project(s)].confirm
        /\ ~\E u \in users : u.project = Project(s) /\ u.email = Email(s)
  BY DEF SignUpReply
<1> QED BY <1>1, <1>2, <1>3

LEMMA SaneSignUp ==
  ASSUME Typed, NEW s \in Scans, Sane(s), SignUp(s) PROVE Sane(s)'
<1>1. /\ run[s].pc = "signup"
      /\ UNCHANGED <<job, policy, inboxes, report>>
      /\ lost' = 0 => lost = 0
      /\ made \subseteq made'
  BY SignUpCases, RepliesStayLost DEF Register, NoEffect
<1>2. /\ Supabase(s) => ~job[s].noResidue
      /\ ~run[s].token
  BY <1>1 DEF Sane, WayIsItsOwn, Late
<1>3. ASSUME AfterRefusal(s) PROVE Sane(s)'
  <2>1. PICK pc \in {"signup", "anonymous", "recover"} :
          Try(s, pc) /\ (pc = "anonymous" => ~Supabase(s))
    BY <1>3 DEF AfterRefusal
  <2>2. /\ run'[s].pc = pc /\ ~run'[s].token
        /\ run'[s].created = run[s].created /\ run'[s].inbox = run[s].inbox
        /\ run'[s].ephemeral = run[s].ephemeral
    BY <1>2, <2>1, Tried
  <2>3. WayIsItsOwn(s)'
    BY <1>1, <1>2, <2>1, <2>2 DEF Sane, WayIsItsOwn, Supabase, Late
  <2>4. VerdictHolds(s)' /\ DoneByItself(s)'
    BY <1>1, <1>2, <2>1, <2>2 DEF Sane, VerdictHolds, DoneByItself, Supabase
  <2>5. InboxIsClosed(s)' /\ NoFalseGain(s)'
    BY <1>1, <2>1, <2>2 DEF Sane, InboxIsClosed, NoFalseGain, Project
  <2> QED BY <2>3, <2>4, <2>5 DEF Sane
<1>4. ASSUME SignUpReply(s) = "session", Register(s), AfterSignUp(s)
      PROVE  Sane(s)'
  <2>1. s \in made'
    BY <1>4, OnlySupabaseConfirms DEF Register
  <2>2. /\ run'[s].weak <=> run[s].pw = "weak"
        /\ run'[s].pw = run[s].pw /\ run'[s].inbox = run[s].inbox
        /\ run'[s].ephemeral <=> ~Supabase(s) /\ job[s].noResidue
        /\ run'[s].pc \in {"session", "remember"}
    BY <1>4, Signed
  <2>3. WayIsItsOwn(s)'
    BY <1>1, <1>2, <2>2 DEF Sane, WayIsItsOwn, Supabase, Late
  <2>4. VerdictHolds(s)'
    BY <1>1, <1>2, <2>2 DEF Sane, VerdictHolds, Supabase
  <2>5. DoneByItself(s)'
    BY <1>1, <2>1, <2>2 DEF DoneByItself, Supabase
  <2>6. InboxIsClosed(s)' /\ NoFalseGain(s)'
    BY <1>1, <2>2 DEF Sane, InboxIsClosed, NoFalseGain, Project
  <2> QED BY <2>3, <2>4, <2>5, <2>6 DEF Sane
<1>5. ASSUME SignUpReply(s) = "confirm",
             Goto(s, IF run[s].inbox THEN "await" ELSE "failed")
      PROVE  Sane(s)'
  <2>1. Supabase(s)
    BY <1>5, OnlySupabaseConfirms
  <2>2. /\ run'[s].pc = IF run[s].inbox THEN "await" ELSE "failed"
        /\ run'[s].token = run[s].token /\ run'[s].created = run[s].created
        /\ run'[s].inbox = run[s].inbox /\ run'[s].ephemeral = run[s].ephemeral
    BY <1>5, Gone
  <2>3. WayIsItsOwn(s)'
    BY <1>1, <1>2, <2>1, <2>2 DEF Sane, WayIsItsOwn, Supabase, Late
  <2>4. VerdictHolds(s)' /\ DoneByItself(s)'
    BY <1>1, <1>2, <2>1, <2>2 DEF Sane, VerdictHolds, DoneByItself, Supabase
  <2>5. InboxIsClosed(s)' /\ NoFalseGain(s)'
    BY <1>1, <2>2 DEF Sane, InboxIsClosed, NoFalseGain, Project
  <2> QED BY <2>3, <2>4, <2>5 DEF Sane
<1> QED BY <1>3, <1>4, <1>5, SignUpCases

LEMMA SaneRecover ==
  ASSUME Typed, NEW s \in Scans, Sane(s), Recover(s) PROVE Sane(s)'
<1>1. /\ run[s].pc = "recover"
      /\ UNCHANGED <<job, policy, made, inboxes, report>>
      /\ lost' = 0 => lost = 0
  BY RepliesStayLost DEF Recover, world
<1>2. ~run[s].token
  BY <1>1 DEF Sane, WayIsItsOwn, Late
<1> DEFINE w == run[s].pw = "weak"
<1>3. w <=> run[s].pw = "weak"
  OBVIOUS
<1>4. \/ run' = [run EXCEPT ![s].pc = "remember", ![s].token = TRUE,
                            ![s].created = FALSE, ![s].weak = w]
      \/ \E pc \in {"recover", "failed", "signup", "anonymous"} :
           /\ Try(s, pc)
           /\ pc = "failed" => Supabase(s)
           /\ pc \in {"signup", "anonymous"} => ~Supabase(s)
  <2> DEFINE pc == IF run[s].pw = "weak" THEN "recover"
                   ELSE IF Supabase(s) THEN "failed"
                   ELSE IF job[s].noResidue THEN "signup" ELSE "anonymous"
  <2>1. \/ run' = [run EXCEPT ![s].pc = "remember", ![s].token = TRUE,
                              ![s].created = FALSE, ![s].weak = w]
        \/ Try(s, pc)
    BY DEF Recover
  <2>2. /\ pc \in {"recover", "failed", "signup", "anonymous"}
        /\ pc = "failed" => Supabase(s)
        /\ pc \in {"signup", "anonymous"} => ~Supabase(s)
    OBVIOUS
  <2> HIDE DEF pc
  <2> QED BY <2>1, <2>2
<1> HIDE DEF w
<1>5. ASSUME run' = [run EXCEPT ![s].pc = "remember", ![s].token = TRUE,
                                ![s].created = FALSE, ![s].weak = w]
      PROVE  Sane(s)'
  <2>1. /\ run'[s].pc = "remember" /\ run'[s].created = FALSE
        /\ run'[s].weak = w /\ run'[s].pw = run[s].pw
        /\ run'[s].inbox = run[s].inbox /\ run'[s].ephemeral = run[s].ephemeral
    BY <1>5 DEF Typed, Local
  <2>2. WayIsItsOwn(s)'
    BY <1>1, <2>1 DEF Sane, WayIsItsOwn, Supabase, Late
  <2>3. VerdictHolds(s)' /\ DoneByItself(s)'
    BY <1>1, <1>3, <2>1 DEF Sane, VerdictHolds, DoneByItself, Supabase
  <2>4. InboxIsClosed(s)' /\ NoFalseGain(s)'
    BY <1>1, <2>1 DEF Sane, InboxIsClosed, NoFalseGain, Project
  <2> QED BY <2>2, <2>3, <2>4 DEF Sane
<1>6. ASSUME NEW pc \in {"recover", "failed", "signup", "anonymous"}, Try(s, pc),
             pc = "failed" => Supabase(s),
             pc \in {"signup", "anonymous"} => ~Supabase(s)
      PROVE  Sane(s)'
  <2>1. /\ run'[s].pc = pc /\ ~run'[s].token
        /\ run'[s].created = run[s].created /\ run'[s].inbox = run[s].inbox
        /\ run'[s].ephemeral = run[s].ephemeral
    BY <1>2, <1>6, Tried
  <2>2. WayIsItsOwn(s)'
    BY <1>1, <1>6, <2>1 DEF Sane, WayIsItsOwn, Supabase, Late
  <2>3. VerdictHolds(s)' /\ DoneByItself(s)'
    BY <1>1, <2>1 DEF Sane, VerdictHolds, DoneByItself, Supabase
  <2>4. InboxIsClosed(s)' /\ NoFalseGain(s)'
    BY <1>1, <2>1 DEF Sane, InboxIsClosed, NoFalseGain, Project
  <2> QED BY <2>2, <2>3, <2>4 DEF Sane
<1> QED BY <1>4, <1>5, <1>6

LEMMA SaneRemember ==
  ASSUME Typed, NEW s \in Scans, Sane(s), Load(s) \/ Truncate(s) \/ Write(s)
  PROVE  Sane(s)'
<1>1. /\ run[s].pc \in {"remember", "truncate", "write"}
      /\ UNCHANGED <<job, policy, made, inboxes, report, lost>>
  BY DEF Load, Truncate, Write, world
<1>2. /\ run'[s].pc \in {"truncate", "write", "session"}
      /\ run'[s].created = run[s].created /\ run'[s].weak = run[s].weak
      /\ run'[s].pw = run[s].pw /\ run'[s].inbox = run[s].inbox
      /\ run'[s].ephemeral = run[s].ephemeral
  <2>1. CASE Load(s)
    BY <2>1 DEF Load, Typed, Local
  <2>2. CASE \E pc \in {"write", "session"} : Goto(s, pc)
    BY <2>2, Gone
  <2> QED BY <2>1, <2>2 DEF Truncate, Write
<1>3. WayIsItsOwn(s)'
  BY <1>1, <1>2 DEF Sane, WayIsItsOwn, Supabase, Late
<1>4. VerdictHolds(s)' /\ DoneByItself(s)'
  BY <1>1, <1>2 DEF Sane, VerdictHolds, DoneByItself, Supabase
<1>5. InboxIsClosed(s)' /\ NoFalseGain(s)'
  BY <1>1, <1>2 DEF Sane, InboxIsClosed, NoFalseGain, Project
<1> QED BY <1>3, <1>4, <1>5 DEF Sane

\* What is said of an account is not the name of a relation.
LEMMA NotesAreNoRelations ==
  ASSUME Typed, NEW s \in Scans
  PROVE  /\ Notes \cap policy[Project(s)].public = {}
         /\ Notes \cap policy[Project(s)].members = {}
         /\ IsFiniteSet(policy[Project(s)].public)
BY PlansAssumption DEF Typed, Project

LEMMA Closed ==
  ASSUME Typed, NEW s \in Scans, NEW notes \in SUBSET Notes, CloseInbox(s, notes)
  PROVE  /\ lost' = 0 => lost = 0
         /\ inboxes' \subseteq inboxes
         /\ \E more \in SUBSET {"inbox-left"} : report'[s] = report[s] \cup notes \cup more
         /\ run[s].inbox /\ Project(s) \in inboxes' => "inbox-left" \in report'[s]
<1>1. CASE ~run[s].inbox
  <2>1. Replied /\ UNCHANGED inboxes /\ Say(s, notes)
    BY <1>1 DEF CloseInbox, InboxToClose
  <2>2. report'[s] = report[s] \cup notes \cup {}
    BY <2>1, Said
  <2> QED BY <1>1, <2>1, <2>2, RepliesStayLost
<1>2. CASE run[s].inbox
  <2>1. CASE Replied /\ Close(s) /\ Say(s, notes)
    <3>1. report'[s] = report[s] \cup notes \cup {}
      BY <2>1, Said
    <3> QED BY <2>1, <3>1, RepliesStayLost DEF Close
  <2>2. CASE /\ Silence /\ (UNCHANGED <<inboxes, mails>> \/ Close(s))
             /\ Say(s, notes \cup {"inbox-left"})
    <3>1. report'[s] = report[s] \cup notes \cup {"inbox-left"}
      BY <2>2, Said
    <3> QED BY <2>2, <3>1, RepliesStayLost DEF Close
  <2> QED BY <1>2, <2>1, <2>2 DEF CloseInbox, InboxToClose
<1> QED BY <1>1, <1>2

LEMMA SaneSupabaseSession ==
  ASSUME Typed, NEW s \in Scans, Sane(s), SupabaseSession(s) PROVE Sane(s)'
<1>1. /\ run[s].pc = "session" /\ Supabase(s)
      /\ UNCHANGED <<job, policy, made>>
      /\ CloseInbox(s, AccountNote(s)) /\ Goto(s, "compare")
  BY DEF SupabaseSession, world
<1>2. /\ AccountNote(s) \in SUBSET Notes
      /\ "weak" \in AccountNote(s) <=> run[s].weak
      /\ "left-behind" \in AccountNote(s) <=> run[s].created
  BY DEF AccountNote, Notes
<1>3. PICK more \in SUBSET {"inbox-left"} :
        report'[s] = report[s] \cup AccountNote(s) \cup more
  BY <1>1, <1>2, Closed
<1>4. /\ lost' = 0 => lost = 0
      /\ run[s].inbox /\ Project(s) \in inboxes' => "inbox-left" \in report'[s]
  BY <1>1, <1>2, Closed
<1>5. /\ run'[s].pc = "compare" /\ run'[s].token = run[s].token
      /\ run'[s].created = run[s].created /\ run'[s].weak = run[s].weak
      /\ run'[s].pw = run[s].pw /\ run'[s].inbox = run[s].inbox
      /\ run'[s].ephemeral = run[s].ephemeral
  BY <1>1, Gone
<1>6. WayIsItsOwn(s)'
  BY <1>1, <1>5 DEF Sane, WayIsItsOwn, Supabase, Late
<1>7. VerdictHolds(s)'
  BY <1>1, <1>2, <1>3, <1>5 DEF Sane, VerdictHolds, Supabase
<1>8. DoneByItself(s)'
  BY <1>1, <1>2, <1>3, <1>5 DEF Sane, DoneByItself, Supabase
<1>9. InboxIsClosed(s)'
  BY <1>1, <1>4, <1>5 DEF InboxIsClosed, Project
<1>10. NoFalseGain(s)'
  BY <1>1, <1>2, <1>3, <1>4, NotesAreNoRelations
     DEF Sane, NoFalseGain, Project, Notes
<1> QED BY <1>6, <1>7, <1>8, <1>9, <1>10 DEF Sane

LEMMA SaneFailed ==
  ASSUME Typed, NEW s \in Scans, Sane(s), Failed(s) PROVE Sane(s)'
<1> DEFINE notes == {"not-assessed"}
<1>1. /\ run[s].pc = "failed" /\ UNCHANGED <<job, policy, made>>
      /\ CloseInbox(s, notes) /\ Goto(s, "over")
  BY DEF Failed, world
<1>2. notes \in SUBSET Notes
  BY DEF Notes
<1>3. PICK more \in SUBSET {"inbox-left"} : report'[s] = report[s] \cup notes \cup more
  BY <1>1, <1>2, Closed
<1>4. /\ lost' = 0 => lost = 0
      /\ run[s].inbox /\ Project(s) \in inboxes' => "inbox-left" \in report'[s]
  BY <1>1, <1>2, Closed
<1>5. /\ run'[s].pc = "over" /\ run'[s].token = run[s].token
      /\ run'[s].created = run[s].created /\ run'[s].inbox = run[s].inbox
      /\ run'[s].ephemeral = run[s].ephemeral
  BY <1>1, Gone
<1>6. Supabase(s) /\ ~run[s].token
  BY <1>1 DEF Sane, WayIsItsOwn, Late
<1>7. WayIsItsOwn(s)'
  BY <1>1, <1>5 DEF Sane, WayIsItsOwn, Supabase, Late
<1>8. VerdictHolds(s)' /\ DoneByItself(s)'
  BY <1>1, <1>3, <1>5, <1>6 DEF Sane, VerdictHolds, DoneByItself, Supabase
<1>9. InboxIsClosed(s)'
  BY <1>1, <1>4, <1>5 DEF InboxIsClosed, Project
<1>10. NoFalseGain(s)'
  BY <1>1, <1>3, <1>4, NotesAreNoRelations DEF Sane, NoFalseGain, Project, Notes
<1> QED BY <1>7, <1>8, <1>9, <1>10 DEF Sane

\* The comparison names what the account reads, less what the base role does:
\* all of it, unless a reply went missing.
LEMMA SaneCompare ==
  ASSUME Typed, NEW s \in Scans, Sane(s), Compare(s) PROVE Sane(s)'
<1>1. /\ run[s].pc = "compare" /\ UNCHANGED <<job, policy, made, inboxes>>
      /\ Goto(s, "over")
  BY DEF Compare, world
<1>2. PICK silent \in SUBSET policy[Project(s)].public :
        /\ lost' = lost + Cardinality(silent)
        /\ Say(s, policy[Project(s)].members \ BaseReadable(s, silent))
  BY DEF Compare
<1>3. report'[s] = report[s] \cup (policy[Project(s)].members
                                     \ (policy[Project(s)].public \ silent))
  BY <1>2, Said DEF BaseReadable
<1>4. lost' = 0 => lost = 0 /\ silent = {}
  <2>1. IsFiniteSet(silent)
    BY NotesAreNoRelations, FS_Subset
  <2>2. Cardinality(silent) \in Nat /\ (Cardinality(silent) = 0 <=> silent = {})
    BY <2>1, FS_CardinalityType, FS_EmptySet
  <2>3. lost \in Nat
    BY DEF Typed
  <2> QED BY <1>2, <2>2, <2>3
<1>5. /\ run'[s].pc = "over" /\ run'[s].token = run[s].token
      /\ run'[s].pw = run[s].pw /\ run'[s].created = run[s].created
      /\ run'[s].inbox = run[s].inbox /\ run'[s].ephemeral = run[s].ephemeral
  BY <1>1, Gone
<1>6. \A n \in Notes : n \in report'[s] <=> n \in report[s]
  BY <1>3, NotesAreNoRelations
<1>7. {"weak", "left-behind", "inbox-left"} \subseteq Notes
  BY DEF Notes
<1>8. WayIsItsOwn(s)'
  BY <1>1, <1>5 DEF Sane, WayIsItsOwn, Supabase, Late
<1>9. VerdictHolds(s)' /\ DoneByItself(s)'
  BY <1>1, <1>5, <1>6, <1>7 DEF Sane, VerdictHolds, DoneByItself, Supabase
<1>10. InboxIsClosed(s)'
  BY <1>1, <1>5, <1>6, <1>7 DEF Sane, InboxIsClosed, OthersInbox, Project
<1>11. NoFalseGain(s)'
  BY <1>1, <1>3, <1>4 DEF Sane, NoFalseGain, Project
<1> QED BY <1>8, <1>9, <1>10, <1>11 DEF Sane

\* The rest of a Firebase scan: what it says are notes, and it is "left-behind"
\* only of an account it made.
LEMMA SaneFirebase ==
  ASSUME Typed, NEW s \in Scans, Sane(s),
         \/ FirebaseSession(s) \/ SignInAnonymously(s) \/ RemoveVisitor(s)
         \/ Finish(s)
  PROVE  Sane(s)'
<1>1. /\ UNCHANGED <<job, policy, inboxes>>
      /\ made \subseteq made' /\ made' \subseteq made \cup {s}
      /\ lost' = 0 => lost = 0
  BY RepliesStayLost
     DEF FirebaseSession, SignInAnonymously, RemoveVisitor, Finish, Delete, world
<1>2. ~Supabase(s)
  BY DEF FirebaseSession, SignInAnonymously, RemoveVisitor, Finish, Sane,
         WayIsItsOwn
<1>3. run[s].pc \in {"session", "anonymous", "visitor", "finish"}
  BY DEF FirebaseSession, SignInAnonymously, RemoveVisitor, Finish
<1>4. \E pc \in {"anonymous", "finish", "visitor", "over"} : Goto(s, pc)
  BY DEF FirebaseSession, SignInAnonymously, RemoveVisitor, Finish
<1>5. /\ run'[s].pc \in {"anonymous", "finish", "visitor", "over"}
      /\ run'[s].token = run[s].token /\ run'[s].created = run[s].created
      /\ run'[s].inbox = run[s].inbox /\ run'[s].ephemeral = run[s].ephemeral
  BY <1>4, Gone
<1>6. \E notes \in SUBSET Notes :
        /\ report'[s] = report[s] \cup notes
        /\ "left-behind" \in notes => run[s].ephemeral
  <2>1. CASE FirebaseSession(s)
    <3> DEFINE notes == {"open-signup"} \cup IF run[s].weak THEN {"weak"} ELSE {}
    <3>1. Say(s, notes)
      BY <2>1 DEF FirebaseSession
    <3>2. notes \in SUBSET Notes /\ "left-behind" \notin notes
      BY DEF Notes
    <3> HIDE DEF notes
    <3> QED BY <3>1, <3>2, Said
  <2> DEFINE Adds(notes) == /\ report'[s] = report[s] \cup notes
                            /\ "left-behind" \in notes => run[s].ephemeral
             N == {{}, {"visitor-left"}, {"left-behind"}}
  <2>0. N \subseteq SUBSET Notes
    BY DEF Notes
  <2>2. CASE SignInAnonymously(s)
    <3>1. Adds({})
      BY <2>2 DEF SignInAnonymously
    <3> QED BY <2>0, <3>1
  <2>3. CASE RemoveVisitor(s)
    <3>1. Adds({}) \/ Adds({"visitor-left"})
      BY <2>3, Said DEF RemoveVisitor, Delete
    <3> QED BY <2>0, <3>1
  <2>4. CASE Finish(s)
    <3>1. Adds({}) \/ Adds({"left-behind"})
      BY <2>4, Said DEF Finish, Delete, Ephemeral
    <3> QED BY <2>0, <3>1
  <2> QED BY <2>1, <2>2, <2>3, <2>4
<1>7. ~run[s].inbox
  BY <1>2 DEF Sane, WayIsItsOwn
<1>8. WayIsItsOwn(s)'
  BY <1>1, <1>2, <1>3, <1>5, <1>7 DEF Sane, WayIsItsOwn, Supabase, Late
<1>9. VerdictHolds(s)' /\ InboxIsClosed(s)'
  BY <1>1, <1>2, <1>5, <1>7 DEF VerdictHolds, InboxIsClosed, Supabase
<1>10. DoneByItself(s)'
  BY <1>1, <1>2, <1>5, <1>6 DEF Sane, DoneByItself, Supabase
<1>11. NoFalseGain(s)'
  BY <1>1, <1>6, NotesAreNoRelations DEF Sane, NoFalseGain, Project
<1> QED BY <1>8, <1>9, <1>10, <1>11 DEF Sane

LEMMA SaneStep ==
  ASSUME Typed, \A s \in Scans : Sane(s), [Next]_vars
  PROVE  (\A s \in Scans : Sane(s))'
<1>1. ASSUME NEW s \in Scans, Step(s), NEW t \in Scans PROVE Sane(t)'
  <2>1. CASE t # s
    BY <1>1, <2>1, SaneOfOthers
  <2>2. Sane(s)'
    BY <1>1, SaneLookup, SaneSignInStored, SaneWait, SaneSignInConfirmed,
       SaneSignUp, SaneRecover, SaneRemember, SaneSupabaseSession, SaneFailed,
       SaneCompare, SaneFirebase DEF Step
  <2> QED BY <2>1, <2>2
<1>2. ASSUME NEW process, Kill(process), NEW t \in Scans PROVE Sane(t)'
  <2>1. CASE run'[t] = Fresh /\ report'[t] = {}
    BY <1>2, <2>1, KillOwn, FreshIsSane
  <2>2. CASE run'[t] = run[t] /\ report'[t] = report[t]
    <3>1. UNCHANGED <<job, policy, made, inboxes, lost>>
      BY <1>2, KillOwn
    <3>2. WayIsItsOwn(t)' /\ VerdictHolds(t)' /\ DoneByItself(t)'
      BY <2>2, <3>1 DEF Sane, WayIsItsOwn, VerdictHolds, DoneByItself, Supabase
    <3>3. InboxIsClosed(t)' /\ NoFalseGain(t)'
      BY <2>2, <3>1 DEF Sane, InboxIsClosed, OthersInbox, NoFalseGain, Project
    <3> QED BY <3>2, <3>3 DEF Sane
  <2> QED BY <1>2, <2>1, <2>2, KillOwn
<1>3. CASE UNCHANGED vars
  BY <1>3 DEF vars, Sane, WayIsItsOwn, VerdictHolds, DoneByItself, InboxIsClosed,
              OthersInbox, NoFalseGain, Supabase, Project
<1> QED BY <1>1, <1>2, <1>3 DEF Next

-----------------------------------------------------------------------------
(***************************************************************************)
(* The store is written by one scan of a process at a time, and what is in *)
(* it stays.                                                               *)
(***************************************************************************)
\* What a scan comes to have in the store it found there, or put there.
LEMMA ElsewhereInTheScan ==
  ASSUME Typed, NEW s \in Scans, Sane(s), Step(s),
         ~Load(s), ~Truncate(s), ~Write(s)
  PROVE  /\ UNCHANGED store
         /\ ~Holds(s) /\ ~Holds(s)'
         /\ Remembered(s)' => Remembered(s) \/ Lookup(s)
<1>1. CASE Lookup(s)
  <2>1. run'[s].pc \in {"stored", "open", "recover", "signup"}
    BY <1>1, LookedUp, AfterStoredIsPC
  <2> QED BY <1>1, <2>1 DEF Lookup, Holds
<1>2. CASE SignInStored(s)
  <2>1. \/ run' = [run EXCEPT ![s].pc = "session", ![s].token = TRUE,
                              ![s].weak = WeakOfStored(s)]
        \/ run' = [run EXCEPT ![s] = [Fresh EXCEPT !.pc = AfterStored(s)]]
    BY <1>2 DEF SignInStored
  <2>2. run'[s].pc \in {"session", "open", "recover", "signup"}
    <3> DEFINE w == WeakOfStored(s)
    <3>1. CASE run' = [run EXCEPT ![s].pc = "session", ![s].token = TRUE,
                                  ![s].weak = w]
      <4> HIDE DEF w
      <4> QED BY <3>1 DEF Typed, Local
    <3>2. CASE run' = [run EXCEPT ![s] = [Fresh EXCEPT !.pc = AfterStored(s)]]
      BY <3>2, Backs, AfterStoredIsPC
    <3> QED BY <2>1, <3>1, <3>2
  <2> QED BY <1>2, <2>2 DEF SignInStored, Holds, Remembered
<1>3. CASE OpenInbox(s) \/ Await(s) \/ Follow(s)
  <2>1. run'[s].pc \in {"signup", "failed", "follow", "confirmed"}
    <3>1. CASE run' = [run EXCEPT ![s].pc = "signup", ![s].email = "mailbox",
                                  ![s].inbox = TRUE]
      BY <3>1 DEF Typed, Local
    <3>2. CASE \E pc \in {"failed", "follow", "confirmed"} : Goto(s, pc)
      BY <3>2, Gone
    <3> QED BY <1>3, <3>1, <3>2 DEF OpenInbox, Await, Follow
  <2> QED BY <1>3, <2>1 DEF OpenInbox, Await, Follow, Holds, Remembered
<1>4. CASE SignInConfirmed(s)
  <2> DEFINE w == run[s].pw = "weak"
  <2>1. \/ run' = [run EXCEPT ![s].pc = "remember", ![s].created = TRUE, ![s].weak = w]
        \/ Goto(s, "failed")
    BY <1>4 DEF SignInConfirmed
  <2>2. run'[s].pc \in {"remember", "failed"}
    <3>1. CASE run' = [run EXCEPT ![s].pc = "remember", ![s].created = TRUE,
                                  ![s].weak = w]
      <4> HIDE DEF w
      <4> QED BY <3>1 DEF Typed, Local
    <3>2. CASE Goto(s, "failed")
      BY <3>2, Gone
    <3> QED BY <2>1, <3>1, <3>2
  <2> QED BY <1>4, <2>2 DEF SignInConfirmed, Holds, Remembered
<1>5. CASE SignUp(s)
  <2>1. run[s].pc = "signup" /\ UNCHANGED store
    BY <1>5, SignUpCases
  <2>2. ~run[s].token
    BY <2>1 DEF Sane, WayIsItsOwn, Late
  <2>3. ASSUME AfterRefusal(s)
        PROVE  run'[s].pc \in {"signup", "anonymous", "recover"} /\ ~run'[s].token
    BY <2>2, <2>3, Tried DEF AfterRefusal
  <2>4. ASSUME AfterSignUp(s)
        PROVE  run'[s].pc = "remember" \/ (run'[s].pc = "session" /\ run'[s].ephemeral)
    BY <2>4, Signed
  <2>5. ASSUME Goto(s, IF run[s].inbox THEN "await" ELSE "failed")
        PROVE  run'[s].pc \in {"await", "failed"}
    BY <2>5, Gone
  <2> QED BY <1>5, <2>1, <2>3, <2>4, <2>5, SignUpCases DEF Holds, Remembered
<1>6. CASE Recover(s)
  <2>1. ~run[s].token
    BY <1>6 DEF Recover, Sane, WayIsItsOwn, Late
  <2> DEFINE w == run[s].pw = "weak"
  <2>2. \/ run' = [run EXCEPT ![s].pc = "remember", ![s].token = TRUE,
                              ![s].created = FALSE, ![s].weak = w]
        \/ \E pc \in {"recover", "failed", "signup", "anonymous"} : Try(s, pc)
    BY <1>6 DEF Recover
  <2>3. \/ run'[s].pc = "remember"
        \/ /\ run'[s].pc \in {"recover", "failed", "signup", "anonymous"}
           /\ ~run'[s].token
    <3>1. CASE run' = [run EXCEPT ![s].pc = "remember", ![s].token = TRUE,
                                  ![s].created = FALSE, ![s].weak = w]
      <4> HIDE DEF w
      <4> QED BY <3>1 DEF Typed, Local
    <3>2. CASE \E pc \in {"recover", "failed", "signup", "anonymous"} : Try(s, pc)
      BY <2>1, <3>2, Tried
    <3> QED BY <2>2, <3>1, <3>2
  <2> QED BY <1>6, <2>3 DEF Recover, Holds, Remembered
<1>7. CASE Failed(s)
  <2>1. ~run[s].token
    BY <1>7 DEF Failed, Sane, WayIsItsOwn, Late
  <2>2. Goto(s, "over") /\ run[s].pc = "failed" /\ UNCHANGED store
    BY <1>7 DEF Failed
  <2>3. run'[s].pc = "over" /\ run'[s].token = run[s].token
    BY <2>2, Gone
  <2> QED BY <2>1, <2>2, <2>3 DEF Holds, Remembered
<1>8. CASE SupabaseSession(s) \/ Compare(s)
  <2>1. \E pc \in {"compare", "over"} : Goto(s, pc)
    BY <1>8 DEF SupabaseSession, Compare
  <2> QED BY <1>8, <2>1, Gone DEF SupabaseSession, Compare, Holds, Remembered
<1>9. CASE \/ FirebaseSession(s) \/ SignInAnonymously(s) \/ RemoveVisitor(s)
           \/ Finish(s)
  <2>1. \E pc \in {"anonymous", "finish", "visitor", "over"} : Goto(s, pc)
    BY <1>9 DEF FirebaseSession, SignInAnonymously, RemoveVisitor, Finish
  <2> QED BY <1>9, <2>1, Gone
          DEF FirebaseSession, SignInAnonymously, RemoveVisitor, Finish, Holds,
              Remembered
<1> QED BY <1>1, <1>2, <1>3, <1>4, <1>5, <1>6, <1>7, <1>8, <1>9 DEF Step

\* What those of others know is as it was.
LEMMA OthersStay ==
  ASSUME Typed, NEW s \in Scans, Step(s), NEW t \in Scans, t # s
  PROVE  /\ run'[t] = run[t] /\ report'[t] = report[t]
         /\ Holds(t)' = Holds(t) /\ Remembered(t)' = Remembered(t)
<1>1. run'[t] = run[t] /\ report'[t] = report[t]
  BY StepIsOwn DEF Own, Typed
<1>2. Holds(t)' = Holds(t)
  BY <1>1 DEF Holds
<1>3. Remembered(t)' = Remembered(t)
  BY <1>1 DEF Remembered
<1> QED BY <1>1, <1>2, <1>3

\* Whoever comes to hold the file found it free.
LEMMA Writers ==
  ASSUME Typed, NEW s \in Scans, Sane(s), Step(s)
  PROVE  Holds(s)' => \/ Load(s) /\ \A t \in Scans : Holds(t) => job[t].process # job[s].process
                      \/ Truncate(s) /\ Holds(s)
<1>1. CASE Load(s)
  BY <1>1 DEF Load, Free, Mutex, Holds
<1>2. CASE Truncate(s)
  BY <1>2 DEF Truncate, Holds
<1>3. CASE Write(s)
  <2>1. run'[s].pc = "session"
    BY <1>3, Gone DEF Write
  <2> QED BY <2>1 DEF Holds
<1>4. CASE ~Load(s) /\ ~Truncate(s) /\ ~Write(s)
  BY <1>4, ElsewhereInTheScan
<1> QED BY <1>1, <1>2, <1>3, <1>4

LEMMA OneWriterStep ==
  ASSUME Typed, \A s \in Scans : Sane(s), OneWriter, [Next]_vars
  PROVE  OneWriter'
<1>1. ASSUME NEW s \in Scans, Step(s) PROVE OneWriter'
  <2>1. job' = job
    BY <1>1, StepIsOwn DEF Own
  <2>2. \A t \in Scans \ {s} : Holds(t)' = Holds(t)
    BY <1>1, OthersStay
  <2>3. \A t \in Scans \ {s} : Holds(s)' /\ Holds(t)' => job[t].process # job[s].process
    BY <1>1, <2>2, Writers DEF OneWriter
  <2> QED BY <2>1, <2>2, <2>3 DEF OneWriter
<1>2. ASSUME NEW process, Kill(process) PROVE OneWriter'
  <2>1. \A t \in Scans : Holds(t)' => Holds(t)
    BY <1>2, KillOwn DEF Holds, Fresh
  <2>2. job' = job
    BY <1>2, KillOwn
  <2> QED BY <2>1, <2>2 DEF OneWriter
<1>3. CASE UNCHANGED vars
  BY <1>3 DEF vars, OneWriter, Holds
<1> QED BY <1>1, <1>2, <1>3 DEF Next

LEMMA NothingForgottenStep ==
  ASSUME Typed, \A s \in Scans : Sane(s), OneWriter, NothingForgotten, [Next]_vars
  PROVE  NothingForgotten'
<1>1. ASSUME NEW s \in Scans, Step(s) PROVE NothingForgotten'
  <2> SUFFICES ASSUME OneProcess', kills' = 0 PROVE NothingForgotten'
    BY DEF NothingForgotten
  <2>1. OneProcess /\ kills = 0 /\ job' = job
    BY <1>1, StepIsOwn DEF Own, OneProcess
  <2>2. /\ \A t \in Scans : run[t].pc = "truncate" => store.accounts = run[t].copy
        /\ \A t \in Scans : run[t].pc = "write" => DOMAIN store.accounts = {}
        /\ \A t \in Scans : Remembered(t) =>
             /\ (\A h \in Scans : ~Holds(h)) => Project(t) \in DOMAIN store.accounts
             /\ \A h \in Scans : Holds(h) => Project(t) \in DOMAIN run[h].copy
    BY <2>1 DEF NothingForgotten
  <2>3. \A t \in Scans \ {s} : /\ run'[t] = run[t] /\ Holds(t)' = Holds(t)
                               /\ Remembered(t)' = Remembered(t)
    BY <1>1, OthersStay
  <2>4. \A h, t \in Scans : Holds(h) /\ Holds(t) => h = t
    BY <2>1 DEF OneWriter, OneProcess
  <2>5. \A t \in Scans : Project(t)' = Project(t)
    BY <2>1 DEF Project
  <2>6. SUFFICES
          /\ \A t \in Scans : run'[t].pc = "truncate" => store'.accounts = run'[t].copy
          /\ \A t \in Scans : run'[t].pc = "write" => DOMAIN store'.accounts = {}
          /\ \A t \in Scans : Remembered(t)' =>
               /\ (\A h \in Scans : ~Holds(h)') => Project(t) \in DOMAIN store'.accounts
               /\ \A h \in Scans : Holds(h)' => Project(t) \in DOMAIN run'[h].copy
    BY <2>5 DEF NothingForgotten
  <2>7. CASE Load(s)
    <3>1. run'[s].pc = "truncate" /\ run'[s].copy = store.accounts /\ store' = store
      BY <2>7 DEF Load, Typed, Local
    <3>2. \A h \in Scans : ~Holds(h)
      BY <2>1, <2>7 DEF Load, Free, Mutex, Holds, OneProcess
    <3>3. ~Remembered(s)'
      BY <3>1 DEF Remembered
    <3> QED BY <2>2, <2>3, <3>1, <3>2, <3>3 DEF Holds
  <2>8. CASE Truncate(s)
    <3>1. /\ run[s].pc = "truncate" /\ run'[s].pc = "write"
          /\ run'[s].copy = run[s].copy
      BY <2>8, Gone DEF Truncate
    <3>0. DOMAIN store'.accounts = {}
      <4>1. <<>> \in [{} -> Account1]
        OBVIOUS
      <4>2. store'.accounts = <<>>
        BY <2>8 DEF Truncate
      <4> QED BY <4>1, <4>2
    <3>2. \A h \in Scans \ {s} : ~Holds(h)
      BY <2>4, <3>1 DEF Holds
    <3>3. ~Remembered(s)'
      BY <3>1 DEF Remembered
    <3> QED BY <2>2, <2>3, <3>0, <3>1, <3>2, <3>3 DEF Holds
  <2>9. CASE Write(s)
    <3>1. /\ run[s].pc = "write" /\ run'[s].pc = "session"
          /\ DOMAIN store'.accounts = DOMAIN run[s].copy \cup {Project(s)}
      BY <2>9, Gone DEF Write
    <3>2. \A h \in Scans \ {s} : ~Holds(h)
      BY <2>4, <3>1 DEF Holds
    <3> QED BY <2>2, <2>3, <3>1, <3>2 DEF Holds
  <2>10. CASE ~Load(s) /\ ~Truncate(s) /\ ~Write(s)
    <3>1. /\ store' = store /\ ~Holds(s) /\ ~Holds(s)'
          /\ Remembered(s)' => Remembered(s) \/ Lookup(s)
      BY <1>1, <2>10, ElsewhereInTheScan
    <3>2. ASSUME Lookup(s), Remembered(s)'
          PROVE  Project(s) \in DOMAIN store.accounts
      BY <3>2, LookedUp, AfterStoredIsPC DEF Remembered
    <3>3. \A h \in Scans : Holds(h) /\ Project(s) \in DOMAIN store.accounts =>
            Project(s) \in DOMAIN run[h].copy
      BY <2>2 DEF Holds
    <3> QED BY <2>2, <2>3, <3>1, <3>2, <3>3 DEF Holds
  <2> QED BY <2>7, <2>8, <2>9, <2>10
<1>2. ASSUME NEW process, Kill(process) PROVE NothingForgotten'
  <2>1. kills' > 0
    BY <1>2, KillOwn
  <2> QED BY <2>1 DEF NothingForgotten
<1>3. CASE UNCHANGED vars
  BY <1>3 DEF vars, NothingForgotten, OneProcess, Remembered, Holds, Project
<1> QED BY <1>1, <1>2, <1>3 DEF Next

-----------------------------------------------------------------------------
(***************************************************************************)
(* Who comes to be on the projects.                                        *)
(***************************************************************************)
LEMMA Registered ==
  ASSUME Typed, NEW s \in Scans, Register(s)
  PROVE  \/ UNCHANGED users
         \/ /\ s \in made'
            /\ ~\E u \in users : u.project = Project(s) /\ u.email = Email(s)
            /\ \E u \in User : /\ users' = users \cup {u}
                               /\ u.project = Project(s) /\ u.email = Email(s)
                               /\ u.pw \in Passwords /\ u.by = s
<1>1. job[s].project \in Projects /\ run[s] \in Local
  BY ProjectIsTyped DEF Project, Typed
<1> DEFINE c == ~policy[Project(s)].confirm
           u == [project |-> Project(s), email |-> Email(s), pw |-> run[s].pw,
                 confirmed |-> c, by |-> s]
<1>2. c \in BOOLEAN
  BY Zenon
<1>3. CASE \E v \in users : v.project = Project(s) /\ v.email = Email(s)
  BY <1>3 DEF Register
<1>4. CASE ~\E v \in users : v.project = Project(s) /\ v.email = Email(s)
  <2>1. users' = users \cup {u} /\ s \in made'
    BY <1>4 DEF Register
  <2> HIDE DEF c
  <2>2. /\ u \in User /\ u.project = Project(s) /\ u.email = Email(s)
        /\ u.pw \in Passwords /\ u.by = s
    BY <1>1, <1>2 DEF User, Local, Email, Project
  <2> HIDE DEF u
  <2> QED BY <1>4, <2>1, <2>2
<1> QED BY <1>3, <1>4

\* A step confirms accounts, adds one that is not there, or removes some.
LEMMA Population ==
  ASSUME Typed, NEW s \in Scans, Step(s)
  PROVE  \/ users' \subseteq users
         \/ Follow(s) /\ users' = Confirmed(s)
         \/ /\ SignUp(s) /\ s \in made'
            /\ ~\E u \in users : u.project = Project(s) /\ u.email = Email(s)
            /\ \E u \in User : /\ users' = users \cup {u}
                               /\ u.project = Project(s) /\ u.email = Email(s)
                               /\ u.pw \in Passwords /\ u.by = s
         \/ /\ SignInAnonymously(s) /\ s \in made'
            /\ users' = users \cup {Visitor(s)}
<1>1. CASE SignUp(s)
  <2>1. Register(s) \/ NoEffect
    BY <1>1, SignUpCases
  <2>2. CASE NoEffect
    BY <2>2 DEF NoEffect
  <2>3. CASE Register(s)
    BY <1>1, <2>3, Registered
  <2> QED BY <2>1, <2>2, <2>3
<1>2. CASE Follow(s)
  BY <1>2 DEF Follow
<1>3. CASE SignInAnonymously(s)
  BY <1>3 DEF SignInAnonymously
<1>4. CASE RemoveVisitor(s) \/ Finish(s)
  BY <1>4 DEF RemoveVisitor, Finish, Delete
<1>5. CASE UNCHANGED users
  BY <1>5
<1> QED BY <1>1, <1>2, <1>3, <1>4, <1>5
        DEF Step, Lookup, SignInStored, OpenInbox, Await, SignInConfirmed,
            Recover, Load, Truncate, Write, SupabaseSession, Failed, Compare,
            FirebaseSession

\* Confirming an account changes nothing else about it.
LEMMA ConfirmedIsTheSame ==
  ASSUME Typed, NEW s \in Scans, NEW w \in Confirmed(s)
  PROVE  \E u \in users :
           /\ w.project = u.project /\ w.email = u.email /\ w.pw = u.pw /\ w.by = u.by
           /\ u.email # "mailbox" => w = u
           /\ w = IF u.project = Project(s) /\ u.email = "mailbox"
                  THEN [u EXCEPT !.confirmed = TRUE] ELSE u
<1>1. PICK u \in users :
        w = IF u.project = Project(s) /\ u.email = "mailbox"
            THEN [u EXCEPT !.confirmed = TRUE] ELSE u
  BY DEF Confirmed
<1>2. u \in User
  BY DEF Typed
<1>3. w.project = u.project /\ w.email = u.email /\ w.pw = u.pw /\ w.by = u.by
  <2>1. CASE u.project = Project(s) /\ u.email = "mailbox"
    <3>1. w = [u EXCEPT !.confirmed = TRUE]
      BY <1>1, <2>1
    <3> QED BY <1>2, <3>1 DEF User
  <2>2. CASE ~(u.project = Project(s) /\ u.email = "mailbox")
    BY <1>1, <2>2
  <2> QED BY <2>1, <2>2
<1> QED BY <1>1, <1>3

LEMMA OnceStep ==
  ASSUME Typed, NEW s \in Scans, Step(s), Once(users),
         \A u \in users : u.pw # "none" => u.email \in Addresses
  PROVE  Once(users')
<1>1. CASE users' \subseteq users
  BY <1>1 DEF Once
<1>2. CASE users' = Confirmed(s)
  <2> SUFFICES ASSUME NEW x \in Confirmed(s), NEW y \in Confirmed(s),
                      x.project = y.project, x.email = y.email,
                      x.pw # "none", y.pw # "none"
               PROVE  x = y
    BY <1>2 DEF Once
  <2>1. PICK u \in users :
           /\ x.project = u.project /\ x.email = u.email /\ x.pw = u.pw
           /\ x = IF u.project = Project(s) /\ u.email = "mailbox"
                  THEN [u EXCEPT !.confirmed = TRUE] ELSE u
    BY ConfirmedIsTheSame
  <2>2. PICK v \in users :
           /\ y.project = v.project /\ y.email = v.email /\ y.pw = v.pw
           /\ y = IF v.project = Project(s) /\ v.email = "mailbox"
                  THEN [v EXCEPT !.confirmed = TRUE] ELSE v
    BY ConfirmedIsTheSame
  <2>3. u = v
    BY <2>1, <2>2 DEF Once
  <2> QED BY <2>1, <2>2, <2>3
<1>3. ASSUME ~\E u \in users : u.project = Project(s) /\ u.email = Email(s),
             NEW u, users' = users \cup {u},
             u.project = Project(s), u.email = Email(s)
      PROVE  Once(users')
  BY <1>3 DEF Once
<1>4. ASSUME users' = users \cup {Visitor(s)} PROVE Once(users')
  <2>1. Visitor(s).pw = "none"
    BY DEF Visitor
  <2> QED BY <1>4, <2>1 DEF Once
<1> QED BY <1>1, <1>2, <1>3, <1>4, Population

\* Where a scan's address and its copy of the store come from.
LEMMA WhatAScanHas ==
  ASSUME Typed, NEW s \in Scans, Sane(s), Step(s)
  PROVE  /\ \/ run'[s].email = run[s].email
            \/ run'[s].email = "derived"
            \/ run'[s].email = "mailbox" /\ job[s].mailbox
            \/ \E p \in DOMAIN store.accounts : run'[s].email = store.accounts[p].email
         /\ \/ run'[s].copy = run[s].copy
            \/ run'[s].copy = <<>>
            \/ run'[s].copy = store.accounts
<1>1. CASE Lookup(s)
  BY <1>1, LookedUp
<1>2. CASE SignInStored(s)
  <2> DEFINE w == WeakOfStored(s)
  <2>1. \/ run' = [run EXCEPT ![s].pc = "session", ![s].token = TRUE, ![s].weak = w]
        \/ run' = [run EXCEPT ![s] = [Fresh EXCEPT !.pc = AfterStored(s)]]
    BY <1>2 DEF SignInStored
  <2>2. CASE run' = [run EXCEPT ![s].pc = "session", ![s].token = TRUE, ![s].weak = w]
    <3> HIDE DEF w
    <3> QED BY <2>2 DEF Typed, Local
  <2>3. CASE run' = [run EXCEPT ![s] = [Fresh EXCEPT !.pc = AfterStored(s)]]
    BY <2>3, Backs
  <2> QED BY <2>1, <2>2, <2>3
<1>3. CASE OpenInbox(s)
  <2>1. job[s].mailbox
    BY <1>3 DEF OpenInbox, Sane, WayIsItsOwn
  <2>2. CASE Goto(s, "failed")
    BY <2>2, Gone
  <2>3. CASE run' = [run EXCEPT ![s].pc = "signup", ![s].email = "mailbox",
                                ![s].inbox = TRUE]
    BY <2>1, <2>3 DEF Typed, Local
  <2> QED BY <1>3, <2>2, <2>3 DEF OpenInbox
<1>4. CASE SignInConfirmed(s)
  <2> DEFINE w == run[s].pw = "weak"
  <2>1. \/ run' = [run EXCEPT ![s].pc = "remember", ![s].created = TRUE, ![s].weak = w]
        \/ Goto(s, "failed")
    BY <1>4 DEF SignInConfirmed
  <2>2. CASE run' = [run EXCEPT ![s].pc = "remember", ![s].created = TRUE, ![s].weak = w]
    <3> HIDE DEF w
    <3> QED BY <2>2 DEF Typed, Local
  <2> QED BY <2>1, <2>2, Gone
<1>5. CASE SignUp(s)
  <2>1. CASE AfterRefusal(s)
    BY <2>1, Tried DEF AfterRefusal
  <2> QED BY <1>5, <2>1, SignUpCases, Signed, Gone
<1>6. CASE Recover(s)
  <2> DEFINE w == run[s].pw = "weak"
  <2>1. \/ run' = [run EXCEPT ![s].pc = "remember", ![s].token = TRUE,
                              ![s].created = FALSE, ![s].weak = w]
        \/ \E pc \in {"recover", "failed", "signup", "anonymous"} : Try(s, pc)
    BY <1>6 DEF Recover
  <2>2. CASE run' = [run EXCEPT ![s].pc = "remember", ![s].token = TRUE,
                                ![s].created = FALSE, ![s].weak = w]
    <3> HIDE DEF w
    <3> QED BY <2>2 DEF Typed, Local
  <2> QED BY <2>1, <2>2, Tried
<1>7. CASE Load(s)
  BY <1>7 DEF Load, Typed, Local
<1>8. CASE \E pc : Goto(s, pc)
  BY <1>8, Gone
<1> QED BY <1>1, <1>2, <1>3, <1>4, <1>5, <1>6, <1>7, <1>8
        DEF Step, Await, Follow, Truncate, Write, SupabaseSession, Failed,
            Compare, FirebaseSession, SignInAnonymously, RemoveVisitor, Finish

LEMMA KnownStep ==
  ASSUME Typed, NEW s \in Scans, Sane(s), Step(s), Known
  PROVE  Known'
<1>1. job' = job /\ made \subseteq made'
  BY StepIsOwn, WorldStep DEF Own
<1>2. SomeMailbox' <=> SomeMailbox
  BY <1>1 DEF SomeMailbox
<1>3. job[s].mailbox => SomeMailbox
  BY DEF SomeMailbox
<1>4. ASSUME NEW t \in Scans PROVE run'[t].email = "mailbox" => SomeMailbox
  <2>1. CASE t # s
    BY <2>1, OthersStay DEF Known
  <2>2. run'[s].email = "mailbox" => SomeMailbox
    BY <1>3, WhatAScanHas DEF Known
  <2> QED BY <2>1, <2>2
<1>5. ASSUME NEW t \in Scans, NEW p \in DOMAIN run'[t].copy
      PROVE  run'[t].copy[p].email = "mailbox" => SomeMailbox
  <2>1. CASE t # s
    <3>1. run'[t] = run[t]
      BY <2>1, OthersStay
    <3> QED BY <1>5, <3>1 DEF Known
  <2>2. CASE t = s
    <3>1. CASE run'[s].copy = run[s].copy
      BY <1>5, <2>2, <3>1 DEF Known
    <3>2. CASE run'[s].copy = store.accounts
      BY <1>5, <2>2, <3>2 DEF Known
    <3>3. CASE run'[s].copy = <<>>
      <4>1. <<>> \in [{} -> Account1]
        OBVIOUS
      <4> QED BY <1>5, <2>2, <3>3, <4>1
    <3> QED BY <3>1, <3>2, <3>3, WhatAScanHas
  <2> QED BY <2>1, <2>2
<1>6. ASSUME NEW p \in DOMAIN store'.accounts
      PROVE  store'.accounts[p].email = "mailbox" => SomeMailbox
  <2>1. CASE Truncate(s)
    <3>1. <<>> \in [{} -> Account1]
      OBVIOUS
    <3>2. store'.accounts = <<>>
      BY <2>1 DEF Truncate
    <3> QED BY <1>6, <3>1, <3>2
  <2>2. CASE Write(s)
    <3>1. /\ DOMAIN store'.accounts = DOMAIN run[s].copy \cup {Project(s)}
          /\ store'.accounts[p] = IF p = Project(s)
                                  THEN [email |-> Email(s), pw |-> run[s].pw]
                                  ELSE run[s].copy[p]
      BY <1>6, <2>2 DEF Write
    <3>2. CASE p = Project(s)
      <4>1. store'.accounts[p].email = run[s].email
        BY <3>1, <3>2 DEF Email
      <4> QED BY <4>1 DEF Known
    <3>3. CASE p # Project(s)
      <4>1. store'.accounts[p] = run[s].copy[p] /\ p \in DOMAIN run[s].copy
        BY <1>6, <3>1, <3>3
      <4> QED BY <4>1 DEF Known
    <3> QED BY <3>2, <3>3
  <2>3. CASE store' = store
    BY <1>6, <2>3 DEF Known
  <2>4. CASE Load(s)
    BY <2>3, <2>4 DEF Load
  <2> QED BY <2>1, <2>2, <2>3, <2>4, ElsewhereInTheScan
<1>7. ASSUME NEW u \in users'
      PROVE  /\ u.by \in made'
             /\ u.pw # "none" => u.email \in Addresses
             /\ u.pw # "none" /\ u.email = "mailbox" => SomeMailbox
  <2>1. CASE u \in users
    BY <1>1, <2>1 DEF Known
  <2>2. CASE u \in Confirmed(s)
    BY <1>1, <2>2, ConfirmedIsTheSame DEF Known
  <2>3. CASE s \in made' /\ u.email = Email(s) /\ u.by = s
    BY <2>3 DEF Known, Email, Typed, Local
  <2>4. CASE s \in made' /\ u = Visitor(s)
    BY <2>4 DEF Visitor
  <2> QED BY <1>7, <2>1, <2>2, <2>3, <2>4, Population
<1> QED BY <1>2, <1>4, <1>5, <1>6, <1>7 DEF Known

LEMMA AddressesAreOnceStep ==
  ASSUME Typed, \A s \in Scans : Sane(s), AddressesAreOnce, [Next]_vars
  PROVE  AddressesAreOnce'
<1>1. ASSUME NEW s \in Scans, Step(s) PROVE AddressesAreOnce'
  <2>1. Once(users')
    BY <1>1, OnceStep DEF AddressesAreOnce, Known
  <2>2. Known'
    BY <1>1, KnownStep DEF AddressesAreOnce
  <2> QED BY <2>1, <2>2 DEF AddressesAreOnce, Once
<1>2. ASSUME NEW process, Kill(process) PROVE AddressesAreOnce'
  <2>1. /\ UNCHANGED <<job, users, store, made>>
        /\ \A t \in Scans : run'[t] = Fresh \/ run'[t] = run[t]
    BY <1>2, KillOwn
  <2>2. Fresh.email = "derived" /\ DOMAIN Fresh.copy = {}
    <3>1. <<>> \in [{} -> Account1]
      OBVIOUS
    <3> QED BY <3>1 DEF Fresh
  <2> QED BY <2>1, <2>2 DEF AddressesAreOnce, Once, Known, SomeMailbox
<1>3. CASE UNCHANGED vars
  BY <1>3 DEF vars, AddressesAreOnce, Once, Known, SomeMailbox
<1> QED BY <1>1, <1>2, <1>3 DEF Next

-----------------------------------------------------------------------------
(***************************************************************************)
(* Nothing is left where nothing may be.                                   *)
(***************************************************************************)
\* A scan about to remove what it made is a Firebase scan near its end.
LEMMA WhoRemoves ==
  ASSUME NEW s \in Scans, Sane(s), NEW u, AboutToGo(s, u)
  PROVE  /\ run[s].pc \in {"session", "anonymous", "visitor", "finish"}
         /\ ~Supabase(s)
BY DEF AboutToGo, Sane, WayIsItsOwn, DoneByItself

\* Its own part of what it leaves, where no reply is lost.
LEMMA LeavesNothingItself ==
  ASSUME Typed, NEW s \in Scans, Sane(s), Step(s), lost' = 0, lost = 0,
         job[s].noResidue, \A u \in users : u.by = s => AboutToGo(s, u),
         NEW u \in users', u.by = s
  PROVE  AboutToGo(s, u)'
<1>0. /\ job' = job /\ ~Silence
  BY StepIsOwn DEF Own, Silence
<1>1. CASE SignUp(s)
  <2>1. run[s].pc = "signup"
    BY <1>1, SignUpCases
  <2>2. ~Supabase(s) /\ u \notin users
    BY <2>1, WhoRemoves DEF Sane, WayIsItsOwn
  <2>3. Register(s) /\ AfterSignUp(s)
    <3>1. ~NoEffect
      BY <2>2 DEF NoEffect
    <3> QED BY <1>0, <1>1, <2>2, <3>1, SignUpCases, OnlySupabaseConfirms
  <2>4. u.project = Project(s) /\ u.email = Email(s)
    BY <2>2, <2>3, Registered
  <2>5. run'[s].email = run[s].email /\ run'[s].ephemeral /\ run'[s].pc = "session"
    BY <2>2, <2>3, Signed
  <2> QED BY <1>0, <2>4, <2>5 DEF AboutToGo, Project, Email
<1>2. CASE Follow(s)
  BY <1>2 DEF Follow, Sane, WayIsItsOwn
<1>3. CASE SignInAnonymously(s)
  <2>1. run[s].pc = "anonymous"
    BY <1>3 DEF SignInAnonymously
  <2>2. CASE u \in users
    <3>1. /\ run[s].ephemeral /\ u.project = Project(s) /\ u.email = Email(s)
      BY <2>1, <2>2 DEF AboutToGo
    <3>2. /\ run'[s].pc \in {"visitor", "finish"}
          /\ run'[s].ephemeral = run[s].ephemeral /\ run'[s].email = run[s].email
      BY <1>3, Gone DEF SignInAnonymously
    <3> QED BY <1>0, <3>1, <3>2 DEF AboutToGo, Project, Email
  <2>3. CASE u \notin users
    <3>1. u = Visitor(s) /\ Goto(s, "visitor")
      BY <1>0, <1>3, <2>3 DEF SignInAnonymously
    <3>2. run'[s].pc = "visitor"
      BY <3>1, Gone
    <3> QED BY <1>0, <3>1, <3>2 DEF AboutToGo, Visitor, Project
  <2> QED BY <2>2, <2>3
<1>4. CASE RemoveVisitor(s)
  <2>1. u \in users /\ u # Visitor(s) /\ run[s].pc = "visitor"
    BY <1>0, <1>4 DEF RemoveVisitor, Delete
  <2>2. run[s].ephemeral /\ u.project = Project(s) /\ u.email = Email(s)
    BY <2>1 DEF AboutToGo
  <2>3. /\ run'[s].pc = "finish"
        /\ run'[s].ephemeral = run[s].ephemeral /\ run'[s].email = run[s].email
    BY <1>4, Gone DEF RemoveVisitor
  <2> QED BY <1>0, <2>2, <2>3 DEF AboutToGo, Project, Email
<1>5. CASE Finish(s)
  <2>1. u \in users /\ run[s].pc = "finish"
    BY <1>5 DEF Finish, Delete
  <2>2. run[s].ephemeral /\ u.project = Project(s) /\ u.email = Email(s)
    BY <2>1 DEF AboutToGo
  <2>3. u \notin users'
    BY <1>0, <1>5, <2>2 DEF Finish, Delete, Ephemeral
  <2> QED BY <2>3
<1>6. CASE FirebaseSession(s)
  <2>1. u \in users /\ run[s].pc = "session"
    BY <1>6 DEF FirebaseSession
  <2>2. run[s].ephemeral /\ u.project = Project(s) /\ u.email = Email(s)
    BY <2>1 DEF AboutToGo
  <2>3. /\ run'[s].pc = "anonymous"
        /\ run'[s].ephemeral = run[s].ephemeral /\ run'[s].email = run[s].email
    BY <1>6, Gone DEF FirebaseSession
  <2> QED BY <1>0, <2>2, <2>3 DEF AboutToGo, Project, Email
<1>7. CASE UNCHANGED users /\ (Supabase(s) \/ run[s].pc \notin {"session", "anonymous", "visitor", "finish"})
  BY <1>7, WhoRemoves
<1> QED BY <1>1, <1>2, <1>3, <1>4, <1>5, <1>6, <1>7
        DEF Step, Lookup, SignInStored, OpenInbox, Await, SignInConfirmed,
            Recover, Load, Truncate, Write, SupabaseSession, Failed, Compare

LEMMA LeavesNothingStep ==
  ASSUME Typed, \A s \in Scans : Sane(s), LeavesNothing, [Next]_vars
  PROVE  LeavesNothing'
<1>1. ASSUME NEW s \in Scans, Step(s) PROVE LeavesNothing'
  <2> SUFFICES ASSUME lost' = 0, kills' = 0, NEW t \in Scans, job'[t].noResidue,
                      NEW u \in users', u.by = t
               PROVE  AboutToGo(t, u)'
    BY DEF LeavesNothing
  <2>1. job' = job /\ kills = 0
    BY <1>1, StepIsOwn DEF Own
  <2>2. lost = 0
    BY <1>1, LostTyped, AccountAssumption DEF Typed
  <2>3. \A r \in Scans : job[r].noResidue => \A v \in users : v.by = r => AboutToGo(r, v)
    BY <2>1, <2>2 DEF LeavesNothing
  <2>4. CASE t = s
    BY <1>1, <2>1, <2>2, <2>3, <2>4, LeavesNothingItself
  <2>5. CASE t # s
    <3>1. run'[t] = run[t]
      BY <1>1, <2>5, OthersStay
    <3>2. ASSUME AboutToGo(t, u) PROVE AboutToGo(t, u)'
      BY <2>1, <3>1, <3>2 DEF AboutToGo, Project, Email, Visitor
    <3>3. CASE u \in users
      BY <2>1, <2>3, <3>2, <3>3
    <3>4. CASE u \in Confirmed(s)
      <4>1. PICK v \in users :
              /\ u.project = v.project /\ u.email = v.email /\ u.by = v.by
              /\ u = IF v.project = Project(s) /\ v.email = "mailbox"
                     THEN [v EXCEPT !.confirmed = TRUE] ELSE v
        BY <3>4, ConfirmedIsTheSame
      <4>2. AboutToGo(t, v)
        BY <2>1, <2>3, <4>1
      <4>3. v = Visitor(t) => u = v
        <5>1. v \in User
          BY DEF Typed
        <5>2. ASSUME v = Visitor(t) PROVE [v EXCEPT !.confirmed = TRUE] = v
          <6>1. v.confirmed
            BY <5>2 DEF Visitor
          <6> QED BY <5>1, <6>1 DEF User
        <5> DEFINE w == [v EXCEPT !.confirmed = TRUE]
        <5>3. u = w \/ u = v
          BY <4>1
        <5>4. v = Visitor(t) => w = v
          BY <5>2
        <5> HIDE DEF w
        <5> QED BY <5>3, <5>4
      <4> QED BY <3>2, <4>1, <4>2, <4>3 DEF AboutToGo
    <3>5. CASE u = Visitor(s)
      BY <2>5, <3>5 DEF Visitor
    <3> QED BY <1>1, <2>5, <3>3, <3>4, <3>5, Population
  <2> QED BY <2>4, <2>5
<1>2. ASSUME NEW process, Kill(process) PROVE LeavesNothing'
  <2>1. kills' > 0
    BY <1>2, KillOwn
  <2> QED BY <2>1 DEF LeavesNothing
<1>3. CASE UNCHANGED vars
  BY <1>3 DEF vars, LeavesNothing, AboutToGo, Project, Email, Visitor
<1> QED BY <1>1, <1>2, <1>3 DEF Next

-----------------------------------------------------------------------------
(***************************************************************************)
(* The invariant, and what it is for.                                      *)
(***************************************************************************)
LEMMA InitInd == Init => Ind
<1> SUFFICES ASSUME Init PROVE Ind
  OBVIOUS
<1>1. Typed
  BY InitTyped
<1>2. \A s \in Scans : run[s] = Fresh /\ report[s] = {}
  BY DEF Init
<1>3. /\ Fresh.pc = "lookup" /\ ~Fresh.token /\ ~Fresh.inbox /\ ~Fresh.created
      /\ ~Fresh.ephemeral /\ Fresh.email = "derived"
  BY DEF Fresh
<1>4. DOMAIN Fresh.copy = {} /\ DOMAIN store.accounts = {}
  <2>1. <<>> \in [{} -> Account1]
    OBVIOUS
  <2>2. Fresh.copy = <<>> /\ store.accounts = <<>>
    BY DEF Fresh, Init
  <2> QED BY <2>1, <2>2
<1>5. made = {} /\ users = {}
  BY DEF Init
<1>6. ASSUME NEW s \in Scans PROVE Sane(s)
  BY <1>2, <1>3, <1>5 DEF Sane, WayIsItsOwn, VerdictHolds, DoneByItself,
                          InboxIsClosed, NoFalseGain
<1>7. AddressesAreOnce
  BY <1>2, <1>3, <1>4, <1>5 DEF AddressesAreOnce, Once, Known
<1>8. LeavesNothing
  BY <1>5 DEF LeavesNothing
<1>9. OneWriter /\ NothingForgotten
  BY <1>2, <1>3 DEF OneWriter, NothingForgotten, Holds, Remembered
<1> QED BY <1>1, <1>6, <1>7, <1>8, <1>9 DEF Ind

LEMMA IndStep == Ind /\ [Next]_vars => Ind'
BY TypedStep, SaneStep, AddressesAreOnceStep, LeavesNothingStep, OneWriterStep,
   NothingForgottenStep DEF Ind

\* Two who cannot be told apart are one; of two kinds there are two.
LEMMA AtMostOne ==
  ASSUME NEW S, \A x, y \in S : x = y
  PROVE  IsFiniteSet(S) /\ Cardinality(S) <= 1
<1>1. CASE S = {}
  BY <1>1, FS_EmptySet
<1>2. CASE S # {}
  <2>1. PICK x \in S : TRUE
    BY <1>2
  <2>2. S = {x}
    BY <2>1
  <2>3. IsFiniteSet({x}) /\ Cardinality({x}) = 1
    BY FS_Singleton
  <2> QED BY <2>2, <2>3
<1> QED BY <1>1, <1>2

LEMMA AtMostTwo ==
  ASSUME NEW S, NEW T, \A x, y \in S : x = y, \A x, y \in T : x = y
  PROVE  Cardinality(S \cup T) <= 2
<1>1. /\ IsFiniteSet(S) /\ Cardinality(S) <= 1
      /\ IsFiniteSet(T) /\ Cardinality(T) <= 1
  BY AtMostOne
<1>2. /\ Cardinality(S \cup T) = Cardinality(S) + Cardinality(T) - Cardinality(S \cap T)
      /\ IsFiniteSet(S \cap T)
  BY <1>1, FS_Union, FS_Intersection
<1>3. {Cardinality(S), Cardinality(T), Cardinality(S \cap T)} \subseteq Nat
  BY <1>1, <1>2, FS_CardinalityType
<1> QED BY <1>1, <1>2, <1>3

LEMMA TypesHold == Ind => TypeOK
<1> SUFFICES ASSUME Ind PROVE TypeOK
  OBVIOUS
<1>1. Typed
  BY DEF Ind
<1>2. \A u \in users : u.email \in Addresses \cup Scans /\ u.confirmed \in BOOLEAN
  BY <1>1 DEF Typed, User
<1>3. \A p \in DOMAIN store.accounts : store.accounts[p].pw \in Passwords
  BY <1>1, StoredIsTyped DEF Typed
<1>4. ASSUME NEW s \in Scans PROVE Cardinality(Mutex(s)) <= 1
  <2>1. \A x, y \in Mutex(s) : x = y
    BY DEF Ind, OneWriter, Holds, Mutex
  <2> QED BY <2>1, AtMostOne
<1> QED BY <1>1, <1>2, <1>3, <1>4 DEF TypeOK, Typed

LEMMA AddressesAreFew == Ind => OneAccountPerProject
<1> SUFFICES ASSUME Ind, NEW p \in DOMAIN policy
             PROVE  Cardinality({u \in users : u.project = p /\ u.pw # "none"})
                      <= IF SomeMailbox THEN 2 ELSE 1
  BY DEF OneAccountPerProject, SomeMailbox
<1> DEFINE At(a) == {u \in users : u.project = p /\ u.pw # "none" /\ u.email = a}
           All == {u \in users : u.project = p /\ u.pw # "none"}
<1>1. \A a : \A x, y \in At(a) : x = y
  BY DEF Ind, AddressesAreOnce, Once
<1>2. All = At("derived") \cup At("mailbox")
  BY DEF Ind, AddressesAreOnce, Known, Addresses
<1>3. ~SomeMailbox => All = At("derived")
  BY <1>2 DEF Ind, AddressesAreOnce, Known
<1> HIDE DEF At, All
<1>4. Cardinality(All) <= 2
  BY <1>1, <1>2, AtMostTwo
<1>5. ~SomeMailbox => Cardinality(All) <= 1
  BY <1>1, <1>3, AtMostOne
<1> QED BY <1>4, <1>5 DEF All

\* However scans interleave, die, and lose replies: no project gets a second
\* account for an address, one scan of a process writes the store at a time,
\* the verdict on a password is the password's, and no gain is everybody's.
THEOREM AccountsStaySound == Spec => []AccountsAreSound
<1>1. Ind => AccountsAreSound
  <2> SUFFICES ASSUME Ind PROVE AccountsAreSound
    OBVIOUS
  <2>1. WeakVerdictIsStable
    BY DEF Ind, Sane, VerdictHolds, WeakVerdictIsStable, Over
  <2>2. GainIsReal
    BY DEF Ind, Sane, NoFalseGain, GainIsReal
  <2> QED BY <2>1, <2>2, TypesHold, AddressesAreFew DEF AccountsAreSound
<1> QED BY <1>1, InitInd, IndStep, PTL DEF Spec

\* Nothing stays where the operator forbids it, unless a reply was lost or a
\* process killed; nothing is said to be left that was not made; and no inbox
\* outlives the scan that opened it without at least a warning in the log.
THEOREM ResidueStaysKnown == Spec => []ResidueIsKnown
<1>1. Ind => ResidueIsKnown
  <2> SUFFICES ASSUME Ind PROVE ResidueIsKnown
    OBVIOUS
  <2>1. ASSUME NEW s \in Scans, job[s].noResidue
        PROVE  /\ ~run[s].inbox
               /\ Supabase(s) => s \notin made
               /\ Over(s) /\ lost = 0 /\ kills = 0 => \A u \in users : u.by # s
    <3>1. ~run[s].inbox /\ (Supabase(s) => s \notin made)
      BY <2>1 DEF Ind, Sane, WayIsItsOwn
    <3>2. ASSUME Over(s), lost = 0, kills = 0, NEW u \in users, u.by = s PROVE FALSE
      <4>1. AboutToGo(s, u)
        BY <2>1, <3>2 DEF Ind, LeavesNothing
      <4> QED BY <3>2, <4>1 DEF AboutToGo, Over
    <3> QED BY <3>1, <3>2
  <2>2. LeftBehindIsTrue
    BY DEF Ind, Sane, DoneByItself, LeftBehindIsTrue
  <2>3. InboxIsRemoved
    BY DEF Ind, Sane, InboxIsClosed, OthersInbox, InboxIsRemoved, Over
  <2> QED BY <2>1, <2>2, <2>3 DEF ResidueIsKnown, NoResidueIsKept
<1> QED BY <1>1, InitInd, IndStep, PTL DEF Spec

\* As long as one process writes it and nothing is killed, what a write leaves
\* in the store has the account of every scan that is done with one.
THEOREM StoreKeepsAccounts == Spec => StoreForgetsNothing
<1> DEFINE Keeps == OneProcess /\ kills = 0 =>
                      \A s \in Scans : Write(s) =>
                        \A t \in Scans : Over(t) /\ run[t].token /\ ~run[t].ephemeral =>
                          Project(t) \in DOMAIN store'.accounts
<1>1. Ind => Keeps
  <2> SUFFICES ASSUME Ind, OneProcess, kills = 0, NEW s \in Scans, Write(s),
                      NEW t \in Scans, Over(t), run[t].token, ~run[t].ephemeral
               PROVE  Project(t) \in DOMAIN store'.accounts
    OBVIOUS
  <2>1. Holds(s) /\ Remembered(t)
    BY DEF Write, Holds, Remembered, Over
  <2>2. Project(t) \in DOMAIN run[s].copy
    BY <2>1 DEF Ind, NothingForgotten
  <2>3. DOMAIN store'.accounts = DOMAIN run[s].copy \cup {Project(s)}
    BY DEF Write
  <2> QED BY <2>2, <2>3
<1>2. Ind /\ [Next]_vars => [Keeps]_vars
  BY <1>1
<1> QED BY <1>2, InitInd, IndStep, PTL DEF Spec, StoreForgetsNothing
=============================================================================
