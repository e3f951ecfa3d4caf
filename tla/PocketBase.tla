------------------------------ MODULE PocketBase ------------------------------
(***************************************************************************)
(* A PocketBase instance: what a stranger lists, then what an account adds *)
(* to that.  A rule with an expression filters: it answers 200 and no rows *)
(* to a stranger, and to a member the rows that are the member's own.      *)
(***************************************************************************)
EXTENDS Workload

Users == "users"   \* defaultCollections
Member == <<"account", "probe">>

\* The rows a list shows a caller (of the three it asks for, none or some).
Rows(n, caller) ==
  CASE target.rules[n] = "anyone" -> 2
    [] target.rules[n] = "member" -> IF caller = "member" THEN 2 ELSE 0
    [] target.rules[n] = "own"    -> IF caller = "member" /\ n = Users THEN 1 ELSE 0
    [] OTHER                      -> 0

\* ReadState and readAs: exposed only when rows came back.
Sample(n, caller, f) == IF <<n, caller>> \in DOMAIN f THEN 0 ELSE Rows(n, caller)

PocketBaseNames == DOMAIN target.rules
-----------------------------------------------------------------------------
\* readExposed and escalationGain
Exposed(n) == Found("anonymous-read", n)
EscalationGain(n) == Found("gain", n)

CollectionStage ==
  /\ pc = "collections"
  /\ \E f \in Failures(PocketBaseNames \X {"anyone"}) :
       /\ Suffer(f)
       /\ asked' = {n \in PocketBaseNames : <<n, "anyone">> \notin DOMAIN f}
       /\ Say({Exposed(n) : n \in {m \in PocketBaseNames : Sample(m, "anyone", f) > 0}})
  /\ pc' = "signUp"
  /\ UNCHANGED <<scan, footprint, todo, session>>

NoConsent ==
  /\ pc = "signUp" /\ ~opts.write
  /\ Say({NotAssessed("escalation")})
  /\ pc' = "done"
  /\ UNCHANGED <<scan, footprint, work, faults>>

\* The address is always the same: an account left by an earlier run refuses it.
CanSignUp == target.signup /\ ~target.account

\* errSignup: the same words for a sign-up and for a sign-in that failed.
NoSession == Say({NotAssessed("escalation")})

SignUp ==
  /\ pc = "signUp" /\ opts.write
  /\ \E f \in One("signUp") :
       /\ Suffer(f)
       /\ IF CanSignUp /\ Fine(f)
            THEN Creates(Member) /\ pc' = "signIn" /\ Say({})
            ELSE /\ NoSession /\ pc' = "done"
                 /\ IF CanSignUp /\ IsLost(f, "signUp")
                      THEN MayHaveCreated(Member) ELSE NothingCreated
  /\ UNCHANGED <<scan, work>>

\* A sign-in that is refused ends the stage: nothing removes the account.
Abandons ==
  /\ held' = {}
  /\ left' = left \cup {Member}
  /\ UNCHANGED named

SignInMember ==
  /\ pc = "signIn"
  /\ \E f \in One("signIn") :
       /\ Suffer(f)
       /\ IF target.signin /\ Fine(f)
            THEN /\ session' = "member" /\ pc' = "gain"
                 /\ Say({}) /\ UNCHANGED footprint
            ELSE /\ session' = "none" /\ pc' = "done"
                 /\ NoSession /\ Abandons
  /\ UNCHANGED <<scan, asked, todo>>

\* Mutant: what a member reads is a gain.
MemberReads(n, f) == Sample(n, "member", f) > 0

\* The gain is the difference: both callers ask the same thing.
Gains(n, f) == Sample(n, "member", f) > Sample(n, "anyone", f)

Gain ==
  /\ pc = "gain"
  /\ \E f \in Failures(PocketBaseNames \X {"anyone", "member"}) :
       /\ Suffer(f)
       /\ Say({EscalationGain(n) : n \in {m \in PocketBaseNames : Gains(m, f)}})
  /\ pc' = "remove"
  /\ UNCHANGED <<scan, footprint, work>>

\* remove, whatever it answers; then stillAuthenticates.
RemoveMember ==
  /\ pc = "remove"
  /\ \E f \in One("delete") :
       /\ Suffer(f)
       /\ \/ target.removable /\ ~Refuses(f, "delete") /\ Removes(Member)
          \/ (target.removable => ~Fine(f)) /\ NothingCreated
  /\ pc' = "verify"
  /\ UNCHANGED <<scan, work, report>>

\* residueLeft: the account still signs in.  A sign-in that does not answer, or
\* answers no, reads as an account that is gone.
StillThere(member) == {Found("left-behind", member)}

Verify ==
  /\ pc = "verify"
  /\ \E f \in One("verify") :
       LET still == Member \in held /\ Fine(f)
           says == IF still THEN StillThere(Member) ELSE {}
       IN  /\ Suffer(f)
           /\ Say(says)
           /\ CASE still -> GivesUp({Member}, says, <<>>)
                [] Member \in held /\ ~still -> Abandons
                [] OTHER -> NothingCreated
  /\ pc' = "done"
  /\ UNCHANGED <<scan, work>>

PocketBaseStep ==
  \/ CollectionStage \/ NoConsent \/ SignUp \/ SignInMember
  \/ Gain \/ RemoveMember \/ Verify
===============================================================================
