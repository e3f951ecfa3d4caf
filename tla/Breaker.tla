------------------------------- MODULE Breaker -------------------------------
(***************************************************************************)
(* What the circuit breaker of internal/client promises to the rest of the *)
(* scanner, apart from how the lock-free counters of Client.record keep    *)
(* the promise: it gives up on a host only on evidence, the evidence is    *)
(* never taken back, and an open breaker never closes.                     *)
(***************************************************************************)
EXTENDS Naturals

CONSTANTS RefusalBudget, \* refusals before the host is considered a wall
          AuthBudget     \* 401 answers before the key is considered dead

VARIABLES refusedSeen,   \* requests the host refused or left unanswered
          rejectedSeen,  \* requests the host answered 401
          gaveUp,        \* the breaker
          keyRejected    \* the reason: our credential, not the host

vars == <<refusedSeen, rejectedSeen, gaveUp, keyRejected>>

Init == /\ refusedSeen = 0 /\ rejectedSeen = 0
        /\ gaveUp = FALSE /\ keyRejected = FALSE

Refused == /\ refusedSeen' = refusedSeen + 1
           /\ UNCHANGED <<rejectedSeen, gaveUp, keyRejected>>

Rejected == /\ rejectedSeen' = rejectedSeen + 1
            /\ UNCHANGED <<refusedSeen, gaveUp, keyRejected>>

OpenForRefusals == /\ refusedSeen >= RefusalBudget
                   /\ gaveUp' = TRUE
                   /\ UNCHANGED <<refusedSeen, rejectedSeen, keyRejected>>

BlameCredential == /\ rejectedSeen >= AuthBudget
                   /\ keyRejected' = TRUE
                   /\ UNCHANGED <<refusedSeen, rejectedSeen, gaveUp>>

OpenForCredential == /\ keyRejected
                     /\ gaveUp' = TRUE
                     /\ UNCHANGED <<refusedSeen, rejectedSeen, keyRejected>>

Next == \/ Refused \/ Rejected
        \/ OpenForRefusals \/ BlameCredential \/ OpenForCredential

Spec == Init /\ [][Next]_vars
=============================================================================
