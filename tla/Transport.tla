------------------------------ MODULE Transport ------------------------------
(***************************************************************************)
(* internal/client: Client.Do called by concurrent workers that share one  *)
(* set of atomic counters (client.go, type counters), with its retries,    *)
(* its backoff and the circuit breaker of Client.record.  Every atomic     *)
(* operation on a shared counter is a step of its own, because nothing in  *)
(* the code makes two of them happen together.                             *)
(*                                                                         *)
(* Left out: headers, bodies, URLs and the length of a wait.               *)
(***************************************************************************)
EXTENDS Naturals, FiniteSets

CONSTANTS Workers,       \* goroutines of client.Map and of the stages
          Retries,       \* Options.Retries
          RefusalBudget, \* Client.refusalBudget()
          AuthBudget,    \* authRejectBudget
          MaxCalls       \* bound: calls of Do in one behaviour

ASSUME WorkersAssumption == IsFiniteSet(Workers)
ASSUME BudgetAssumption  == /\ Retries \in Nat /\ MaxCalls \in Nat
                            /\ RefusalBudget \in Nat \ {0}
                            /\ AuthBudget \in Nat \ {0}

VARIABLES
  \* type counters, shared by every client derived from the first
  sent, failed, refusals, useful, gaveUp, authRejects, accepted, keyRejected,
  cancelled,    \* the scan's context is done
  \* locals of the Do each worker is executing
  pc, attempt, answer, n,
  \* history: what really happened, which no variable of the code holds
  calls,        \* calls of Do so far
  refusedSeen,  \* attempts answered 429 or 5xx, or not answered
  rejectedSeen, \* attempts answered 401
  unanswered,   \* calls that sent something and returned no response
  late          \* per worker, requests sent after the breaker opened

counters == <<sent, failed, refusals, useful, gaveUp, authRejects, accepted,
              keyRejected>>
history  == <<calls, refusedSeen, rejectedSeen, unanswered, late>>
vars     == <<counters, cancelled, pc, attempt, answer, n, history>>

\* What one attempt can bring back: an answer to classify, a 401, a 429 or
\* 5xx, or a transport error.
Answers == {"served", "unauthorized", "refused", "error"}

PCs == {"idle", "pace", "flight", "refusalAdd", "refusalCheck", "open",
        "useful", "reset", "authLoad", "authAdd", "accept", "keyStore",
        "keyOpen", "after", "backoff"}

IsRefusal(a) == a \in {"refused", "error"}

Init == /\ sent = 0 /\ failed = 0 /\ refusals = 0 /\ useful = 0
        /\ authRejects = 0 /\ accepted = 0
        /\ gaveUp = FALSE /\ keyRejected = FALSE /\ cancelled = FALSE
        /\ pc = [w \in Workers |-> "idle"]
        /\ attempt = [w \in Workers |-> 0]
        /\ answer = [w \in Workers |-> "error"]
        /\ n = [w \in Workers |-> 0]
        /\ calls = 0 /\ refusedSeen = 0 /\ rejectedSeen = 0
        /\ unanswered = 0
        /\ late = [w \in Workers |-> 0]

Goto(w, label) == pc' = [pc EXCEPT ![w] = label]

\* Mutant: the loop runs once too often.
LastAttemptPlusOne(w) == attempt[w] = Retries + 1

LastAttempt(w) == attempt[w] = Retries

\* Each way Do returns out of the retry path; the value returned is the
\* attempt's own, so the call is unanswered when that one was.
Return(w) ==
  /\ Goto(w, "idle")
  /\ unanswered' = IF answer[w] = "error" THEN unanswered + 1 ELSE unanswered

-----------------------------------------------------------------------------
(***************************************************************************)
(* Mutants: steps below with a plausible bug in them, which the properties *)
(* at the end of the module must tell from the code.                       *)
(***************************************************************************)
\* The attempt is recorded again when its call ends.
RefusalAddTwice(w) ==
  /\ pc[w] = "refusalAdd"
  /\ refusals' = refusals + 2
  /\ n' = [n EXCEPT ![w] = refusals + 2]
  /\ Goto(w, "refusalCheck")
  /\ UNCHANGED <<sent, failed, useful, gaveUp, authRejects, accepted,
                 keyRejected, cancelled, attempt, answer, history>>

\* The safety catch on useful is missing.
RefusalCheckNoCatch(w) ==
  /\ pc[w] = "refusalCheck"
  /\ Goto(w, IF n[w] >= RefusalBudget THEN "open" ELSE "after")
  /\ UNCHANGED <<counters, cancelled, attempt, answer, n, history>>

\* A 429 that outlived its retries is counted as no response.
OutOfAttemptsAll(w) ==
  /\ pc[w] = "after" /\ ~gaveUp /\ LastAttempt(w)
  /\ Return(w)
  /\ failed' = failed + 1
  /\ UNCHANGED <<sent, refusals, useful, gaveUp, authRejects, accepted,
                 keyRejected, attempt>>

\* The breaker is not read again after a refused attempt.
TryAgainBlind(w) ==
  /\ pc[w] = "after" /\ ~LastAttempt(w)
  /\ \/ /\ answer[w] = "error"
        /\ Goto(w, "pace")
        /\ attempt' = [attempt EXCEPT ![w] = @ + 1]
     \/ /\ answer[w] = "refused"
        /\ Goto(w, "backoff")
        /\ UNCHANGED attempt
  /\ UNCHANGED <<counters, unanswered>>

\* The wait gives up on cancellation without returning.
BackoffStuck(w) ==
  /\ pc[w] = "backoff" /\ ~cancelled
  /\ Goto(w, "pace")
  /\ attempt' = [attempt EXCEPT ![w] = @ + 1]
  /\ UNCHANGED <<unanswered, counters>>

-----------------------------------------------------------------------------
(***************************************************************************)
(* Do: refuse without sending once the breaker is open, otherwise enter    *)
(* the attempt loop.                                                       *)
(***************************************************************************)
Call(w) ==
  /\ pc[w] = "idle" /\ calls < MaxCalls
  /\ calls' = calls + 1
  /\ \/ /\ gaveUp                                   \* ErrRefused
        /\ UNCHANGED <<pc, attempt, answer>>
     \/ /\ ~gaveUp
        /\ Goto(w, "pace")
        /\ attempt' = [attempt EXCEPT ![w] = 0]
        /\ answer' = [answer EXCEPT ![w] = "error"]
  /\ UNCHANGED <<counters, cancelled, n, refusedSeen, rejectedSeen,
                 unanswered, late>>

\* http.NewRequestWithContext rejects the URL: Do returns, nothing was sent.
BadRequest(w) ==
  /\ pc[w] = "pace" /\ attempt[w] = 0
  /\ Goto(w, "idle")
  /\ UNCHANGED <<counters, cancelled, attempt, answer, n, history>>

\* The limiter admits the request (its error is ignored, so a cancelled
\* context does not stop it) and the request goes out.
Send(w) ==
  /\ pc[w] = "pace"
  /\ sent' = sent + 1
  /\ late' = [late EXCEPT ![w] = IF gaveUp THEN @ + 1 ELSE @]
  /\ Goto(w, "flight")
  /\ UNCHANGED <<failed, refusals, useful, gaveUp, authRejects, accepted,
                 keyRejected, cancelled, attempt, answer, n, calls,
                 refusedSeen, rejectedSeen, unanswered>>

\* http.Do returns.  A done context or the client's Timeout ends it in an
\* error; record then takes the refused or the useful path.
Receive(w) ==
  /\ pc[w] = "flight"
  /\ \E a \in Answers :
       /\ answer' = [answer EXCEPT ![w] = a]
       /\ refusedSeen' = IF IsRefusal(a) THEN refusedSeen + 1 ELSE refusedSeen
       /\ rejectedSeen' = IF a = "unauthorized" THEN rejectedSeen + 1
                                                ELSE rejectedSeen
       /\ Goto(w, IF IsRefusal(a) THEN "refusalAdd" ELSE "useful")
  /\ UNCHANGED <<counters, cancelled, attempt, n, calls, unanswered, late>>

(***************************************************************************)
(* record, the refused path: n := refusals.Add(1); if useful.Load() is 0   *)
(* and n has reached the budget, gaveUp.Store(true).                       *)
(***************************************************************************)
RefusalAdd(w) ==
  /\ pc[w] = "refusalAdd"
  /\ refusals' = refusals + 1
  /\ n' = [n EXCEPT ![w] = refusals + 1]
  /\ Goto(w, "refusalCheck")
  /\ UNCHANGED <<sent, failed, useful, gaveUp, authRejects, accepted,
                 keyRejected, cancelled, attempt, answer, history>>

RefusalCheck(w) ==
  /\ pc[w] = "refusalCheck"
  /\ Goto(w, IF useful = 0 /\ n[w] >= RefusalBudget THEN "open" ELSE "after")
  /\ UNCHANGED <<counters, cancelled, attempt, answer, n, history>>

OpenBreaker(w) ==
  /\ pc[w] = "open"
  /\ gaveUp' = TRUE
  /\ Goto(w, "after")
  /\ UNCHANGED <<sent, failed, refusals, useful, authRejects, accepted,
                 keyRejected, cancelled, attempt, answer, n, history>>

(***************************************************************************)
(* record, the useful path: useful.Add(1), refusals.Store(0), noteAuth.    *)
(***************************************************************************)
UsefulAdd(w) ==
  /\ pc[w] = "useful"
  /\ useful' = useful + 1
  /\ Goto(w, "reset")
  /\ UNCHANGED <<sent, failed, refusals, gaveUp, authRejects, accepted,
                 keyRejected, cancelled, attempt, answer, n, history>>

ResetRefusals(w) ==
  /\ pc[w] = "reset"
  /\ refusals' = 0
  /\ Goto(w, IF answer[w] = "unauthorized" THEN "authLoad" ELSE "accept")
  /\ UNCHANGED <<sent, failed, useful, gaveUp, authRejects, accepted,
                 keyRejected, cancelled, attempt, answer, n, history>>

\* noteAuth on a 401: the short-circuit && reads accepted before it counts.
\* A useful answer is what Do returns, so its last step ends the call.
AuthLoad(w) ==
  /\ pc[w] = "authLoad"
  /\ Goto(w, IF accepted = 0 THEN "authAdd" ELSE "idle")
  /\ UNCHANGED <<counters, cancelled, attempt, answer, n, history>>

AuthAdd(w) ==
  /\ pc[w] = "authAdd"
  /\ authRejects' = authRejects + 1
  /\ Goto(w, IF authRejects + 1 >= AuthBudget THEN "keyStore" ELSE "idle")
  /\ UNCHANGED <<sent, failed, refusals, useful, gaveUp, accepted,
                 keyRejected, cancelled, attempt, answer, n, history>>

KeyStore(w) ==
  /\ pc[w] = "keyStore"
  /\ keyRejected' = TRUE
  /\ Goto(w, "keyOpen")
  /\ UNCHANGED <<sent, failed, refusals, useful, gaveUp, authRejects,
                 accepted, cancelled, attempt, answer, n, history>>

KeyOpen(w) ==
  /\ pc[w] = "keyOpen"
  /\ gaveUp' = TRUE
  /\ Goto(w, "idle")
  /\ UNCHANGED <<sent, failed, refusals, useful, authRejects, accepted,
                 keyRejected, cancelled, attempt, answer, n, history>>

\* noteAuth on anything else: accepted.Add(1).
Accept(w) ==
  /\ pc[w] = "accept"
  /\ accepted' = accepted + 1
  /\ Goto(w, "idle")
  /\ UNCHANGED <<sent, failed, refusals, useful, gaveUp, authRejects,
                 keyRejected, cancelled, attempt, answer, n, history>>

(***************************************************************************)
(* The rest of the attempt loop after record: return at once when the      *)
(* breaker is open, otherwise retry while attempts are left.               *)
(***************************************************************************)
\* `if c.gaveUp.Load() { return }`: the failed counter is not touched.
StopHere(w) ==
  /\ pc[w] = "after" /\ gaveUp
  /\ Return(w)
  /\ UNCHANGED <<counters, attempt>>

\* The loop runs out: after an error the call falls through to
\* failed.Add(1), after a 429 or 5xx it has returned the response.
OutOfAttempts(w) ==
  /\ pc[w] = "after" /\ ~gaveUp /\ LastAttempt(w)
  /\ Return(w)
  /\ failed' = IF answer[w] = "error" THEN failed + 1 ELSE failed
  /\ UNCHANGED <<sent, refusals, useful, gaveUp, authRejects, accepted,
                 keyRejected, attempt>>

\* A transport error is retried at once, a 429 or 5xx after a backoff.
TryAgain(w) ==
  /\ pc[w] = "after" /\ ~gaveUp /\ ~LastAttempt(w)
  /\ \/ /\ answer[w] = "error"
        /\ Goto(w, "pace")
        /\ attempt' = [attempt EXCEPT ![w] = @ + 1]
     \/ /\ answer[w] = "refused"
        /\ Goto(w, "backoff")
        /\ UNCHANGED attempt
  /\ UNCHANGED <<counters, unanswered>>

\* sleepCtx: the timer fires (gaveUp is not read again), or the context
\* ends the wait and Do returns the refusal it has.
Backoff(w) ==
  /\ pc[w] = "backoff"
  /\ \/ /\ Goto(w, "pace")
        /\ attempt' = [attempt EXCEPT ![w] = @ + 1]
        /\ UNCHANGED unanswered
     \/ /\ cancelled
        /\ Return(w)
        /\ UNCHANGED attempt
  /\ UNCHANGED counters

After(w) ==
  /\ StopHere(w) \/ OutOfAttempts(w) \/ TryAgain(w) \/ Backoff(w)
  /\ UNCHANGED <<cancelled, answer, n, calls, refusedSeen, rejectedSeen,
                 late>>

\* A signal, or the deadline of the scan.
Cancel ==
  /\ ~cancelled
  /\ cancelled' = TRUE
  /\ UNCHANGED <<counters, pc, attempt, answer, n, history>>

Record(w) == \/ RefusalAdd(w) \/ RefusalCheck(w) \/ OpenBreaker(w)
             \/ UsefulAdd(w) \/ ResetRefusals(w)
             \/ AuthLoad(w) \/ AuthAdd(w) \/ KeyStore(w) \/ KeyOpen(w)
             \/ Accept(w)

\* What a worker inside Do does by itself.
Advance(w) == BadRequest(w) \/ Send(w) \/ Receive(w) \/ Record(w) \/ After(w)

Next == Cancel \/ \E w \in Workers : Call(w) \/ Advance(w)

Spec == Init /\ [][Next]_vars

\* Every goroutine inside Do is scheduled; the limiter admits each reserved
\* request; http.Client.Timeout, which New never leaves at zero, ends every
\* flight.  Nothing obliges a caller to call.
FairSpec == Spec /\ \A w \in Workers : WF_vars(Advance(w))

-----------------------------------------------------------------------------
NumbersTyped ==
  /\ sent \in Nat /\ failed \in Nat /\ refusals \in Nat /\ useful \in Nat
  /\ authRejects \in Nat /\ accepted \in Nat /\ calls \in Nat
  /\ refusedSeen \in Nat /\ rejectedSeen \in Nat
  /\ unanswered \in Nat

LocalsTyped == /\ pc \in [Workers -> PCs]
               /\ attempt \in [Workers -> 0..Retries]
               /\ answer \in [Workers -> Answers]
               /\ n \in [Workers -> Nat]
               /\ late \in [Workers -> Nat]

FlagsTyped == /\ gaveUp \in BOOLEAN /\ keyRejected \in BOOLEAN
              /\ cancelled \in BOOLEAN

\* The atomics of counters and the locals of Do keep their types; attempt
\* never leaves 0..Retries, so no call sends more than Retries + 1 requests.
TypeOK == NumbersTyped /\ LocalsTyped /\ FlagsTyped

\* Once the breaker is open a worker puts at most one more request on the
\* wire, however many retries it has left: Do reads gaveUp at entry and after
\* each refused attempt, and not again between a backoff and its retry.
StopsWithinOneRequest == \A w \in Workers : late[w] <= 1

\* The breaker opens only on evidence: RefusalBudget attempts that really
\* were refused (none counted twice by a retrying call) or AuthBudget answers
\* that really were 401, and it never closes again.
B == INSTANCE Breaker
BreakerSpec == B!Spec

\* failed never counts a call that got a response, and while the breaker is
\* closed it counts every call that got none: the two numbers Stats prints.
FailedCountsUnanswered ==
  /\ failed <= unanswered
  /\ ~gaveUp => failed = unanswered

\* Every call of Do returns: no cycle of retries, no wait a cancelled scan or
\* an open breaker leaves a worker in.
EveryCallReturns == \A w \in Workers : pc[w] # "idle" ~> pc[w] = "idle"

\* With one caller at a time the safety catch of type counters is exact: a
\* host that has given one useful answer is never given up on for its
\* refusals, and a key accepted once is never reported as rejected.
NeverAbandonsATalker ==
  /\ gaveUp /\ ~keyRejected => useful = 0
  /\ keyRejected => accepted = 0
=============================================================================
