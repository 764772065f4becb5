-------------------------- MODULE DiscretePayment --------------------------
(***************************************************************************)
(* pay() from end to end: the client's spend cap (SpendLedger), its x402   *)
(* and mpp-charge clients with their retries (client/x402Client.ts,        *)
(* MppChargeClient.ts, challenge.ts, internal/retry.ts), and the           *)
(* provider's routes (SettlementReplay).                                   *)
(*                                                                         *)
(* Calls of mode mpp-session are vouchers of a session: they only reserve. *)
(* A stray is a request that repeats what a client sent: a duplicate, or   *)
(* the same payment on another route.  It all happens within one day: what *)
(* midnight does to reservations is in SpendLedger.                        *)
(***************************************************************************)
EXTENDS SpendLedger, SettlementReplay

CONSTANTS MaxAttempts, Strays

Attempts == 1..MaxAttempts

ASSUME PaymentAssumption ==
  /\ MaxAttempts \in Nat \ {0}
  /\ Paths = Routes /\ Payments = Calls \X Attempts
  /\ Requests = (Calls \X Attempts) \cup Strays

VARIABLES
  tries,           \* how often each call has sent its payment
  asked,           \* the amount it signed
  lost             \* calls whose last answer was lost on the way

clientVars == <<tries, asked, lost>>
vars == <<ledgerVars, replayVars, clientVars>>

\* Mutant: a retry signs again.
SignedAgain(c, n) == <<c, n>>

\* The payment of a call's n-th request: it signs once.
Signed(c, n) == <<c, 1>>

Init ==
  /\ LedgerInit /\ ReplayInit
  /\ \A c \in Calls : \A n \in Attempts : request[<<c, n>>].key = <<Signed(c, n), call[c].route>>
  /\ \A q \in Strays : \E c \in Calls : Payment(q) = Signed(c, 1)
  /\ tries = [c \in Calls |-> 0] /\ asked = [c \in Calls |-> 0] /\ lost = {}

Waiting(c) == call[c].st = "pay" /\ tries[c] > 0
Answer(c) == request[<<c, tries[c]>>].at

----------------------------------------------------------------------------
\* The client

Plan(c) ==
  /\ \/ RefuseEarly(c) \/ Begin(c) \/ LockAndRead(c) \/ Reserve(c) \/ Release(c) \/ StoreThrows(c)
  /\ UNCHANGED <<replayVars, clientVars>>

\* Mutant: the amount of the challenge is not compared.
PayableAny(c) == 1..(Amount(c) + 1)

\* checkX402Accept and checkChargeChallenge: never more than the manifest says.
Payable(c) == 1..Amount(c)

\* Sign what the 402 asks for and send it.
Pay(c) ==
  /\ call[c].st = "pay" /\ tries[c] = 0
  /\ tries' = [tries EXCEPT ![c] = 1]
  /\ \E amount \in Payable(c) : asked' = [asked EXCEPT ![c] = amount]
  /\ Receive(<<c, 1>>)
  /\ UNCHANGED <<ledgerVars, lost>>

\* No 402: x402 reports a free call, mpp-charge the manifest's price.
Free(c) ==
  /\ call[c].st = "pay" /\ tries[c] = 0
  /\ IF call[c].mode = "x402" THEN GiveUp(c) ELSE Commit(c)
  /\ UNCHANGED <<replayVars, clientVars>>

\* No answer, an error, or a challenge that the manifest does not allow.
Unpayable(c) == tries[c] = 0 /\ GiveUp(c) /\ UNCHANGED <<replayVars, clientVars>>

LoseAnswer(c) ==
  /\ Waiting(c) /\ c \notin lost /\ faults < MaxFaults
  /\ lost' = lost \cup {c} /\ faults' = faults + 1
  /\ UNCHANGED <<ledgerVars, seenStore, seen, replays, order, request, settledAt, served,
                 tries, asked>>

\* A retryable error: the server's, or the connection's.
Unanswered(c) == Waiting(c) /\ (c \in lost \/ Answer(c) \in {"error", "dropped"})

Retry(c) ==
  /\ Unanswered(c) /\ tries[c] < MaxAttempts
  /\ tries' = [tries EXCEPT ![c] = @ + 1] /\ lost' = lost \ {c}
  /\ Receive(<<c, tries[c] + 1>>)
  /\ UNCHANGED <<ledgerVars, asked>>

Paid(c) ==
  /\ Waiting(c) /\ c \notin lost /\ Answer(c) = "served"
  /\ Commit(c)
  /\ UNCHANGED <<replayVars, clientVars>>

\* Mutant: an x402 payment is not sent a second time.
RejectedAtOnce(c) ==
  /\ Waiting(c)
  /\ \/ Unanswered(c)
     \/ c \notin lost /\ Answer(c) \in {"spent", "refused"}
  /\ GiveUp(c)
  /\ UNCHANGED <<replayVars, clientVars>>

\* Attempts run out, at once for a charge whose unpaid requests failed too, or
\* the answer is a 402.
Rejected(c) ==
  /\ Waiting(c)
  /\ \/ Unanswered(c) /\ (tries[c] = MaxAttempts \/ call[c].mode = "mpp-charge")
     \/ c \notin lost /\ Answer(c) \in {"spent", "refused"}
  /\ GiveUp(c)
  /\ UNCHANGED <<replayVars, clientVars>>

\* A 2xx whose body is not JSON is an error, which is not retried.
Unreadable(c) ==
  /\ Waiting(c) /\ c \notin lost /\ Answer(c) = "served" /\ faults < MaxFaults
  /\ GiveUp(c)
  /\ faults' = faults + 1
  /\ UNCHANGED <<seenStore, seen, replays, order, request, settledAt, served, clientVars>>

----------------------------------------------------------------------------
\* The network, the provider and its clock

Sent(q) == \E c \in Calls : tries[c] > 0 /\ Payment(q) = Signed(c, 1)

Stray(q) == Sent(q) /\ Receive(q) /\ UNCHANGED <<ledgerVars, clientVars>>

Provide(q) ==
  /\ LookUp(q) \/ Claim(q) \/ CheckFails(q) \/ Settle(q) \/ Refuse(q) \/ SettleFails(q) \/ Record(q)
  /\ UNCHANGED <<ledgerVars, clientVars>>

Outdate(k) == (Age(k) \/ Sweep(k)) /\ UNCHANGED <<ledgerVars, clientVars>>

Next ==
  \/ \E c \in Calls : Plan(c) \/ Pay(c) \/ Free(c) \/ Unpayable(c) \/ LoseAnswer(c) \/ Retry(c)
                      \/ Paid(c) \/ Rejected(c) \/ Unreadable(c)
  \/ \E q \in Requests : Provide(q)
  \/ \E q \in Strays : Stray(q)
  \/ \E k \in Keys : Outdate(k)
  \/ Restart /\ UNCHANGED <<ledgerVars, clientVars>>

Spec == Init /\ [][Next]_vars

----------------------------------------------------------------------------
Settled(c) == \E n \in Attempts : settledAt[<<c, n>>] # Nowhere

\* Types of the composed state.
TypeOK ==
  /\ LedgerTypeOK /\ ReplayTypeOK
  /\ tries \in [Calls -> 0..MaxAttempts] /\ asked \in [Calls -> Nat] /\ lost \subseteq Calls

\* However often it retries, and whatever was lost, a call pays once.
OnePaymentPerCall ==
  \A c \in Calls : \A m, n \in Attempts :
    settledAt[<<c, m>>] # Nowhere /\ settledAt[<<c, n>>] # Nowhere => m = n

\* The stroops that the chain moved for the calls of a set: how many.
MovedStroops(S) == UNION {{c} \X (1..asked[c]) : c \in S}
Moved(S) == Cardinality(MovedStroops(S))

GivenBack(c) == call[c].st \in {"released", "late"}

Strayed(c) == \E q \in Strays : request[q].at # "unsent" /\ Payment(q) = Signed(c, 1)

\* The last request of the call went without an answer that it can use.
Unheard(c) == c \in lost \/ Answer(c) \in {"error", "dropped"}

\* What can make a call give back what its settled payment cost: a stray used the
\* payment, or every attempt it had failed; the answer had no JSON body; a retry got
\* a 402.  A failed attempt is a fault of its own, and x402 makes all it may make.
Disturbed(c) ==
  \/ Strayed(c)
  \/ Unheard(c) /\ faults >= IF call[c].mode = "x402" THEN MaxAttempts ELSE tries[c]
  \/ Answer(c) = "served" /\ faults >= tries[c]
  \/ Answer(c) \in {"spent", "refused"} /\ tries[c] > 1 /\ faults >= tries[c] - 1

\* What the chain moved for the calls is in the ledger, whatever is lost, repeated,
\* evicted or restarted around them, and also for a call that tries again: except for
\* a call that gave its reservation back after being disturbed itself.
MovedIsCounted ==
  Moved({c \in Calls : Settled(c) /\ ~(GivenBack(c) /\ Disturbed(c))}) <= ledger.total

\* The same without the exception: pay()'s comment says that it "Rolls back the
\* reservation if the on-chain payment fails", and only then.
AllMovedIsCounted == Moved({c \in Calls : Settled(c)}) <= ledger.total
=============================================================================
