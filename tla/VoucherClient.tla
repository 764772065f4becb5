---------------------------- MODULE VoucherClient ----------------------------
(***************************************************************************)
(* One client session of client/MppSessionClient.ts: a stream that issues  *)
(* vouchers, sequentially or through a sliding window, and close().        *)
(*                                                                         *)
(* JavaScript runs one task at a time: an action is the code between two   *)
(* awaits, and what is awaited (402 challenges, the cumulative store, the  *)
(* credential signature, responses, the spend hook) arrives in any order.  *)
(* Amounts are counted in vouchers: every challenge must ask for the       *)
(* manifest rate, so each reservation adds exactly one rate.               *)
(***************************************************************************)
EXTENDS Integers

CONSTANTS
  Windows,          \* StreamOptions.concurrency values
  MaxAttempts,      \* RetryPolicy.maxAttempts
  StoredBaselines,  \* what SessionOptions.store may hold for the channel
  Reports,          \* cumulativeAmount values a provider may report
  MaxRequests       \* bound: voucher requests a stream issues

ASSUME ClientAssumption ==
  /\ Windows \subseteq Nat \ {0}
  /\ MaxAttempts \in Nat \ {0}
  /\ StoredBaselines \subseteq Nat
  /\ Reports \subseteq Nat
  /\ MaxRequests \in Nat

None == -1
Requests == 1..MaxRequests

VARIABLES
  reserved,      \* reservedCumulative, None until the first challenge
  stored,        \* the store's cumulative entry, None without a store
  seed,          \* storeSeed, the memoized first read of that entry
  baseline,      \* the cumulative this session starts from
  current,       \* currentCumulative
  issued,        \* vouchersIssued
  closed,        \* the closed flag
  req,           \* the doFetch() calls
  head, next,    \* queue = requests head .. next-1
  aborted,       \* the stream's AbortController fired
  pc,            \* where the stream generator is suspended
  closePc,       \* where close() is suspended
  closeSigned,   \* the cumulative close() signed
  closeBody,     \* the amount of its DELETE body
  nextAtClose,   \* the value of next when close() was first called
  window,        \* the stream's concurrency
  signed         \* cumulatives the commitment key signed for vouchers

reservation == <<reserved, stored, seed, baseline>>
stats       == <<current, issued>>
stream      == <<head, next, aborted, pc, window>>
closing     == <<closed, closePc, closeSigned, closeBody, nextAtClose>>
history     == <<signed>>
vars == <<reservation, stats, stream, closing, history, req>>

\* Free: not issued.  Challenge: unpaid request sent.  Seeding: awaiting the
\* store.  Creating: reserved, credential awaited.  Sent: paid request in flight.
States == {"free", "challenge", "seeding", "creating", "sent", "done", "failed"}

Request(st, val, tries, rep) == [st |-> st, val |-> val, tries |-> tries, rep |-> rep]
FreeRequest   == Request("free", 0, 0, 0)
FailedRequest == Request("failed", 0, 0, 0)
Attempt(n)    == Request("challenge", 0, n, 0)

Init ==
  /\ reserved = None
  /\ stored \in StoredBaselines \cup {None} /\ seed = "unread"
  /\ baseline = IF stored = None THEN 0 ELSE stored
  /\ current = 0 /\ issued = 0
  /\ closed = FALSE
  /\ req = [r \in Requests |-> FreeRequest]
  /\ head = 1 /\ next = 1
  /\ aborted = FALSE
  /\ pc = "off"
  /\ closePc = "off" /\ closeSigned = None /\ closeBody = None /\ nextAtClose = None
  /\ window \in Windows
  /\ signed = {}

----------------------------------------------------------------------------
\* One voucher request: withRetry around mppx.fetch

\* A retryable failure signs a new voucher on the next attempt, if one is left.
Retried(q) ==
  IF q.tries < MaxAttempts THEN Attempt(q.tries + 1) ELSE FailedRequest

\* Mutant: the reported cumulative is believed when it is ahead.
ReserveReported(r, reported, base) ==
  LET val == (IF reported > base THEN reported ELSE base) + 1
  IN /\ reserved' = val
     /\ req' = [req EXCEPT ![r] = Request("creating", val, req[r].tries, 0)]

\* The tail of reserveNextCumulative: nothing above the baseline is believed.
Reserve(r, reported, base) ==
  IF reported > base
    THEN /\ req' = [req EXCEPT ![r] = FailedRequest]
         /\ UNCHANGED reserved
    ELSE /\ reserved' = base + 1
         /\ req' = [req EXCEPT ![r] = Request("creating", base + 1, req[r].tries, 0)]

\* A 402 names the channel and the manifest rate; the reservation is advanced
\* in the same task unless the store has to be read first.
ReserveNextCumulative(r, reported) ==
  /\ req[r].st = "challenge"
  /\ \/ /\ reserved # None
        /\ Reserve(r, reported, reserved)
     \/ /\ reserved = None /\ stored # None
        /\ req' = [req EXCEPT ![r] = Request("seeding", 0, req[r].tries, reported)]
        /\ UNCHANGED reserved
     \/ /\ reserved = None /\ stored = None /\ reported = 0
        /\ Reserve(r, reported, 0)
     \/ /\ reserved = None /\ stored = None /\ reported # 0
        /\ req' = [req EXCEPT ![r] = FailedRequest]
        /\ UNCHANGED reserved
  /\ UNCHANGED <<stored, seed, baseline, stats, stream, closing, history>>

\* The 402 names another channel or another amount, or is malformed.
RejectChallenge(r) ==
  /\ req[r].st = "challenge"
  /\ req' = [req EXCEPT ![r] = FailedRequest]
  /\ UNCHANGED <<reservation, stats, stream, closing, history>>

\* The store answers; another voucher may have seeded the baseline meanwhile.
SeedFromStore(r) ==
  /\ req[r].st = "seeding" /\ seed # "failed"
  /\ Reserve(r, req[r].rep, IF reserved # None THEN reserved ELSE stored)
  /\ seed' = "read"
  /\ UNCHANGED <<stored, baseline, stats, stream, closing, history>>

\* The read fails, or names no amount: every request that seeds shares the outcome.
SeedFails(r, retryable) ==
  /\ req[r].st = "seeding" /\ seed # "read"
  /\ seed' = "failed"
  /\ req' = [req EXCEPT ![r] = IF retryable /\ ~aborted THEN Retried(@)
                                                        ELSE FailedRequest]
  /\ UNCHANGED <<reserved, stored, baseline, stats, stream, closing, history>>

\* The channel client signs, stores the cumulative and reports 'signed'; the
\* paid request is not sent on an aborted stream.
SignVoucher(r) ==
  /\ req[r].st = "creating"
  /\ current' = req[r].val
  /\ stored' = IF stored # None THEN req[r].val ELSE None
  /\ signed' = signed \cup {req[r].val}
  /\ req' = [req EXCEPT ![r] = IF aborted THEN FailedRequest
                                          ELSE Request("sent", req[r].val, req[r].tries, 0)]
  /\ UNCHANGED <<reserved, seed, baseline, issued, stream, closing>>

\* Mutant: a failed reservation is always given back.
ReleasedAlways(val) == val - 1

\* releaseReservation: only the most recent reservation can be taken back.
ReleasedTo(val) == IF reserved = val THEN val - 1 ELSE reserved

\* The credential is not created: a network error is retried, others are not.
CredentialFails(r, retryable) ==
  /\ req[r].st = "creating"
  /\ reserved' = ReleasedTo(req[r].val)
  /\ req' = [req EXCEPT ![r] = IF retryable /\ ~aborted THEN Retried(@)
                                                        ELSE FailedRequest]
  /\ UNCHANGED <<stored, seed, baseline, stats, stream, closing, history>>

ResponseOk(r) ==
  /\ req[r].st = "sent"
  /\ req' = [req EXCEPT ![r] = Request("done", req[r].val, 0, 0)]
  /\ UNCHANGED <<reservation, stats, stream, closing, history>>

\* 5xx, 429 or a lost connection, of the unpaid or of the paid request.
ResponseRetryable(r) ==
  /\ req[r].st \in {"challenge", "sent"}
  /\ req' = [req EXCEPT ![r] = Retried(@)]
  /\ UNCHANGED <<reservation, stats, stream, closing, history>>

ResponseRejected(r) ==
  /\ req[r].st = "sent"
  /\ req' = [req EXCEPT ![r] = FailedRequest]
  /\ UNCHANGED <<reservation, stats, stream, closing, history>>

----------------------------------------------------------------------------
\* stream()

\* The finally block: abortController.abort() fails what waits on the network;
\* a credential being created still gets signed.
Abandoned ==
  [r \in Requests |-> IF req[r].st \in {"challenge", "sent"}
                         THEN FailedRequest ELSE req[r]]

EndStream ==
  /\ pc' = "ended" /\ aborted' = TRUE
  /\ req' = Abandoned
  /\ UNCHANGED <<reservation, stats, head, next, window, closing, history>>

\* doFetch() and the push onto the queue.
DoFetch ==
  /\ next <= MaxRequests
  /\ req' = [req EXCEPT ![next] = Attempt(1)]
  /\ next' = next + 1
  /\ UNCHANGED <<reservation, current, head, aborted, window, closing, history>>

\* assertOpen() before the first checkSpend().
StartStream ==
  /\ pc = "off"
  /\ IF closed THEN EndStream
     ELSE pc' = "fill" /\ UNCHANGED <<reservation, stats, head, next, aborted, window,
                                      closing, history, req>>

\* checkSpend() resolves and the generator issues one more request of its window,
\* without looking at closed before it does.
FillWindow ==
  /\ pc = "fill"
  /\ window > 1 => ~closed
  /\ DoFetch
  /\ UNCHANGED issued
  /\ pc' = IF next' - head < window THEN "fill" ELSE "head"

\* As FillWindow on a closed session: assertOpen() throws right after doFetch(),
\* and the abort takes the new request with it.
FillClosedWindow ==
  /\ pc = "fill"
  /\ window > 1 /\ closed
  /\ next <= MaxRequests
  /\ next' = next + 1
  /\ pc' = "ended" /\ aborted' = TRUE
  /\ req' = [Abandoned EXCEPT ![next] = FailedRequest]
  /\ UNCHANGED <<reservation, stats, head, window, closing, history>>

\* The awaited head of the queue resolves; a window is refilled before it is
\* yielded, a sequential stream yields at once.
TakeHead ==
  /\ pc = "head"
  /\ req[head].st = "done"
  /\ head' = head + 1
  /\ IF window = 1 THEN pc' = "yield" /\ issued' = issued + 1
                        ELSE pc' = "refill" /\ UNCHANGED issued
  /\ UNCHANGED <<reservation, current, next, aborted, window, closing, history, req>>

\* The awaited head rejects, and with it the generator.
HeadFails ==
  /\ pc = "head"
  /\ req[head].st = "failed"
  /\ EndStream

\* checkSpend() resolves after the shift: the refill does not look at closed either.
RefillWindow ==
  /\ pc = "refill"
  /\ DoFetch
  /\ issued' = issued + 1
  /\ pc' = "yield"

\* checkSpend() rejects: a cap is exceeded or its store fails.
SpendRejected == pc \in {"fill", "refill"} /\ EndStream

\* Mutant: the loop goes on without assertOpen().
PullUnchecked ==
  /\ pc = "yield"
  /\ pc' = IF window = 1 THEN "fill" ELSE "head"
  /\ UNCHANGED <<reservation, stats, head, next, aborted, window, closing, history, req>>

\* The consumer pulls the next item: back to assertOpen().
Pull ==
  /\ pc = "yield"
  /\ IF closed THEN EndStream
     ELSE /\ pc' = IF window = 1 THEN "fill" ELSE "head"
          /\ UNCHANGED <<reservation, stats, head, next, aborted, window,
                         closing, history, req>>

\* The consumer breaks out of its loop.
Break == pc = "yield" /\ EndStream

----------------------------------------------------------------------------
\* close(), called by the agent, or by the lifetime guard on an open session

Close ==
  /\ closePc \in {"off", "failed"}
  /\ closed' = TRUE
  /\ nextAtClose' = IF closed THEN nextAtClose ELSE next
  /\ closePc' = "account"
  /\ UNCHANGED <<reservation, stats, stream, closeSigned, closeBody, history, req>>

\* prepare_commitment is simulated for the cumulative of this moment.
PrepareCommitment ==
  /\ closePc = "account"
  /\ closeSigned' = current
  /\ closePc' = "prepared"
  /\ UNCHANGED <<reservation, stats, stream, closed, closeBody, nextAtClose, history, req>>

\* The commitment is signed and sent in a DELETE, possibly again and again, whose
\* amount is the cumulative of that moment.
SendDelete ==
  /\ closePc \in {"prepared", "deleting"}
  /\ closePc' = "deleting" /\ closeBody' = current
  /\ UNCHANGED <<reservation, stats, stream, closed, closeSigned, nextAtClose, history, req>>

\* The provider answers with the close transaction.
CloseSettles ==
  /\ closePc = "deleting"
  /\ closePc' = "done" /\ closeSigned' = None /\ closeBody' = None
  /\ UNCHANGED <<reservation, stats, stream, closed, nextAtClose, history, req>>

\* Retries ran out, or an answer that is not retried.
CloseFails ==
  /\ closePc \in {"account", "prepared", "deleting"}
  /\ closePc' = "failed" /\ closeSigned' = None /\ closeBody' = None
  /\ UNCHANGED <<reservation, stats, stream, closed, nextAtClose, history, req>>

----------------------------------------------------------------------------
RequestStep(r) ==
  \/ \E reported \in Reports : ReserveNextCumulative(r, reported)
  \/ RejectChallenge(r)
  \/ SeedFromStore(r)
  \/ SignVoucher(r)
  \/ \E retryable \in BOOLEAN : SeedFails(r, retryable) \/ CredentialFails(r, retryable)
  \/ ResponseOk(r)
  \/ ResponseRetryable(r)
  \/ ResponseRejected(r)

StreamStep ==
  \/ StartStream
  \/ FillWindow
  \/ FillClosedWindow
  \/ TakeHead
  \/ HeadFails
  \/ RefillWindow
  \/ SpendRejected
  \/ Pull
  \/ Break

CloseStep ==
  \/ Close
  \/ PrepareCommitment
  \/ SendDelete
  \/ CloseSettles
  \/ CloseFails

Next ==
  \/ \E r \in Requests : RequestStep(r)
  \/ StreamStep
  \/ CloseStep

Spec == Init /\ [][Next]_vars

----------------------------------------------------------------------------
\* Properties

RequestRecords == [st : States, val : Nat, tries : 0..MaxAttempts, rep : Nat]

\* onSpend commits the rate once per request, before the request.
Spent == next - 1

\* The states of a session have their types; no request is tried too often.
TypeOK ==
  /\ reserved \in Nat \cup {None} /\ stored \in Nat \cup {None} /\ baseline \in Nat
  /\ seed \in {"unread", "read", "failed"}
  /\ current \in Nat /\ issued \in Nat
  /\ closed \in BOOLEAN
  /\ req \in [Requests -> RequestRecords]
  /\ head \in Nat \ {0} /\ next \in Nat \ {0}
  /\ aborted \in BOOLEAN
  /\ pc \in {"off", "fill", "head", "refill", "yield", "ended"}
  /\ window \in Windows
  /\ closePc \in {"off", "account", "prepared", "deleting", "done", "failed"}
  /\ closeSigned \in Nat \cup {None} /\ closeBody \in Nat \cup {None}
  /\ nextAtClose \in Nat \cup {None}
  /\ signed \subseteq Nat

\* No cumulative is signed twice: the credentials being created are for values
\* that nobody else is creating and that were never signed, whatever fails, is
\* retried or gives its reservation back, and whatever the challenges report.
NoCumulativeTwice ==
  \A r \in Requests : req[r].st = "creating" =>
    /\ req[r].val \notin signed
    /\ \A q \in Requests \ {r} : req[q].st = "creating" => req[q].val # req[r].val

\* The channel is never committed beyond what the spend hook accepted, times the
\* attempts each request may take: no report of a provider raises it.
ExposureBounded ==
  \A v \in signed : v > baseline /\ v - baseline <= MaxAttempts * Spent

\* The numbering that VoucherNumbers promises: both transports, retries, releases
\* and a baseline read late draw from one sequence, which no report moves.
Numbers == INSTANCE VoucherNumbers WITH
  Holders <- Requests, Tries <- MaxAttempts,
  start <- baseline, last <- IF reserved = None THEN baseline ELSE reserved,
  held <- [r \in Requests |-> IF req[r].st = "creating" THEN req[r].val ELSE 0],
  used <- signed, accepted <- Spent

ImplementsNumbers == Numbers!Spec

\* A closed session issues at most the one request whose checkSpend() or queue
\* head was awaited when close() was called.
OverrunBounded == closed => next <= nextAtClose + 1

\* stream()'s comment: "Once set, the stream must stop issuing vouchers".
ClosedIssuesNothing == [][closed => next' = next]_vars

\* stats()'s comment: a call right after a yield "always reflects everything
\* consumed so far".
StatsReflectConsumed ==
  pc = "yield" => \A r \in 1..(head - 1) : current >= req[r].val

\* The signature of a DELETE close is for the amount its body names.
CloseBodySigned == closePc = "deleting" => closeBody = closeSigned

\* checkSpend's comment: "Check the local daily spend cap before issuing a
\* voucher": what is signed was accepted by the cap.
SpendCoversVouchers == \A v \in signed : v - baseline <= Spent
=============================================================================
