------------------------- MODULE VoucherClientProofs -------------------------
(***************************************************************************)
(* Theorems about a client session for every window, retry budget, store   *)
(* and provider: first VoucherClient by itself, then the session with all  *)
(* its streams and disputes, over HTTP and over sockets: what is signed,   *)
(* that both transports draw from one numbering (VoucherNumbers), what a   *)
(* closed session still issues, and what sockets and disputes give.        *)
(***************************************************************************)
EXTENDS OrderbookSocket, FiniteSetTheorems, SequenceTheorems, TLAPS

\* The named request records are well typed.
LEMMA NamedRequests ==
  /\ Attempt(1) \in RequestRecords /\ Attempt(1).st = "challenge"
  /\ FailedRequest \in RequestRecords /\ FailedRequest.st = "failed"
  /\ FreeRequest \in RequestRecords /\ FreeRequest.st = "free"
BY ClientAssumption DEF Attempt, FailedRequest, FreeRequest, Request, RequestRecords, States

\* A retried request starts over or has failed.
LEMMA RetriedType ==
  ASSUME NEW q \in RequestRecords
  PROVE  Retried(q) \in RequestRecords /\ Retried(q).st \in {"challenge", "failed"}
BY ClientAssumption DEF Retried, Attempt, FailedRequest, Request, RequestRecords, States

\* An abort keeps the types and leaves credentials being created alone.
LEMMA AbandonedType ==
  ASSUME TypeOK
  PROVE  /\ Abandoned \in [Requests -> RequestRecords]
         /\ \A r \in Requests : Abandoned[r].st = "creating" =>
              req[r].st = "creating" /\ Abandoned[r] = req[r]
BY NamedRequests DEF Abandoned, TypeOK, RequestRecords

----------------------------------------------------------------------------
\* Type correctness

\* A new session is well typed.
LEMMA InitTypeOK == Init => TypeOK
<1> SUFFICES ASSUME Init PROVE TypeOK
  OBVIOUS
<1>1. stored \in Nat \cup {None} /\ baseline \in Nat /\ window \in Windows
  BY ClientAssumption DEF Init, None
<1>2. req \in [Requests -> RequestRecords]
  BY NamedRequests DEF Init
<1>3. /\ reserved \in Nat \cup {None} /\ current \in Nat /\ issued \in Nat
      /\ head \in Nat \ {0} /\ next \in Nat \ {0} /\ signed \subseteq Nat
  BY DEF Init
<1>5. closed \in BOOLEAN /\ aborted \in BOOLEAN
  BY DEF Init
<1>4. /\ pc \in {"off", "fill", "head", "refill", "yield", "ended"}
      /\ closePc \in {"off", "account", "prepared", "deleting", "done", "failed"}
      /\ closeSigned \in Nat \cup {None} /\ closeBody \in Nat \cup {None}
      /\ nextAtClose \in Nat \cup {None} /\ seed \in {"unread", "read", "failed"}
  BY DEF Init
<1> QED BY <1>1, <1>2, <1>3, <1>4, <1>5 DEF TypeOK

\* Every step of a request keeps the types.
LEMMA RequestTypeOK ==
  ASSUME TypeOK, NEW r \in Requests, RequestStep(r)
  PROVE  TypeOK'
<1> USE ClientAssumption DEF RequestRecords, Request
<1>t. req \in [Requests -> RequestRecords] /\ req[r] \in RequestRecords
  BY DEF TypeOK
<1>0. ASSUME req' \in [Requests -> RequestRecords], reserved' \in Nat \cup {None},
             seed' \in {seed, "read", "failed"},
             UNCHANGED <<stored, baseline, stats, stream, closing, history>>
      PROVE  TypeOK'
  BY <1>0 DEF TypeOK, stats, stream, closing, history
<1>r. ASSUME NEW reported \in Nat, NEW base \in Nat, Reserve(r, reported, base)
      PROVE  req' \in [Requests -> RequestRecords] /\ reserved' \in Nat \cup {None}
  BY <1>t, <1>r, NamedRequests DEF Reserve, TypeOK, States
<1>1. ASSUME NEW reported \in Reports, ReserveNextCumulative(r, reported) PROVE TypeOK'
  <2>1. reported \in Nat
    OBVIOUS
  <2>2. CASE reserved # None /\ Reserve(r, reported, reserved)
    BY <1>0, <1>1, <1>r, <2>1, <2>2 DEF ReserveNextCumulative, TypeOK
  <2>3. CASE /\ req' = [req EXCEPT ![r] = Request("seeding", 0, req[r].tries, reported)]
            /\ UNCHANGED reserved
    <3>1. req' \in [Requests -> RequestRecords]
      BY <1>t, <2>1, <2>3 DEF States
    <3> QED BY <1>0, <1>1, <2>3, <3>1 DEF ReserveNextCumulative, TypeOK
  <2>4. CASE Reserve(r, reported, 0)
    BY <1>0, <1>1, <1>r, <2>1, <2>4 DEF ReserveNextCumulative
  <2>5. CASE req' = [req EXCEPT ![r] = FailedRequest] /\ UNCHANGED reserved
    BY <1>0, <1>1, <1>t, <2>5, NamedRequests DEF ReserveNextCumulative, TypeOK
  <2> QED BY <1>1, <2>2, <2>3, <2>4, <2>5 DEF ReserveNextCumulative
<1>2. ASSUME RejectChallenge(r) PROVE TypeOK'
  BY <1>0, <1>2, <1>t, NamedRequests DEF RejectChallenge, reservation, TypeOK
<1>3. ASSUME SeedFromStore(r) PROVE TypeOK'
  <2> DEFINE base == IF reserved # None THEN reserved ELSE stored
  <2>1. CASE base \in Nat
    BY <1>0, <1>3, <1>r, <1>t, <2>1 DEF SeedFromStore
  <2>2. CASE base = None
    <3>1. base + 1 \in Nat /\ req[r].rep \in Nat
      BY <1>t, <2>2 DEF None
    <3>2. req' \in [Requests -> RequestRecords] /\ reserved' \in Nat \cup {None}
      BY <1>3, <1>t, <3>1, NamedRequests DEF SeedFromStore, Reserve, TypeOK, States
    <3> QED BY <1>0, <1>3, <3>2 DEF SeedFromStore
  <2> QED BY <2>1, <2>2 DEF TypeOK
<1>4. ASSUME SignVoucher(r) PROVE TypeOK'
  <2>1. req' \in [Requests -> RequestRecords]
    BY <1>4, <1>t, NamedRequests DEF SignVoucher, States
  <2>2. req[r].val \in Nat
    BY <1>t
  <2>3. /\ current' \in Nat /\ stored' \in Nat \cup {None} /\ signed' \subseteq Nat
        /\ reserved' \in Nat \cup {None} /\ baseline' \in Nat /\ issued' \in Nat
    BY <1>4, <2>2 DEF SignVoucher, TypeOK
  <2>4. UNCHANGED <<seed, stream, closing>>
    BY <1>4 DEF SignVoucher
  <2> QED BY <2>1, <2>3, <2>4 DEF TypeOK, stream, closing
<1>5. ASSUME NEW retryable \in BOOLEAN, CredentialFails(r, retryable) PROVE TypeOK'
  <2>1. req' \in [Requests -> RequestRecords]
    BY <1>5, <1>t, RetriedType, NamedRequests DEF CredentialFails
  <2>2. reserved' \in Nat \cup {None}
    BY <1>5, <1>t DEF CredentialFails, ReleasedTo, TypeOK, None
  <2> QED BY <1>0, <1>5, <2>1, <2>2 DEF CredentialFails
<1>6. ASSUME ResponseOk(r) PROVE TypeOK'
  <2>1. req' \in [Requests -> RequestRecords]
    BY <1>6, <1>t DEF ResponseOk, States
  <2> QED BY <1>0, <1>6, <2>1 DEF ResponseOk, reservation, TypeOK
<1>7. ASSUME ResponseRetryable(r) PROVE TypeOK'
  <2>1. req' \in [Requests -> RequestRecords]
    BY <1>7, <1>t, RetriedType DEF ResponseRetryable
  <2> QED BY <1>0, <1>7, <2>1 DEF ResponseRetryable, reservation, TypeOK
<1>8. ASSUME ResponseRejected(r) PROVE TypeOK'
  BY <1>0, <1>8, <1>t, NamedRequests DEF ResponseRejected, reservation, TypeOK
<1>9. ASSUME NEW retryable \in BOOLEAN, SeedFails(r, retryable) PROVE TypeOK'
  <2>1. req' \in [Requests -> RequestRecords]
    BY <1>9, <1>t, RetriedType, NamedRequests DEF SeedFails
  <2> QED BY <1>0, <1>9, <2>1 DEF SeedFails, TypeOK
<1> QED BY <1>1, <1>2, <1>3, <1>4, <1>5, <1>6, <1>7, <1>8, <1>9 DEF RequestStep

\* Every step of the generator keeps the types.
LEMMA StreamTypeOK == ASSUME TypeOK, StreamStep PROVE TypeOK'
<1> USE ClientAssumption
<1>n. ASSUME next <= MaxRequests PROVE next \in Requests /\ next + 1 \in Nat \ {0}
  BY <1>n DEF TypeOK, Requests
<1>e. ASSUME EndStream PROVE TypeOK'
  BY <1>e, AbandonedType DEF EndStream, TypeOK, reservation, stats, closing, history
<1>f. ASSUME DoFetch
      PROVE  req' \in [Requests -> RequestRecords] /\ next' \in Nat \ {0}
  BY <1>f, <1>n, NamedRequests DEF DoFetch, TypeOK
<1>1. ASSUME StartStream PROVE TypeOK'
  BY <1>1, <1>e DEF StartStream, TypeOK, reservation, stats, closing, history
<1>2. ASSUME FillWindow PROVE TypeOK'
  BY <1>2, <1>f DEF FillWindow, DoFetch, TypeOK, reservation, closing, history
<1>3. ASSUME FillClosedWindow PROVE TypeOK'
  <2>1. req' \in [Requests -> RequestRecords] /\ next' \in Nat \ {0}
    BY <1>3, <1>n, AbandonedType, NamedRequests DEF FillClosedWindow
  <2> QED BY <1>3, <2>1 DEF FillClosedWindow, TypeOK, reservation, stats, closing, history
<1>4. ASSUME TakeHead PROVE TypeOK'
  BY <1>4 DEF TakeHead, TypeOK, reservation, closing, history
<1>5. ASSUME RefillWindow PROVE TypeOK'
  BY <1>5, <1>f DEF RefillWindow, DoFetch, TypeOK, reservation, closing, history
<1>6. ASSUME Pull PROVE TypeOK'
  BY <1>6, <1>e DEF Pull, TypeOK, reservation, stats, closing, history
<1> QED BY <1>1, <1>2, <1>3, <1>4, <1>5, <1>6, <1>e
        DEF StreamStep, HeadFails, SpendRejected, Break

\* Every step of close() keeps the types.
LEMMA CloseTypeOK == ASSUME TypeOK, CloseStep PROVE TypeOK'
BY DEF CloseStep, Close, PrepareCommitment, SendDelete, CloseSettles, CloseFails,
       TypeOK, reservation, stats, stream, history

\* Every step keeps the types.
LEMMA NextTypeOK == TypeOK /\ [Next]_vars => TypeOK'
<1>1. ASSUME TypeOK, UNCHANGED vars PROVE TypeOK'
  BY <1>1 DEF vars, TypeOK, reservation, stats, stream, closing, history
<1> QED BY <1>1, RequestTypeOK, StreamTypeOK, CloseTypeOK DEF Next

\* A session's state always has its type; a request is tried at most MaxAttempts times.
THEOREM TypeCorrect == Spec => []TypeOK
BY InitTypeOK, NextTypeOK, PTL DEF Spec

----------------------------------------------------------------------------
\* No cumulative is signed twice

Creating(r) == req[r].st = "creating"

\* What is being created or was signed lies at or below the reservation.
BelowReservation ==
  /\ reserved = None => signed = {} /\ \A r \in Requests : ~Creating(r)
  /\ \A v \in signed : v <= reserved
  /\ \A r \in Requests : Creating(r) => req[r].val \in 1..reserved

ReserveInv == BelowReservation /\ NoCumulativeTwice

\* Only a session with a store reads it, and it never loses its store.
SeedingHasStore == \A r \in Requests : req[r].st = "seeding" => stored # None

\* No request of a new session reads the store.
LEMMA InitSeeding == Init => SeedingHasStore
BY DEF Init, SeedingHasStore, FreeRequest, Request

\* Every step leaves the store to the requests that read it.
LEMMA NextSeeding == TypeOK /\ SeedingHasStore /\ [Next]_vars => SeedingHasStore'
<1> SUFFICES ASSUME TypeOK, SeedingHasStore, [Next]_vars PROVE SeedingHasStore'
  OBVIOUS
<1>t. req \in [Requests -> RequestRecords]
  BY DEF TypeOK
<1>n. FailedRequest.st = "failed" /\ Attempt(1).st = "challenge"
      /\ \A q \in RequestRecords : Retried(q).st # "seeding"
  BY RetriedType, NamedRequests
<1>1. ASSUME stored' # None \/ stored' = stored,
             stored # None \/ \A r \in Requests : req'[r].st = "seeding" => req[r].st = "seeding"
      PROVE  SeedingHasStore'
  BY <1>1 DEF SeedingHasStore
<1>2. ASSUME NEW r \in Requests, NEW reported \in Reports, ReserveNextCumulative(r, reported)
      PROVE  SeedingHasStore'
  BY <1>1, <1>2, <1>t, <1>n DEF ReserveNextCumulative, Reserve, Request
<1>3. ASSUME NEW r \in Requests, SeedFromStore(r) PROVE SeedingHasStore'
  BY <1>1, <1>3, <1>t, <1>n DEF SeedFromStore, Reserve, Request
<1>4. ASSUME NEW r \in Requests, SignVoucher(r) PROVE SeedingHasStore'
  <2>1. req[r].val # None /\ req'[r].st # "seeding"
        /\ \A q \in Requests \ {r} : req'[q] = req[q]
    BY <1>4, <1>t, <1>n DEF SignVoucher, Request, RequestRecords, None
  <2> QED BY <1>4, <2>1 DEF SignVoucher, SeedingHasStore
<1>5. ASSUME NEW r \in Requests,
             \/ \E retryable \in BOOLEAN : SeedFails(r, retryable) \/ CredentialFails(r, retryable)
             \/ RejectChallenge(r) \/ ResponseOk(r) \/ ResponseRetryable(r) \/ ResponseRejected(r)
      PROVE  SeedingHasStore'
  <2>1. req'[r].st # "seeding" /\ \A q \in Requests \ {r} : req'[q] = req[q]
    BY <1>5, <1>t, <1>n DEF SeedFails, CredentialFails, RejectChallenge, ResponseOk, ResponseRetryable,
        ResponseRejected, Request
  <2>2. stored' = stored
    BY <1>5 DEF SeedFails, CredentialFails, RejectChallenge, ResponseOk, ResponseRetryable,
        ResponseRejected, reservation
  <2> QED BY <1>1, <2>1, <2>2
<1>6. ASSUME StreamStep PROVE SeedingHasStore'
  <2>1. stored' = stored
    BY <1>6 DEF StreamStep, StartStream, FillWindow, FillClosedWindow, TakeHead, HeadFails,
        RefillWindow, SpendRejected, Pull, Break, EndStream, DoFetch, reservation
  <2>2. \/ req' = req \/ req' = Abandoned
        \/ req' = [req EXCEPT ![next] = Attempt(1)]
        \/ req' = [Abandoned EXCEPT ![next] = FailedRequest]
    BY <1>6 DEF StreamStep, StartStream, FillWindow, FillClosedWindow, TakeHead, HeadFails,
        RefillWindow, SpendRejected, Pull, Break, EndStream, DoFetch
  <2>3. \A r \in Requests : Abandoned[r].st = "seeding" => req[r].st = "seeding"
    BY <1>n DEF Abandoned
  <2>4. \A r \in Requests : req'[r].st = "seeding" => req[r].st = "seeding"
    BY <2>2, <2>3, <1>t, <1>n, AbandonedType
  <2> QED BY <1>1, <2>1, <2>4
<1>7. ASSUME CloseStep PROVE SeedingHasStore'
  BY <1>1, <1>7 DEF CloseStep, Close, PrepareCommitment, SendDelete, CloseSettles,
      CloseFails, reservation
<1>8. CASE UNCHANGED vars
  BY <1>1, <1>8 DEF vars, reservation
<1> QED BY <1>2, <1>3, <1>4, <1>5, <1>6, <1>7, <1>8 DEF Next, RequestStep

\* A new session has reserved and signed nothing.
LEMMA InitReserve == Init => ReserveInv
BY DEF Init, ReserveInv, BelowReservation, NoCumulativeTwice, Creating, FreeRequest, Request

\* No new credential, and the reservation does not move.
LEMMA FrameReserve ==
  ASSUME ReserveInv, UNCHANGED <<reserved, signed>>,
         \A r \in Requests : req'[r].st = "creating" => Creating(r) /\ req'[r] = req[r]
  PROVE  ReserveInv'
BY DEF ReserveInv, BelowReservation, NoCumulativeTwice, Creating

\* A request that fails, is retried, waits or gets its answer moves nothing.
LEMMA ChangeOneReserve ==
  ASSUME TypeOK, ReserveInv, UNCHANGED reserved, UNCHANGED signed,
         NEW r \in Requests, NEW q, q.st # "creating", req' = [req EXCEPT ![r] = q]
  PROVE  ReserveInv'
<1>1. \A p \in Requests : req'[p].st = "creating" => Creating(p) /\ req'[p] = req[p]
  BY DEF TypeOK, Creating
<1> QED BY <1>1, FrameReserve

\* A reservation one above everything reserved, being created or signed.
LEMMA ReserveReserve ==
  ASSUME TypeOK, ReserveInv, UNCHANGED signed, NEW r \in Requests, ~Creating(r),
         NEW reported \in Nat, NEW base \in Nat \cup {None},
         IF reserved # None THEN base = reserved ELSE base # None,
         Reserve(r, reported, base)
  PROVE  ReserveInv'
<1>1. CASE reported > base
  BY <1>1, ChangeOneReserve DEF Reserve, FailedRequest, Request
<1>2. CASE ~(reported > base)
  <2>1. /\ base \in Nat /\ reserved' = base + 1
        /\ reserved = None \/ reserved' = reserved + 1
    BY <1>2 DEF Reserve, None
  <2>2. req'[r] = Request("creating", base + 1, req[r].tries, 0)
        /\ \A q \in Requests \ {r} : req'[q] = req[q]
    BY <1>2 DEF Reserve, TypeOK
  <2>3. req'[r].st = "creating" /\ req'[r].val = base + 1
    BY <2>2 DEF Request
  <2>4. \A v \in signed : v <= base
    BY <2>1 DEF ReserveInv, BelowReservation, TypeOK
  <2>5. \A q \in Requests : Creating(q) => req[q].val \in 1..base
    BY <2>1 DEF ReserveInv, BelowReservation, TypeOK
  <2>6. BelowReservation'
    BY <2>1, <2>2, <2>3, <2>4, <2>5 DEF BelowReservation, Creating, TypeOK, None
  <2>7. NoCumulativeTwice'
    BY <2>1, <2>2, <2>3, <2>4, <2>5 DEF NoCumulativeTwice, ReserveInv, Creating, TypeOK
  <2> QED BY <2>6, <2>7 DEF ReserveInv
<1> QED BY <1>1, <1>2

\* Every step keeps the credentials apart and at or below the reservation.
LEMMA NextReserve == TypeOK /\ SeedingHasStore /\ ReserveInv /\ [Next]_vars => ReserveInv'
<1> SUFFICES ASSUME TypeOK, SeedingHasStore, ReserveInv, [Next]_vars PROVE ReserveInv'
  OBVIOUS
<1>t. req \in [Requests -> RequestRecords]
  BY DEF TypeOK
<1>f. FailedRequest.st = "failed" /\ Attempt(1).st = "challenge"
  BY DEF FailedRequest, Attempt, Request
<1>1. ASSUME NEW r \in Requests, NEW reported \in Reports, ReserveNextCumulative(r, reported)
      PROVE  ReserveInv'
  <2>1. reported \in Nat /\ ~Creating(r) /\ UNCHANGED signed
    BY <1>1, ClientAssumption DEF ReserveNextCumulative, Creating, history
  <2>2. CASE reserved # None /\ Reserve(r, reported, reserved)
    BY <2>1, <2>2, ReserveReserve DEF TypeOK
  <2>3. CASE reserved = None /\ Reserve(r, reported, 0)
    BY <2>1, <2>3, ReserveReserve DEF None
  <2>4. CASE /\ req' = [req EXCEPT ![r] = Request("seeding", 0, req[r].tries, reported)]
             /\ UNCHANGED reserved
    <3>1. Request("seeding", 0, req[r].tries, reported).st # "creating"
      BY DEF Request
    <3> QED BY <2>1, <2>4, <3>1, ChangeOneReserve
  <2>5. CASE req' = [req EXCEPT ![r] = FailedRequest] /\ UNCHANGED reserved
    BY <2>1, <2>5, <1>f, ChangeOneReserve
  <2> QED BY <1>1, <2>2, <2>3, <2>4, <2>5 DEF ReserveNextCumulative
<1>2. ASSUME NEW r \in Requests, SeedFromStore(r), stored # None \/ reserved # None
      PROVE  ReserveInv'
  <2> DEFINE base == IF reserved # None THEN reserved ELSE stored
  <2>1. base \in Nat \cup {None} /\ req[r].rep \in Nat
    BY <1>t DEF TypeOK, RequestRecords
  <2>2. ~Creating(r) /\ UNCHANGED signed /\ Reserve(r, req[r].rep, base)
    BY <1>2 DEF SeedFromStore, Creating, history
  <2>3. IF reserved # None THEN base = reserved ELSE base # None
    BY <1>2
  <2> HIDE DEF base
  <2> QED BY <2>1, <2>2, <2>3, ReserveReserve
<1>3. ASSUME NEW r \in Requests, SignVoucher(r) PROVE ReserveInv'
  <2>1. /\ Creating(r) /\ req[r].val \in 1..reserved /\ reserved' = reserved
        /\ signed' = signed \cup {req[r].val}
    BY <1>3 DEF SignVoucher, ReserveInv, BelowReservation, Creating
  <2>2. req'[r].st # "creating" /\ \A q \in Requests \ {r} : req'[q] = req[q]
    BY <1>3, <1>t, <1>f DEF SignVoucher, Request
  <2>3. reserved # None
    BY <2>1 DEF ReserveInv, BelowReservation
  <2>4. BelowReservation'
    BY <2>1, <2>2, <2>3 DEF ReserveInv, BelowReservation, Creating
  <2>5. NoCumulativeTwice'
    BY <2>1, <2>2 DEF ReserveInv, NoCumulativeTwice, Creating
  <2> QED BY <2>4, <2>5 DEF ReserveInv
<1>4. ASSUME NEW r \in Requests, NEW retryable \in BOOLEAN, CredentialFails(r, retryable)
      PROVE  ReserveInv'
  <2>1. /\ Creating(r) /\ req[r].val \in 1..reserved
        /\ reserved' = ReleasedTo(req[r].val) /\ signed' = signed
    BY <1>4 DEF CredentialFails, ReserveInv, BelowReservation, Creating, history
  <2>2. req'[r].st # "creating" /\ \A q \in Requests \ {r} : req'[q] = req[q]
    BY <1>4, <1>t, <1>f DEF CredentialFails, Retried, Attempt, Request
  <2>3. reserved \in Nat /\ signed \subseteq Nat
    BY <2>1 DEF TypeOK, ReserveInv, BelowReservation
  <2>4. reserved' \in Nat /\ reserved' # None
    BY <2>1, <2>3 DEF ReleasedTo, None
  <2>5. \A v \in signed : v <= reserved'
    BY <2>1, <2>3 DEF ReleasedTo, ReserveInv, BelowReservation, NoCumulativeTwice, Creating
  <2>6. \A q \in Requests \ {r} : Creating(q) => req[q].val \in 1..reserved'
    BY <2>1, <2>3 DEF ReleasedTo, ReserveInv, BelowReservation, NoCumulativeTwice, Creating
  <2>7. BelowReservation'
    BY <2>1, <2>2, <2>4, <2>5, <2>6 DEF BelowReservation, Creating
  <2>8. NoCumulativeTwice'
    BY <2>1, <2>2 DEF ReserveInv, NoCumulativeTwice, Creating
  <2> QED BY <2>7, <2>8 DEF ReserveInv
<1>5. ASSUME NEW r \in Requests,
             \/ \E retryable \in BOOLEAN : SeedFails(r, retryable)
             \/ RejectChallenge(r) \/ ResponseOk(r) \/ ResponseRetryable(r) \/ ResponseRejected(r)
      PROVE  ReserveInv'
  <2>1. UNCHANGED reserved /\ UNCHANGED signed
    BY <1>5 DEF SeedFails, RejectChallenge, ResponseOk, ResponseRetryable, ResponseRejected,
        reservation, history
  <2>2. \/ req' = [req EXCEPT ![r] = FailedRequest]
        \/ req' = [req EXCEPT ![r] = Retried(req[r])]
        \/ req' = [req EXCEPT ![r] = Request("done", req[r].val, 0, 0)]
    BY <1>5 DEF SeedFails, RejectChallenge, ResponseOk, ResponseRetryable, ResponseRejected
  <2>3. Retried(req[r]).st # "creating" /\ Request("done", req[r].val, 0, 0).st # "creating"
    BY <1>t, RetriedType DEF Request
  <2> QED BY <1>f, <2>1, <2>2, <2>3, ChangeOneReserve
<1>6. ASSUME StreamStep PROVE ReserveInv'
  <2>1. UNCHANGED <<reserved, signed>>
    BY <1>6 DEF StreamStep, StartStream, FillWindow, FillClosedWindow, TakeHead, HeadFails,
        RefillWindow, SpendRejected, Pull, Break, EndStream, DoFetch, reservation, history
  <2>2. \A r \in Requests : Abandoned[r].st = "creating" =>
          Creating(r) /\ Abandoned[r] = req[r]
    BY AbandonedType DEF Creating
  <2>3. \/ req' = req \/ req' = Abandoned
        \/ req' = [req EXCEPT ![next] = Attempt(1)]
        \/ req' = [Abandoned EXCEPT ![next] = FailedRequest]
    BY <1>6 DEF StreamStep, StartStream, FillWindow, FillClosedWindow, TakeHead, HeadFails,
        RefillWindow, SpendRejected, Pull, Break, EndStream, DoFetch
  <2>4. \A r \in Requests : req'[r].st = "creating" => Creating(r) /\ req'[r] = req[r]
    BY <2>2, <2>3, <1>t, <1>f, AbandonedType DEF Creating
  <2> QED BY <2>1, <2>4, FrameReserve
<1>7. ASSUME CloseStep PROVE ReserveInv'
  BY <1>7, FrameReserve DEF CloseStep, Close, PrepareCommitment, SendDelete, CloseSettles,
      CloseFails, reservation, history, Creating
<1>8. CASE UNCHANGED vars
  BY <1>8, FrameReserve DEF vars, reservation, history, Creating
<1>9. ASSUME NEW r \in Requests, SeedFromStore(r) PROVE ReserveInv'
  BY <1>2, <1>9 DEF SeedFromStore, SeedingHasStore
<1> QED BY <1>1, <1>3, <1>4, <1>5, <1>6, <1>7, <1>8, <1>9 DEF Next, RequestStep

\* No cumulative is signed twice, in any interleaving of requests, retries,
\* released reservations and store reads.
THEOREM NoneSignedTwice == Spec => []NoCumulativeTwice
<1>1. TypeOK /\ SeedingHasStore /\ ReserveInv /\ [Next]_vars
      => TypeOK' /\ SeedingHasStore' /\ ReserveInv'
  BY NextTypeOK, NextSeeding, NextReserve
<1>2. ReserveInv => NoCumulativeTwice
  BY DEF ReserveInv
<1> QED BY <1>1, <1>2, InitTypeOK, InitSeeding, InitReserve, PTL DEF Spec

----------------------------------------------------------------------------
\* A closed session issues at most one more request

\* The queue is never overtaken, and not empty when its head is awaited.
QueueInv ==
  /\ head <= next
  /\ pc = "head" => head < next
  /\ pc = "yield" /\ window > 1 => head < next

\* Once closed, the overrun is used up wherever the generator may only pull or end;
\* a window that is being refilled has used none of it.
OverrunInv ==
  /\ QueueInv
  /\ closed =>
       /\ nextAtClose \in Nat
       /\ next <= nextAtClose + 1
       /\ pc \in {"off", "fill", "refill"} => next <= nextAtClose
       /\ pc = "head" /\ window > 1 => next <= nextAtClose

\* A new session is open and its queue empty.
LEMMA InitOverrun == Init => OverrunInv
BY DEF Init, OverrunInv, QueueInv

\* Every step keeps the account of the requests issued after close().
LEMMA NextOverrun == TypeOK /\ OverrunInv /\ [Next]_vars => OverrunInv'
<1> SUFFICES ASSUME TypeOK, OverrunInv, [Next]_vars PROVE OverrunInv'
  OBVIOUS
<1>0. /\ next \in Nat /\ head \in Nat /\ window \in Nat \ {0} /\ nextAtClose \in Nat \cup {None}
      /\ closed \in BOOLEAN
  BY ClientAssumption DEF TypeOK
<1>1. ASSUME UNCHANGED <<stream, closing>> PROVE OverrunInv'
  BY <1>1 DEF OverrunInv, QueueInv, stream, closing
<1>2. ASSUME NEW r \in Requests, RequestStep(r) PROVE OverrunInv'
  BY <1>1, <1>2 DEF RequestStep, ReserveNextCumulative, RejectChallenge, SeedFromStore,
     SeedFails, SignVoucher, CredentialFails, ResponseOk, ResponseRetryable, ResponseRejected
<1>3. ASSUME EndStream PROVE OverrunInv'
  BY <1>0, <1>3 DEF EndStream, OverrunInv, QueueInv, closing
<1>4. ASSUME StartStream PROVE OverrunInv'
  BY <1>0, <1>3, <1>4 DEF StartStream, OverrunInv, QueueInv, closing
<1>5. ASSUME TakeHead PROVE OverrunInv'
  <2>1. /\ pc = "head" /\ head' = head + 1 /\ next' = next /\ window' = window
        /\ closed' = closed /\ nextAtClose' = nextAtClose
        /\ (window = 1 /\ pc' = "yield") \/ (window # 1 /\ pc' = "refill")
    BY <1>5 DEF TakeHead, closing
  <2> QED BY <1>0, <2>1 DEF OverrunInv, QueueInv
<1>6. ASSUME Pull PROVE OverrunInv'
  BY <1>0, <1>3, <1>6 DEF Pull, OverrunInv, QueueInv, closing
<1>7. ASSUME FillWindow PROVE OverrunInv'
  <2>1. /\ pc = "fill" /\ (window > 1 => ~closed) /\ head' = head /\ next' = next + 1
        /\ window' = window /\ closed' = closed /\ nextAtClose' = nextAtClose
        /\ pc' = IF next' - head < window THEN "fill" ELSE "head"
    BY <1>7 DEF FillWindow, DoFetch, closing
  <2> QED BY <1>0, <2>1 DEF OverrunInv, QueueInv
<1>8. ASSUME FillClosedWindow PROVE OverrunInv'
  BY <1>0, <1>8 DEF FillClosedWindow, OverrunInv, QueueInv, closing
<1>9. ASSUME RefillWindow PROVE OverrunInv'
  BY <1>0, <1>9 DEF RefillWindow, DoFetch, OverrunInv, QueueInv, closing
<1>10. ASSUME Close PROVE OverrunInv'
  BY <1>0, <1>10 DEF Close, OverrunInv, QueueInv, stream
<1>11. ASSUME PrepareCommitment \/ SendDelete \/ CloseSettles \/ CloseFails PROVE OverrunInv'
  BY <1>0, <1>11 DEF PrepareCommitment, SendDelete, CloseSettles, CloseFails, OverrunInv,
     QueueInv, stream
<1>12. CASE UNCHANGED vars
  BY <1>1, <1>12 DEF vars
<1> QED BY <1>2, <1>3, <1>4, <1>5, <1>6, <1>7, <1>8, <1>9, <1>10, <1>11, <1>12
        DEF Next, StreamStep, CloseStep, HeadFails, SpendRejected, Break

\* However long the windows and whenever close() is called, at most the one request
\* whose checkSpend() or queue head was awaited follows it.
THEOREM OverrunByOne == Spec => []OverrunBounded
<1>1. OverrunInv => OverrunBounded
  BY DEF OverrunInv, OverrunBounded
<1> QED BY <1>1, InitTypeOK, NextTypeOK, InitOverrun, NextOverrun, PTL DEF Spec

----------------------------------------------------------------------------
\* Streams over sockets: the steps they add to those of VoucherClient

SocketVoucherStep == \E r \in Streams : StartSocketStream(r) \/ Upgrade(r)

\* Whatever the transport and the provider do, vouchers move by the steps of
\* VoucherClient, or a stream over a socket starts or upgrades.
LEMMA SessionSteps == [OrderbookNext]_orderbookVars => [Next]_vars \/ SocketVoucherStep
<1> SUFFICES ASSUME [OrderbookNext]_orderbookVars PROVE [Next]_vars \/ SocketVoucherStep
  OBVIOUS
<1>1. Streams \subseteq Requests BY SocketAssumption, ClientAssumption DEF Streams, Requests
<1>2. ASSUME NEW r \in Streams, NegotiationStep(r) PROVE [Next]_vars \/ SocketVoucherStep
  <2>1. CASE Negotiate(r)
    <3>1. FALSE \in BOOLEAN OBVIOUS
    <3>2. RequestStep(r) BY <2>1, <3>1 DEF Negotiate, RequestStep
    <3> QED BY <1>1, <3>2 DEF Next
  <2>2. CASE Upgrade(r) BY <2>2 DEF SocketVoucherStep
  <2> QED BY <1>2, <2>1, <2>2 DEF NegotiationStep
<1>3. ASSUME NEW r \in Streams, SocketStep(r) \/ GeneratorStep(r) PROVE UNCHANGED vars
  BY <1>3 DEF SocketStep, GeneratorStep, HandshakeAccepted, HandshakeRejected, ConnectionLost, FrameArrives,
     BlobDecoded, ProviderCloses, AwaitUpgrade, TakeEvent, NextFrame, LeaveStream, HandlerStep
<1>4. ASSUME OrderbookStep PROVE [Next]_vars \/ SocketVoucherStep
  <2>1. PICK r \in Streams : ClientStep(r) \/ RouteStep(r) \/ Lost(r) BY <1>4 DEF OrderbookStep
  <2>2. CASE ClientStep(r)
    BY <1>2, <1>3, <2>2 DEF ClientStep, SocketVoucherStep
  <2>3. CASE RouteStep(r)
    BY <2>3 DEF RouteStep, Upgraded, HandshakeAccepted, OnMessage, FrameArrives, Tick, Push, OnClose, HandlerStep,
       sessionVars
  <2>4. CASE Lost(r) BY <2>4 DEF Lost, ConnectionLost, HandlerStep
  <2> QED BY <2>1, <2>2, <2>3, <2>4
<1>5. ASSUME SessionNext PROVE [Next]_vars \/ SocketVoucherStep
  <2>1. CASE HttpStep BY <2>1 DEF HttpStep, Next, CloseStep
  <2>2. CASE \E r \in Streams : SocketSessionStep(r)
    BY <1>2, <1>3, <2>2 DEF SocketSessionStep, FramesStep, SocketVoucherStep
  <2>3. CASE AccountStep
    <3>1. CASE CloseStep BY <3>1 DEF Next
    <3>2. CASE DisputeStep
      BY <3>2 DEF DisputeStep, RequestRefund, PrepareSettlement, Begin, BuildSettlement, SendTransaction,
         DisputeFails, NetworkDecides, ConfirmTransaction
    <3> QED BY <2>3, <3>1, <3>2 DEF AccountStep
  <2> QED BY <1>5, <2>1, <2>2, <2>3 DEF SessionNext
<1>6. CASE UNCHANGED orderbookVars BY <1>6 DEF orderbookVars, sessionVars
<1> QED BY <1>4, <1>5, <1>6 DEF OrderbookNext

\* A stream over a socket starts with a request of its own.
LEMMA StartSocketIs ==
  ASSUME TypeOK, NEW r \in Streams, StartSocketStream(r)
  PROVE  /\ r = next /\ next \in Requests /\ next' = next + 1 /\ next' \in Nat \ {0}
         /\ req' = [req EXCEPT ![next] = Attempt(1)] /\ req' \in [Requests -> RequestRecords]
         /\ UNCHANGED <<reservation, stats, head, aborted, pc, window, closing, history>>
<1>1. r = next /\ r \in Requests
  BY SocketAssumption, ClientAssumption DEF StartSocketStream, Streams, Requests
<1> QED BY <1>1, NamedRequests DEF StartSocketStream, TypeOK

\* An upgrade takes the credential of its stream.
LEMMA UpgradeIs ==
  ASSUME TypeOK, NEW r \in Streams, Upgrade(r)
  PROVE  /\ r \in Requests /\ req[r].st = "sent" /\ issued' = issued + 1
         /\ req' = [req EXCEPT ![r] = Request("done", req[r].val, 0, 0)]
         /\ req' \in [Requests -> RequestRecords]
         /\ UNCHANGED <<reservation, current, stream, closing, history>>
<1>1. r \in Requests BY SocketAssumption, ClientAssumption DEF Streams, Requests
<1>2. req[r] \in RequestRecords BY <1>1 DEF TypeOK
<1>3. Request("done", req[r].val, 0, 0) \in RequestRecords
  BY <1>2, ClientAssumption DEF Request, RequestRecords, States
<1> QED BY <1>1, <1>3 DEF Upgrade, TypeOK

\* Streams over sockets keep the types.
LEMMA SocketTypeOK == ASSUME TypeOK, SocketVoucherStep PROVE TypeOK'
<1>1. ASSUME NEW r \in Streams, StartSocketStream(r) PROVE TypeOK'
  BY <1>1, StartSocketIs DEF TypeOK, reservation, stats, closing, history
<1>2. ASSUME NEW r \in Streams, Upgrade(r) PROVE TypeOK'
  <2>1. /\ req' \in [Requests -> RequestRecords] /\ issued' = issued + 1
        /\ UNCHANGED <<reservation, current, stream, closing, history>>
    BY <1>2, UpgradeIs
  <2>2. issued' \in Nat BY <2>1 DEF TypeOK
  <2> QED BY <2>1, <2>2 DEF TypeOK, reservation, stream, closing, history
<1> QED BY <1>1, <1>2 DEF SocketVoucherStep

\* Streams over sockets ask the store for nothing without one.
LEMMA SocketSeeding == ASSUME TypeOK, SeedingHasStore, SocketVoucherStep PROVE SeedingHasStore'
<1>1. ASSUME NEW r \in Requests, NEW q, q.st # "seeding", req' = [req EXCEPT ![r] = q], stored' = stored
      PROVE  SeedingHasStore'
  BY <1>1 DEF SeedingHasStore, TypeOK
<1>2. Attempt(1).st # "seeding" BY NamedRequests
<1>3. \A v : Request("done", v, 0, 0).st # "seeding" BY DEF Request
<1>4. ASSUME NEW r \in Streams, StartSocketStream(r) PROVE SeedingHasStore'
  BY <1>1, <1>2, <1>4, StartSocketIs DEF reservation
<1>5. ASSUME NEW r \in Streams, Upgrade(r) PROVE SeedingHasStore'
  BY <1>1, <1>3, <1>5, UpgradeIs DEF reservation
<1> QED BY <1>4, <1>5 DEF SocketVoucherStep

\* Streams over sockets share the reservation of their session.
LEMMA SocketReserve == ASSUME TypeOK, ReserveInv, SocketVoucherStep PROVE ReserveInv'
<1>1. Attempt(1).st # "creating" BY NamedRequests
<1>2. \A v : Request("done", v, 0, 0).st # "creating" BY DEF Request
<1>3. ASSUME NEW r \in Streams, StartSocketStream(r) PROVE ReserveInv'
  BY <1>1, <1>3, StartSocketIs, ChangeOneReserve DEF reservation, history
<1>4. ASSUME NEW r \in Streams, Upgrade(r) PROVE ReserveInv'
  BY <1>2, <1>4, UpgradeIs, ChangeOneReserve DEF reservation, history
<1> QED BY <1>3, <1>4 DEF SocketVoucherStep

\* Types, store and reservation hold at all times, over either transport.
VouchersInv == TypeOK /\ SeedingHasStore /\ ReserveInv

\* They hold at the start,
LEMMA VouchersInitInv == OrderbookInit => VouchersInv
BY InitTypeOK, InitSeeding, InitReserve DEF OrderbookInit, SessionInit, VouchersInv

\* and after every step.
LEMMA VouchersStepInv == VouchersInv /\ [OrderbookNext]_orderbookVars => VouchersInv'
<1> SUFFICES ASSUME VouchersInv, [OrderbookNext]_orderbookVars PROVE VouchersInv'
  OBVIOUS
<1>1. CASE [Next]_vars BY <1>1, NextTypeOK, NextSeeding, NextReserve DEF VouchersInv
<1>2. CASE SocketVoucherStep BY <1>2, SocketTypeOK, SocketSeeding, SocketReserve DEF VouchersInv
<1> QED BY <1>1, <1>2, SessionSteps

----------------------------------------------------------------------------
\* The channel is committed for no more than was accepted, times the attempts

\* The attempts a request can still make a reservation for.
LeftOf(q) ==
  {k \in 1..MaxAttempts : \/ q.st \in {"challenge", "seeding"} /\ q.tries <= k
                          \/ q.st \in {"creating", "sent"} /\ q.tries < k}

\* Those of all requests that were issued.
Unused == {p \in Requests \X (1..MaxAttempts) : p[1] < next /\ p[2] \in LeftOf(req[p[1]])}

\* What has been reserved above the baseline.
Taken == IF reserved = None THEN 0 ELSE reserved - baseline

\* A request that waits has been issued and is at an attempt.
RequestsIssued ==
  /\ \A r \in Requests : req[r].st # "free" => r < next
  /\ \A r \in Requests : req[r].st \in {"challenge", "seeding"} => req[r].tries >= 1

\* Reservations start from the baseline.
AboveBaseline ==
  /\ reserved = None => baseline = IF stored = None THEN 0 ELSE stored
  /\ reserved # None => reserved >= baseline
  /\ \A r \in Requests : Creating(r) => req[r].val > baseline
  /\ \A v \in signed : v > baseline

\* Every reservation uses up an attempt, and every request comes with MaxAttempts.
AttemptsSuffice == Taken + Cardinality(Unused) <= MaxAttempts * (next - 1)

ExposureInv == RequestsIssued /\ AboveBaseline /\ AttemptsSuffice

\* There are finitely many attempts.
LEMMA UnusedIsFinite ==
  /\ IsFiniteSet(Unused) /\ Cardinality(Unused) \in Nat
  /\ IsFiniteSet(Unused)' /\ Cardinality(Unused)' \in Nat
<1>1. IsFiniteSet(Requests) /\ IsFiniteSet(1..MaxAttempts)
  BY ClientAssumption, FS_Interval DEF Requests
<1>2. IsFiniteSet(Requests \X (1..MaxAttempts)) BY <1>1, FS_Product
<1>3. Unused \in SUBSET (Requests \X (1..MaxAttempts)) /\ Unused' \in SUBSET (Requests \X (1..MaxAttempts))
  BY DEF Unused
<1>4. IsFiniteSet(Unused) /\ IsFiniteSet(Unused') BY <1>2, <1>3, FS_Subset
<1> QED BY <1>4, FS_CardinalityType

\* A request that goes on has no attempt it had not before.
LEMMA LeftShrinks ==
  ASSUME NEW q \in RequestRecords
  PROVE  /\ LeftOf(FailedRequest) = {} /\ \A v \in Nat : LeftOf(Request("done", v, 0, 0)) = {}
         /\ q.st # "free" /\ q.st # "done" /\ q.st # "failed" => LeftOf(Retried(q)) \subseteq LeftOf(q)
         /\ LeftOf(Attempt(1)) \subseteq 1..MaxAttempts
         /\ q.st = "challenge" =>
              \A rep \in Nat : LeftOf(Request("seeding", 0, q.tries, rep)) \subseteq LeftOf(q)
         /\ q.st \in {"challenge", "seeding"} =>
              \A v \in Nat : LeftOf(Request("creating", v, q.tries, 0)) \subseteq LeftOf(q) \ {q.tries}
         /\ q.st = "creating" => \A v \in Nat : LeftOf(Request("sent", v, q.tries, 0)) \subseteq LeftOf(q)
<1>1. LeftOf(FailedRequest) = {} /\ \A v \in Nat : LeftOf(Request("done", v, 0, 0)) = {}
  BY DEF LeftOf, FailedRequest, Request
<1>2. q.tries \in Nat /\ q.st \in States BY DEF RequestRecords
<1>3. ASSUME q.st # "free", q.st # "done", q.st # "failed" PROVE LeftOf(Retried(q)) \subseteq LeftOf(q)
  <2>1. CASE q.tries < MaxAttempts
    <3>1. Retried(q).st = "challenge" /\ Retried(q).tries = q.tries + 1 BY <2>1 DEF Retried, Attempt, Request
    <3>2. q.st \in {"challenge", "seeding"} \/ q.st \in {"creating", "sent"} BY <1>2, <1>3 DEF States
    <3> QED BY <1>2, <3>1, <3>2 DEF LeftOf
  <2>2. CASE ~(q.tries < MaxAttempts) BY <1>1, <2>2 DEF Retried
  <2> QED BY <2>1, <2>2
<1>4. LeftOf(Attempt(1)) \subseteq 1..MaxAttempts BY DEF LeftOf
<1>5. ASSUME q.st = "challenge", NEW rep \in Nat
      PROVE  LeftOf(Request("seeding", 0, q.tries, rep)) \subseteq LeftOf(q)
  BY <1>5 DEF LeftOf, Request
<1>6. ASSUME q.st \in {"challenge", "seeding"}, NEW v \in Nat
      PROVE  LeftOf(Request("creating", v, q.tries, 0)) \subseteq LeftOf(q) \ {q.tries}
  BY <1>2, <1>6 DEF LeftOf, Request
<1>7. ASSUME q.st = "creating", NEW v \in Nat PROVE LeftOf(Request("sent", v, q.tries, 0)) \subseteq LeftOf(q)
  BY <1>7 DEF LeftOf, Request
<1> QED BY <1>1, <1>3, <1>4, <1>5, <1>6, <1>7

\* What a step that takes no attempt and reserves nothing may do.
LEMMA AttemptsKept ==
  ASSUME TypeOK, AttemptsSuffice, next' = next, Taken' <= Taken, Taken \in Nat, Taken' \in Nat,
         \A r \in Requests : LeftOf(req'[r]) \subseteq LeftOf(req[r])
  PROVE  AttemptsSuffice'
<1>1. Unused' \in SUBSET Unused BY DEF Unused
<1>2. Cardinality(Unused') <= Cardinality(Unused) BY <1>1, UnusedIsFinite, FS_Subset
<1>3. MaxAttempts * (next - 1) \in Int BY ClientAssumption DEF TypeOK
<1>4. Cardinality(Unused)' = Cardinality(Unused') OBVIOUS
<1> QED BY <1>2, <1>3, <1>4, UnusedIsFinite DEF AttemptsSuffice

\* A reservation takes one of the attempts that were left.
LEMMA AttemptTaken ==
  ASSUME TypeOK, AttemptsSuffice, next' = next, Taken \in Nat, Taken' = Taken + 1,
         NEW r \in Requests, r < next, req[r].tries \in LeftOf(req[r]),
         LeftOf(req'[r]) \subseteq LeftOf(req[r]) \ {req[r].tries},
         \A q \in Requests \ {r} : req'[q] = req[q]
  PROVE  AttemptsSuffice'
<1> DEFINE taken == <<r, req[r].tries>>
<1>1. taken \in Unused BY DEF Unused, LeftOf
<1>2. Unused' \in SUBSET (Unused \ {taken})
  <2>1. ASSUME NEW p \in Unused' PROVE p \in Unused /\ p # taken
    <3>1. p \in Requests \X (1..MaxAttempts) /\ p[1] < next /\ p[2] \in LeftOf(req'[p[1]]) BY DEF Unused
    <3>2. CASE p[1] = r BY <3>1, <3>2 DEF Unused
    <3>3. CASE p[1] # r BY <3>1, <3>3 DEF Unused
    <3> QED BY <3>2, <3>3
  <2> QED BY <2>1
<1> HIDE DEF taken
<1>3. IsFiniteSet(Unused \ {taken}) /\ Cardinality(Unused \ {taken}) = Cardinality(Unused) - 1
  BY <1>1, UnusedIsFinite, FS_RemoveElement
<1>4. Cardinality(Unused') <= Cardinality(Unused) - 1 BY <1>2, <1>3, FS_Subset
<1>5. MaxAttempts * (next - 1) \in Int BY ClientAssumption DEF TypeOK
<1>6. Cardinality(Unused)' = Cardinality(Unused') OBVIOUS
<1> QED BY <1>4, <1>5, <1>6, UnusedIsFinite DEF AttemptsSuffice

\* A request that is issued brings its attempts.
LEMMA AttemptsAdded ==
  ASSUME TypeOK, AttemptsSuffice, next \in Requests, next' = next + 1, Taken' = Taken, Taken \in Nat,
         \A r \in Requests \ {next} : LeftOf(req'[r]) \subseteq LeftOf(req[r])
  PROVE  AttemptsSuffice'
<1> DEFINE brought == {next} \X (1..MaxAttempts)
<1>1. Unused' \in SUBSET (Unused \cup brought)
  <2>1. ASSUME NEW p \in Unused' PROVE p \in Unused \cup brought
    <3>1. /\ p \in Requests \X (1..MaxAttempts) /\ p[1] < next + 1 /\ p[2] \in LeftOf(req'[p[1]])
      BY DEF Unused
    <3>2. CASE p[1] = next BY <3>1, <3>2
    <3>3. CASE p[1] # next
      <4>1. p[1] \in Nat /\ next \in Nat BY <3>1, ClientAssumption DEF Requests, TypeOK
      <4>2. p[1] < next BY <3>1, <3>3, <4>1
      <4> QED BY <3>1, <3>3, <4>2 DEF Unused
    <3> QED BY <3>2, <3>3
  <2> QED BY <2>1
<1>2. IsFiniteSet(brought) /\ Cardinality(brought) = MaxAttempts
  <2>1. IsFiniteSet({next}) /\ Cardinality({next}) = 1 BY FS_Singleton
  <2>2. IsFiniteSet(1..MaxAttempts) /\ Cardinality(1..MaxAttempts) = MaxAttempts
    BY ClientAssumption, FS_Interval
  <2>3. IsFiniteSet(brought) /\ Cardinality(brought) = 1 * MaxAttempts BY <2>1, <2>2, FS_Product
  <2> QED BY <2>3, ClientAssumption
<1> HIDE DEF brought
<1>3. IsFiniteSet(Unused \cup brought) /\ Cardinality(Unused \cup brought) <= Cardinality(Unused) + MaxAttempts
  <2>1. IsFiniteSet(Unused \cup brought)
        /\ Cardinality(Unused \cup brought)
             = Cardinality(Unused) + Cardinality(brought) - Cardinality(Unused \cap brought)
    BY <1>2, UnusedIsFinite, FS_Union
  <2>2. IsFiniteSet(Unused \cap brought) BY UnusedIsFinite, FS_Intersection
  <2>3. Cardinality(Unused \cap brought) \in Nat BY <2>2, FS_CardinalityType
  <2> QED BY <1>2, <2>1, <2>3, UnusedIsFinite, ClientAssumption
<1>4. Cardinality(Unused') <= Cardinality(Unused \cup brought) BY <1>1, <1>3, FS_Subset
<1>5. Cardinality(Unused \cup brought) \in Nat BY <1>3, FS_CardinalityType
<1>6. MaxAttempts * ((next + 1) - 1) = MaxAttempts * (next - 1) + MaxAttempts
      /\ MaxAttempts * (next - 1) \in Int /\ MaxAttempts \in Nat
  BY ClientAssumption DEF TypeOK
<1>7. Cardinality(Unused)' = Cardinality(Unused') OBVIOUS
<1> QED BY <1>3, <1>4, <1>5, <1>6, <1>7, UnusedIsFinite DEF AttemptsSuffice

\* What has been taken is never less than nothing.
LEMMA TakenIsNat == ASSUME TypeOK, AboveBaseline PROVE Taken \in Nat
BY DEF TypeOK, AboveBaseline, Taken

\* Nothing was issued at the start.
LEMMA InitExposure == Init => ExposureInv
<1> SUFFICES ASSUME Init PROVE ExposureInv OBVIOUS
<1>1. RequestsIssued BY DEF Init, RequestsIssued, FreeRequest, Request
<1>2. AboveBaseline BY DEF Init, AboveBaseline, Creating, FreeRequest, Request
<1>3. Unused = {} BY DEF Init, Unused, Requests
<1>4. Cardinality(Unused) = 0 BY <1>3, FS_EmptySet
<1>5. Taken = 0 /\ MaxAttempts * (next - 1) = 0 BY ClientAssumption DEF Init, Taken
<1>6. AttemptsSuffice BY <1>4, <1>5 DEF AttemptsSuffice
<1> QED BY <1>1, <1>2, <1>6 DEF ExposureInv

\* Requests that stay as they are or fail need nothing.
LEMMA FrameExposure ==
  ASSUME TypeOK, ExposureInv, UNCHANGED <<reserved, stored, baseline, signed, next>>,
         \A r \in Requests : req'[r] = req[r] \/ (req'[r].st = "failed" /\ req[r].st # "free")
  PROVE  ExposureInv'
<1>1. RequestsIssued' BY DEF ExposureInv, RequestsIssued
<1>2. AboveBaseline' BY DEF ExposureInv, AboveBaseline, Creating
<1>3. Taken' = Taken /\ Taken \in Nat BY TakenIsNat DEF ExposureInv, Taken
<1>4. \A r \in Requests : LeftOf(req'[r]) \subseteq LeftOf(req[r]) BY DEF LeftOf
<1>5. AttemptsSuffice' BY <1>3, <1>4, AttemptsKept DEF ExposureInv
<1> QED BY <1>1, <1>2, <1>5 DEF ExposureInv

\* A request that goes on without a reservation, and may give one back.
LEMMA ChangeOneExposure ==
  ASSUME TypeOK, ExposureInv, UNCHANGED <<stored, baseline, signed, next>>,
         NEW r \in Requests, req[r].st # "free", NEW q, req' = [req EXCEPT ![r] = q],
         q.st \notin {"free", "creating"}, q.st \in {"challenge", "seeding"} => q.tries >= 1,
         LeftOf(q) \subseteq LeftOf(req[r]),
         \/ reserved' = reserved
         \/ reserved \in Nat /\ reserved' \in Nat /\ reserved' = reserved - 1 /\ reserved > baseline
  PROVE  ExposureInv'
<1>1. req'[r] = q /\ \A p \in Requests \ {r} : req'[p] = req[p] BY DEF TypeOK
<1>2. RequestsIssued' BY <1>1 DEF ExposureInv, RequestsIssued
<1>3. baseline \in Nat /\ None = -1 BY DEF TypeOK, None
<1>4. AboveBaseline' BY <1>1, <1>3 DEF ExposureInv, AboveBaseline, Creating
<1>5. Taken \in Nat /\ Taken' \in Nat /\ Taken' <= Taken
  BY <1>3, TakenIsNat DEF ExposureInv, AboveBaseline, Taken
<1>6. \A p \in Requests : LeftOf(req'[p]) \subseteq LeftOf(req[p]) BY <1>1
<1>7. AttemptsSuffice' BY <1>5, <1>6, AttemptsKept DEF ExposureInv
<1> QED BY <1>2, <1>4, <1>7 DEF ExposureInv

\* A reservation is one above the last, or above the baseline.
LEMMA ReserveExposure ==
  ASSUME TypeOK, ExposureInv, UNCHANGED <<stored, baseline, signed, next>>,
         NEW r \in Requests, req[r].st \in {"challenge", "seeding"}, NEW reported,
         NEW base \in Nat, base = IF reserved = None THEN baseline ELSE reserved,
         Reserve(r, reported, base)
  PROVE  ExposureInv'
<1>0. req[r] \in RequestRecords BY DEF TypeOK
<1>1. CASE reported > base
  <2>1. req' = [req EXCEPT ![r] = FailedRequest] /\ reserved' = reserved BY <1>1 DEF Reserve
  <2>2. LeftOf(FailedRequest) \subseteq LeftOf(req[r]) /\ FailedRequest.st = "failed"
    BY <1>0, LeftShrinks, NamedRequests
  <2> QED BY <2>1, <2>2, ChangeOneExposure
<1>2. CASE ~(reported > base)
  <2> DEFINE q == Request("creating", base + 1, req[r].tries, 0)
  <2>1. req' = [req EXCEPT ![r] = q] /\ reserved' = base + 1 BY <1>2 DEF Reserve
  <2>2. q.st = "creating" /\ q.val = base + 1 BY DEF Request
  <2>3. base + 1 \in Nat OBVIOUS
  <2>4. LeftOf(q) \subseteq LeftOf(req[r]) \ {req[r].tries} BY <1>0, <2>3, LeftShrinks
  <2> HIDE DEF q
  <2>5. req'[r] = q /\ \A p \in Requests \ {r} : req'[p] = req[p] BY <2>1 DEF TypeOK
  <2>6. RequestsIssued' BY <2>2, <2>5 DEF ExposureInv, RequestsIssued
  <2>7. base >= baseline /\ baseline \in Nat /\ reserved' # None BY <2>1 DEF ExposureInv, AboveBaseline, TypeOK, None
  <2>8. AboveBaseline' BY <2>1, <2>2, <2>3, <2>5, <2>7 DEF ExposureInv, AboveBaseline, Creating
  <2>9. Taken \in Nat /\ Taken' = Taken + 1
    BY <2>1, <2>7, TakenIsNat DEF ExposureInv, Taken, TypeOK
  <2>10. r < next /\ req[r].tries \in LeftOf(req[r])
    <3>1. req[r].tries >= 1 /\ r < next BY DEF ExposureInv, RequestsIssued
    <3>2. req[r].tries \in 1..MaxAttempts BY <1>0, <3>1 DEF RequestRecords
    <3> QED BY <3>1, <3>2 DEF LeftOf
  <2>11. AttemptsSuffice' BY <2>4, <2>5, <2>9, <2>10, AttemptTaken DEF ExposureInv
  <2> QED BY <2>6, <2>8, <2>11 DEF ExposureInv
<1> QED BY <1>1, <1>2

\* A request that is issued, or fails before it is sent, as its stream ends.
LEMMA IssueExposure ==
  ASSUME TypeOK, ExposureInv, UNCHANGED <<reservation, signed>>, next \in Requests, next' = next + 1,
         req'[next] = Attempt(1) \/ req'[next] = FailedRequest,
         \A r \in Requests \ {next} : req'[r] = req[r] \/ (req'[r].st = "failed" /\ req[r].st # "free")
  PROVE  ExposureInv'
<1>1. Attempt(1).st = "challenge" /\ Attempt(1).tries = 1 /\ FailedRequest.st = "failed"
  BY DEF Attempt, FailedRequest, Request
<1>2. next \in Nat /\ \A r \in Requests : r \in Nat BY DEF TypeOK, Requests
<1>3. RequestsIssued' BY <1>1, <1>2 DEF ExposureInv, RequestsIssued
<1>4. AboveBaseline' BY <1>1 DEF ExposureInv, AboveBaseline, Creating, reservation
<1>5. Taken' = Taken /\ Taken \in Nat BY TakenIsNat DEF ExposureInv, Taken, reservation
<1>6. \A r \in Requests \ {next} : LeftOf(req'[r]) \subseteq LeftOf(req[r]) BY DEF LeftOf
<1>7. AttemptsSuffice' BY <1>5, <1>6, AttemptsAdded DEF ExposureInv
<1> QED BY <1>3, <1>4, <1>7 DEF ExposureInv

\* Every step of a request keeps the account of attempts.
LEMMA RequestExposure == ASSUME VouchersInv, ExposureInv, NEW r \in Requests, RequestStep(r) PROVE ExposureInv'
<1> USE DEF VouchersInv
<1>t. req[r] \in RequestRecords /\ req \in [Requests -> RequestRecords] BY DEF TypeOK
<1>f. LeftOf(FailedRequest) \subseteq LeftOf(req[r]) /\ FailedRequest.st = "failed"
  BY <1>t, LeftShrinks, NamedRequests
<1>r. /\ Retried(req[r]).st \in {"challenge", "failed"}
      /\ Retried(req[r]).st = "challenge" => Retried(req[r]).tries >= 1
      /\ req[r].st \notin {"free", "done", "failed"} => LeftOf(Retried(req[r])) \subseteq LeftOf(req[r])
  <2>1. req[r].tries \in Nat BY <1>t DEF RequestRecords
  <2> QED BY <1>t, <2>1, LeftShrinks, RetriedType, NamedRequests DEF Retried, Attempt, Request
<1>1. ASSUME NEW reported \in Reports, ReserveNextCumulative(r, reported) PROVE ExposureInv'
  <2>1. req[r].st = "challenge" /\ UNCHANGED <<stored, baseline, signed, next>> /\ reported \in Nat
    BY <1>1, ClientAssumption DEF ReserveNextCumulative, stream, history
  <2>2. CASE reserved # None /\ Reserve(r, reported, reserved)
    BY <2>1, <2>2, ReserveExposure DEF TypeOK
  <2>3. CASE reserved = None /\ stored = None /\ Reserve(r, reported, 0)
    <3>1. baseline = 0 BY <2>3 DEF ExposureInv, AboveBaseline
    <3> QED BY <2>1, <2>3, <3>1, ReserveExposure
  <2>4. CASE /\ req' = [req EXCEPT ![r] = Request("seeding", 0, req[r].tries, reported)]
             /\ UNCHANGED reserved
    <3> DEFINE q == Request("seeding", 0, req[r].tries, reported)
    <3>1. LeftOf(q) \subseteq LeftOf(req[r]) BY <1>t, <2>1, LeftShrinks
    <3>2. q.st = "seeding" /\ q.tries = req[r].tries BY DEF Request
    <3>3. req[r].tries >= 1 BY <2>1 DEF ExposureInv, RequestsIssued
    <3> HIDE DEF q
    <3> QED BY <2>1, <2>4, <3>1, <3>2, <3>3, ChangeOneExposure DEF q
  <2>5. CASE req' = [req EXCEPT ![r] = FailedRequest] /\ UNCHANGED reserved
    BY <1>f, <2>1, <2>5, ChangeOneExposure
  <2> QED BY <1>1, <2>2, <2>3, <2>4, <2>5 DEF ReserveNextCumulative
<1>2. ASSUME SeedFromStore(r) PROVE ExposureInv'
  <2> DEFINE base == IF reserved # None THEN reserved ELSE stored
  <2>1. req[r].st = "seeding" /\ UNCHANGED <<stored, baseline, signed, next>> /\ Reserve(r, req[r].rep, base)
    BY <1>2 DEF SeedFromStore, stream, history
  <2>2. stored # None BY <2>1 DEF SeedingHasStore
  <2>3. base \in Nat /\ base = IF reserved = None THEN baseline ELSE reserved
    BY <2>2 DEF TypeOK, ExposureInv, AboveBaseline
  <2> HIDE DEF base
  <2> QED BY <2>1, <2>3, ReserveExposure
<1>3. ASSUME SignVoucher(r) PROVE ExposureInv'
  <2>1. /\ req[r].st = "creating" /\ stored' = IF stored # None THEN req[r].val ELSE None
        /\ signed' = signed \cup {req[r].val} /\ UNCHANGED <<reserved, baseline, next>>
    BY <1>3 DEF SignVoucher, stream
  <2>2. reserved # None /\ req[r].val > baseline
    BY <2>1 DEF ReserveInv, BelowReservation, Creating, ExposureInv, AboveBaseline
  <2>3. /\ req'[r].st \in {"failed", "sent"} /\ LeftOf(req'[r]) \subseteq LeftOf(req[r])
        /\ \A p \in Requests \ {r} : req'[p] = req[p]
    <3>1. req[r].val \in Nat BY <1>t DEF RequestRecords
    <3>2. LeftOf(Request("sent", req[r].val, req[r].tries, 0)) \subseteq LeftOf(req[r])
      BY <1>t, <2>1, <3>1, LeftShrinks
    <3>3. Request("sent", req[r].val, req[r].tries, 0).st = "sent" BY DEF Request
    <3> QED BY <1>3, <1>f, <1>t, <3>2, <3>3 DEF SignVoucher
  <2>4. RequestsIssued' BY <2>1, <2>3 DEF ExposureInv, RequestsIssued
  <2>5. AboveBaseline' BY <2>1, <2>2, <2>3 DEF ExposureInv, AboveBaseline, Creating
  <2>6. Taken' = Taken /\ Taken \in Nat BY <2>1, TakenIsNat DEF ExposureInv, Taken
  <2>7. AttemptsSuffice' BY <2>1, <2>3, <2>6, AttemptsKept DEF ExposureInv
  <2> QED BY <2>4, <2>5, <2>7 DEF ExposureInv
<1>4. ASSUME NEW retryable \in BOOLEAN, CredentialFails(r, retryable) PROVE ExposureInv'
  <2>1. /\ req[r].st = "creating" /\ reserved' = ReleasedTo(req[r].val)
        /\ UNCHANGED <<stored, baseline, signed, next>>
    BY <1>4 DEF CredentialFails, stream, history
  <2>2. req[r].val > baseline /\ reserved # None
    BY <2>1 DEF ReserveInv, BelowReservation, Creating, ExposureInv, AboveBaseline
  <2>3. \/ reserved' = reserved
        \/ reserved \in Nat /\ reserved' \in Nat /\ reserved' = reserved - 1 /\ reserved > baseline
    BY <2>1, <2>2 DEF ReleasedTo, TypeOK
  <2>4. \/ req' = [req EXCEPT ![r] = FailedRequest] \/ req' = [req EXCEPT ![r] = Retried(req[r])]
    BY <1>4 DEF CredentialFails
  <2> QED BY <1>f, <1>r, <2>1, <2>3, <2>4, ChangeOneExposure
<1>5. ASSUME \/ \E retryable \in BOOLEAN : SeedFails(r, retryable)
             \/ RejectChallenge(r) \/ ResponseOk(r) \/ ResponseRetryable(r) \/ ResponseRejected(r)
      PROVE  ExposureInv'
  <2>1. UNCHANGED <<reserved, stored, baseline, signed, next>> /\ req[r].st \in {"challenge", "seeding", "sent"}
    BY <1>5 DEF SeedFails, RejectChallenge, ResponseOk, ResponseRetryable, ResponseRejected,
        reservation, stream, history
  <2>2. \/ req' = [req EXCEPT ![r] = FailedRequest]
        \/ req' = [req EXCEPT ![r] = Retried(req[r])]
        \/ req' = [req EXCEPT ![r] = Request("done", req[r].val, 0, 0)]
    BY <1>5 DEF SeedFails, RejectChallenge, ResponseOk, ResponseRetryable, ResponseRejected
  <2>3. req[r].val \in Nat BY <1>t DEF RequestRecords
  <2>4. /\ Request("done", req[r].val, 0, 0).st = "done"
        /\ LeftOf(Request("done", req[r].val, 0, 0)) \subseteq LeftOf(req[r])
    BY <1>t, <2>3, LeftShrinks DEF Request
  <2> QED BY <1>f, <1>r, <2>1, <2>2, <2>4, ChangeOneExposure
<1> QED BY <1>1, <1>2, <1>3, <1>4, <1>5 DEF RequestStep

\* An abort fails requests that had been issued, and leaves the others.
LEMMA AbandonedFails ==
  ASSUME TypeOK, NEW r \in Requests
  PROVE  Abandoned[r] = req[r] \/ (Abandoned[r].st = "failed" /\ req[r].st # "free")
BY NamedRequests DEF Abandoned

\* Every step of the generator keeps the account of attempts.
LEMMA StreamExposure == ASSUME TypeOK, ExposureInv, StreamStep PROVE ExposureInv'
<1>e. ASSUME EndStream PROVE ExposureInv'
  BY <1>e, AbandonedFails, FrameExposure DEF EndStream, reservation, history
<1>f. ASSUME DoFetch PROVE ExposureInv'
  <2>1. next \in Requests BY <1>f DEF DoFetch, Requests, TypeOK
  <2>2. req'[next] = Attempt(1) /\ \A r \in Requests \ {next} : req'[r] = req[r]
    BY <1>f, <2>1 DEF DoFetch, TypeOK
  <2> QED BY <1>f, <2>1, <2>2, IssueExposure DEF DoFetch, history
<1>1. ASSUME FillClosedWindow PROVE ExposureInv'
  <2>1. next \in Requests BY <1>1 DEF FillClosedWindow, Requests, TypeOK
  <2>2. req' = [Abandoned EXCEPT ![next] = FailedRequest] /\ next' = next + 1 /\ UNCHANGED <<reservation, signed>>
    BY <1>1 DEF FillClosedWindow, history
  <2>3. req'[next] = FailedRequest /\ \A r \in Requests \ {next} : req'[r] = Abandoned[r]
    BY <2>1, <2>2, AbandonedType
  <2>4. \A r \in Requests \ {next} : req'[r] = req[r] \/ (req'[r].st = "failed" /\ req[r].st # "free")
    BY <2>3, AbandonedFails
  <2> QED BY <2>1, <2>2, <2>3, <2>4, IssueExposure
<1>2. ASSUME UNCHANGED <<reservation, next, history, req>> PROVE ExposureInv'
  BY <1>2, FrameExposure DEF reservation, history
<1>3. ASSUME StartStream PROVE ExposureInv' BY <1>2, <1>3, <1>e DEF StartStream
<1>4. ASSUME TakeHead PROVE ExposureInv' BY <1>2, <1>4 DEF TakeHead
<1>5. ASSUME Pull PROVE ExposureInv' BY <1>2, <1>5, <1>e DEF Pull
<1> QED BY <1>1, <1>3, <1>4, <1>5, <1>e, <1>f
        DEF StreamStep, FillWindow, RefillWindow, HeadFails, SpendRejected, Break

\* A stream over a socket brings attempts as well, and an upgrade needs none.
LEMMA SocketExposure == ASSUME TypeOK, ExposureInv, SocketVoucherStep PROVE ExposureInv'
<1>1. ASSUME NEW r \in Streams, StartSocketStream(r) PROVE ExposureInv'
  <2>1. /\ next \in Requests /\ next' = next + 1 /\ req' = [req EXCEPT ![next] = Attempt(1)]
        /\ UNCHANGED <<reservation, signed>>
    BY <1>1, StartSocketIs DEF history
  <2>2. req'[next] = Attempt(1) /\ \A q \in Requests \ {next} : req'[q] = req[q]
    BY <2>1 DEF TypeOK
  <2> QED BY <2>1, <2>2, IssueExposure
<1>2. ASSUME NEW r \in Streams, Upgrade(r) PROVE ExposureInv'
  <2> DEFINE q == Request("done", req[r].val, 0, 0)
  <2>1. /\ r \in Requests /\ req[r].st = "sent" /\ req' = [req EXCEPT ![r] = q]
        /\ UNCHANGED <<reserved, stored, baseline, signed, next>>
    BY <1>2, UpgradeIs DEF reservation, stream, history
  <2>2. req[r] \in RequestRecords /\ req[r].val \in Nat BY <2>1 DEF TypeOK, RequestRecords
  <2>3. q.st = "done" /\ LeftOf(q) \subseteq LeftOf(req[r]) BY <2>2, LeftShrinks DEF Request
  <2> HIDE DEF q
  <2> QED BY <2>1, <2>3, ChangeOneExposure
<1> QED BY <1>1, <1>2 DEF SocketVoucherStep

\* Every step keeps the account of attempts.
LEMMA ExposureStepInv ==
  VouchersInv /\ ExposureInv /\ [OrderbookNext]_orderbookVars => ExposureInv'
<1> SUFFICES ASSUME VouchersInv, ExposureInv, [OrderbookNext]_orderbookVars PROVE ExposureInv'
  OBVIOUS
<1>1. TypeOK BY DEF VouchersInv
<1>2. CASE SocketVoucherStep BY <1>1, <1>2, SocketExposure
<1>3. CASE \E r \in Requests : RequestStep(r) BY <1>3, RequestExposure
<1>4. CASE StreamStep BY <1>1, <1>4, StreamExposure
<1>5. ASSUME UNCHANGED <<reservation, next, history, req>> PROVE ExposureInv'
  BY <1>1, <1>5, FrameExposure DEF reservation, history
<1>6. CASE CloseStep
  BY <1>5, <1>6 DEF CloseStep, Close, PrepareCommitment, SendDelete, CloseSettles, CloseFails, stream
<1>7. CASE UNCHANGED vars BY <1>5, <1>7 DEF vars, stream
<1> QED BY <1>2, <1>3, <1>4, <1>6, <1>7, SessionSteps DEF Next

\* Types, reservation and the account of attempts hold at all times.
LEMMA VouchersAlways == ProvidersSpec => [](VouchersInv /\ ExposureInv)
<1>1. OrderbookInit => VouchersInv /\ ExposureInv
  BY VouchersInitInv, InitExposure DEF OrderbookInit, SessionInit
<1>2. VouchersInv /\ ExposureInv /\ [OrderbookNext]_orderbookVars => (VouchersInv /\ ExposureInv)'
  BY VouchersStepInv, ExposureStepInv
<1> QED BY <1>1, <1>2, PTL DEF ProvidersSpec

\* Over HTTP and over sockets, with any provider: no cumulative is signed twice.
THEOREM SessionSignsOnce == ProvidersSpec => []NoCumulativeTwice
<1>1. VouchersInv => NoCumulativeTwice BY DEF VouchersInv, ReserveInv
<1> QED BY <1>1, VouchersAlways, PTL

\* Whatever providers report, reject or leave unanswered, and however streams retry: a
\* channel is committed above its baseline for at most MaxAttempts vouchers for each
\* request the spend hook accepted.
THEOREM ChannelExposure == ProvidersSpec => []ExposureBounded
<1>1. ASSUME VouchersInv, ExposureInv PROVE ExposureBounded
  <2>1. ASSUME NEW v \in signed PROVE v > baseline /\ v - baseline <= MaxAttempts * Spent
    <3>1. v > baseline BY <1>1 DEF ExposureInv, AboveBaseline
    <3>2. reserved # None /\ v <= reserved BY <1>1 DEF VouchersInv, ReserveInv, BelowReservation
    <3>3. v \in Nat /\ reserved \in Nat /\ baseline \in Nat /\ MaxAttempts * (next - 1) \in Int
      BY <1>1, <3>2, ClientAssumption DEF VouchersInv, TypeOK
    <3>4. reserved - baseline <= MaxAttempts * (next - 1)
      BY <1>1, <3>2, <3>3, UnusedIsFinite DEF ExposureInv, AttemptsSuffice, Taken
    <3> QED BY <3>1, <3>2, <3>3, <3>4 DEF Spent
  <2> QED BY <2>1 DEF ExposureBounded
<1> QED BY <1>1, VouchersAlways, PTL

----------------------------------------------------------------------------
\* One numbering of vouchers

\* The last number drawn, and what each request holds.
Last == IF reserved = None THEN baseline ELSE reserved
Held == [r \in Requests |-> IF Creating(r) THEN req[r].val ELSE 0]

\* A request that waits, fails, is retried or is answered holds what it held.
LEMMA HoldsTheSame ==
  ASSUME \A r \in Requests : Creating(r) \/ req'[r].st = "creating" => req'[r] = req[r]
  PROVE  Held' = Held
BY DEF Held, Creating

\* Steps that neither draw, sign nor put back change no number; an issued request
\* brings its tries.
LEMMA QuietNumbers ==
  ASSUME UNCHANGED <<reserved, baseline, signed>>, Held' = Held
  PROVE  /\ next' = next => UNCHANGED Numbers!numbers
         /\ next' = next + 1 /\ next \in Nat => Numbers!Accept
<1>1. ASSUME next' = next PROVE UNCHANGED Numbers!numbers
  BY <1>1 DEF Numbers!numbers, Held, Creating, Spent
<1>2. ASSUME next' = next + 1, next \in Nat PROVE Numbers!Accept
  <2>1. Spent' = Spent + 1 BY <1>2 DEF Spent
  <2> QED BY <2>1 DEF Numbers!Accept, Held, Creating
<1> QED BY <1>1, <1>2

\* A reservation draws the next number, whatever the challenge reported, and takes
\* one of the tries that are left.
LEMMA ReserveDraws ==
  ASSUME VouchersInv, ExposureInv, ExposureInv', NEW r \in Requests, ~Creating(r), NEW reported,
         UNCHANGED <<baseline, signed, next>>, Reserve(r, reported, Last)
  PROVE  Numbers!Draw(r) \/ UNCHANGED Numbers!numbers
<1>t. req \in [Requests -> RequestRecords] /\ Last \in Nat /\ baseline \in Nat /\ next \in Nat
  BY DEF VouchersInv, TypeOK, Last
<1>1. CASE reported > Last
  <2>1. UNCHANGED reserved /\ req' = [req EXCEPT ![r] = FailedRequest] BY <1>1 DEF Reserve
  <2>2. \A q \in Requests : Creating(q) \/ req'[q].st = "creating" => req'[q] = req[q]
    BY <1>t, <2>1, NamedRequests DEF Creating
  <2> QED BY <2>1, <2>2, HoldsTheSame, QuietNumbers
<1>2. CASE ~(reported > Last)
  <2> DEFINE q == Request("creating", Last + 1, req[r].tries, 0)
  <2>1. reserved' = Last + 1 /\ req' = [req EXCEPT ![r] = q] BY <1>2 DEF Reserve
  <2>2. q.st = "creating" /\ q.val = Last + 1 BY DEF Request
  <2> HIDE DEF q
  <2>3. Last' = Last + 1 /\ Last' = reserved' BY <1>t, <2>1 DEF Last, None
  <2>4. Held' = [Held EXCEPT ![r] = Last + 1]
    <3>1. Held'[r] = Last + 1 BY <1>t, <2>1, <2>2 DEF Held, Creating
    <3>2. \A p \in Requests \ {r} : Held'[p] = Held[p] BY <1>t, <2>1 DEF Held, Creating
    <3>3. Held \in [Requests -> Nat] BY <1>t DEF Held, RequestRecords
    <3>4. Held' = [p \in Requests |-> Held'[p]] BY DEF Held
    <3> QED BY <3>1, <3>2, <3>3, <3>4
  <2>5. Last - baseline < MaxAttempts * Spent
    <3>1. Taken' = Last + 1 - baseline BY <1>t, <2>1 DEF Taken, None
    <3>2. (Taken + Cardinality(Unused) <= MaxAttempts * (next - 1))' BY DEF ExposureInv, AttemptsSuffice
    <3>3. MaxAttempts * (next - 1) \in Int /\ next' = next BY <1>t, ClientAssumption
    <3> QED BY <1>t, <3>1, <3>2, <3>3, UnusedIsFinite DEF Spent
  <2>6. Held[r] = 0 /\ Spent' = Spent BY DEF Held, Spent
  <2> QED BY <2>3, <2>4, <2>5, <2>6 DEF Numbers!Draw, Held, Creating, Last
<1> QED BY <1>1, <1>2

\* What leaves "creating" holds nothing more.
LEMMA HoldsNothing ==
  ASSUME TypeOK, NEW r \in Requests, NEW q, q.st # "creating", req' = [req EXCEPT ![r] = q]
  PROVE  Held' = [Held EXCEPT ![r] = 0]
<1>1. Held'[r] = 0 /\ \A p \in Requests \ {r} : Held'[p] = Held[p] BY DEF TypeOK, Held, Creating
<1>2. Held = [p \in Requests |-> Held[p]] /\ Held' = [p \in Requests |-> Held'[p]] BY DEF Held
<1> QED BY <1>1, <1>2

\* Every step of a request draws a number, signs or puts back the one it holds, or
\* leaves the numbers alone.
LEMMA RequestNumbers ==
  ASSUME VouchersInv, ExposureInv, ExposureInv', NEW r \in Requests, RequestStep(r)
  PROVE  Numbers!Draw(r) \/ Numbers!Sign(r) \/ Numbers!PutBack(r) \/ UNCHANGED Numbers!numbers
<1>t. req[r] \in RequestRecords /\ req \in [Requests -> RequestRecords] /\ TypeOK BY DEF VouchersInv, TypeOK
<1>r. Retried(req[r]).st # "creating" BY <1>t, RetriedType
<1>q. ASSUME NEW q, q.st # "creating", ~Creating(r), req' = [req EXCEPT ![r] = q],
             UNCHANGED <<reserved, baseline, signed, next>>
      PROVE  UNCHANGED Numbers!numbers
  <2>1. \A p \in Requests : Creating(p) \/ req'[p].st = "creating" => req'[p] = req[p]
    BY <1>t, <1>q DEF Creating
  <2> QED BY <1>q, <2>1, HoldsTheSame, QuietNumbers
<1>h. Creating(r) => Held[r] = req[r].val /\ req[r].val # 0
  BY DEF VouchersInv, ReserveInv, BelowReservation, Held
<1>1. ASSUME NEW reported \in Reports, ReserveNextCumulative(r, reported)
      PROVE  Numbers!Draw(r) \/ UNCHANGED Numbers!numbers
  <2>1. req[r].st = "challenge" /\ ~Creating(r) /\ UNCHANGED <<baseline, signed, next>>
    BY <1>1 DEF ReserveNextCumulative, stream, history, Creating
  <2>2. CASE reserved # None /\ Reserve(r, reported, reserved)
    BY <2>1, <2>2, ReserveDraws DEF Last
  <2>3. CASE reserved = None /\ stored = None /\ Reserve(r, reported, 0)
    <3>1. Last = 0 BY <2>3 DEF ExposureInv, AboveBaseline, Last
    <3> QED BY <2>1, <2>3, <3>1, ReserveDraws
  <2>4. CASE /\ req' = [req EXCEPT ![r] = Request("seeding", 0, req[r].tries, reported)]
             /\ UNCHANGED reserved
    <3>1. Request("seeding", 0, req[r].tries, reported).st # "creating" BY DEF Request
    <3> QED BY <1>q, <2>1, <2>4, <3>1
  <2>5. CASE req' = [req EXCEPT ![r] = FailedRequest] /\ UNCHANGED reserved
    BY <1>q, <2>1, <2>5, NamedRequests
  <2> QED BY <1>1, <2>2, <2>3, <2>4, <2>5 DEF ReserveNextCumulative
<1>2. ASSUME SeedFromStore(r) PROVE Numbers!Draw(r) \/ UNCHANGED Numbers!numbers
  <2>1. /\ req[r].st = "seeding" /\ ~Creating(r) /\ UNCHANGED <<baseline, signed, next>>
        /\ Reserve(r, req[r].rep, IF reserved # None THEN reserved ELSE stored)
    BY <1>2 DEF SeedFromStore, stream, history, Creating
  <2>2. stored # None BY <2>1 DEF VouchersInv, SeedingHasStore
  <2>3. Last = IF reserved # None THEN reserved ELSE stored
    BY <2>2 DEF ExposureInv, AboveBaseline, Last
  <2> QED BY <2>1, <2>3, ReserveDraws
<1>3. ASSUME SignVoucher(r) PROVE Numbers!Sign(r)
  <2>1. /\ Creating(r) /\ signed' = signed \cup {req[r].val} /\ UNCHANGED <<reserved, baseline, next>>
    BY <1>3 DEF SignVoucher, stream, Creating
  <2>2. req[r].val \notin signed BY <2>1 DEF VouchersInv, ReserveInv, NoCumulativeTwice, Creating
  <2>3. Request("sent", req[r].val, req[r].tries, 0).st # "creating" BY DEF Request
  <2>4. Held' = [Held EXCEPT ![r] = 0]
    BY <1>3, <1>t, <2>3, NamedRequests, HoldsNothing DEF SignVoucher
  <2> QED BY <1>h, <2>1, <2>2, <2>4 DEF Numbers!Sign, Held, Creating, Spent
<1>4. ASSUME NEW retryable \in BOOLEAN, CredentialFails(r, retryable) PROVE Numbers!PutBack(r)
  <2>1. Creating(r) /\ reserved' = ReleasedTo(req[r].val) /\ UNCHANGED <<baseline, signed, next>>
    BY <1>4 DEF CredentialFails, stream, history, Creating
  <2>2. Held' = [Held EXCEPT ![r] = 0]
    BY <1>4, <1>t, <1>r, NamedRequests, HoldsNothing DEF CredentialFails
  <2>3. reserved \in Nat /\ reserved # None /\ req[r].val \in 1..reserved /\ Last = reserved
    BY <1>t, <2>1 DEF VouchersInv, ReserveInv, BelowReservation, TypeOK, Last
  <2>4. reserved' \in Nat /\ Last' = reserved' BY <2>1, <2>3 DEF ReleasedTo, Last, None
  <2>5. Last' = IF Last = Held[r] THEN Last - 1 ELSE Last
    BY <1>h, <2>1, <2>3, <2>4 DEF ReleasedTo
  <2> QED BY <1>h, <2>1, <2>2, <2>5 DEF Numbers!PutBack, Held, Creating, Last, Spent
<1>5. ASSUME \/ \E retryable \in BOOLEAN : SeedFails(r, retryable)
             \/ RejectChallenge(r) \/ ResponseOk(r) \/ ResponseRetryable(r) \/ ResponseRejected(r)
      PROVE  UNCHANGED Numbers!numbers
  <2>1. UNCHANGED <<reserved, baseline, signed, next>> /\ ~Creating(r)
    BY <1>5 DEF SeedFails, RejectChallenge, ResponseOk, ResponseRetryable, ResponseRejected,
        reservation, stream, history, Creating
  <2>2. \/ req' = [req EXCEPT ![r] = FailedRequest]
        \/ req' = [req EXCEPT ![r] = Retried(req[r])]
        \/ req' = [req EXCEPT ![r] = Request("done", req[r].val, 0, 0)]
    BY <1>5 DEF SeedFails, RejectChallenge, ResponseOk, ResponseRetryable, ResponseRejected
  <2>3. Request("done", req[r].val, 0, 0).st # "creating" BY DEF Request
  <2> QED BY <1>q, <1>r, <2>1, <2>2, <2>3, NamedRequests
<1> QED BY <1>1, <1>2, <1>3, <1>4, <1>5 DEF RequestStep

\* The generator issues requests, and abandons none that holds a number.
LEMMA StreamNumbers ==
  ASSUME TypeOK, ExposureInv, StreamStep
  PROVE  Numbers!Accept \/ UNCHANGED Numbers!numbers
<1>a. \A r \in Requests : Creating(r) \/ Abandoned[r].st = "creating" => Abandoned[r] = req[r]
  BY NamedRequests DEF Abandoned, Creating
<1>n. ASSUME next \in Requests PROVE ~Creating(next) /\ next \in Nat
  BY <1>n, ClientAssumption DEF ExposureInv, RequestsIssued, TypeOK, Creating, Requests
<1>e. ASSUME EndStream PROVE UNCHANGED Numbers!numbers
  BY <1>a, <1>e, HoldsTheSame, QuietNumbers DEF EndStream, reservation, history
<1>f. ASSUME DoFetch PROVE Numbers!Accept
  <2>1. next \in Requests BY <1>f DEF DoFetch, Requests, TypeOK
  <2>2. req'[next] = Attempt(1) /\ \A r \in Requests \ {next} : req'[r] = req[r]
    BY <1>f, <2>1 DEF DoFetch, TypeOK
  <2>3. \A r \in Requests : Creating(r) \/ req'[r].st = "creating" => req'[r] = req[r]
    BY <1>n, <2>1, <2>2, NamedRequests
  <2> QED BY <1>f, <1>n, <2>1, <2>3, HoldsTheSame, QuietNumbers DEF DoFetch, reservation, history
<1>1. ASSUME FillClosedWindow PROVE Numbers!Accept
  <2>1. next \in Requests BY <1>1 DEF FillClosedWindow, Requests, TypeOK
  <2>2. req'[next] = FailedRequest /\ \A r \in Requests \ {next} : req'[r] = Abandoned[r]
    BY <1>1, <2>1, AbandonedType DEF FillClosedWindow
  <2>3. \A r \in Requests : Creating(r) \/ req'[r].st = "creating" => req'[r] = req[r]
    BY <1>a, <1>n, <2>1, <2>2, NamedRequests
  <2> QED BY <1>1, <1>n, <2>1, <2>3, HoldsTheSame, QuietNumbers DEF FillClosedWindow, reservation, history
<1>2. ASSUME UNCHANGED <<reservation, next, history, req>> PROVE UNCHANGED Numbers!numbers
  BY <1>2, HoldsTheSame, QuietNumbers DEF reservation, history
<1>3. ASSUME StartStream PROVE UNCHANGED Numbers!numbers BY <1>2, <1>3, <1>e DEF StartStream
<1>4. ASSUME TakeHead PROVE UNCHANGED Numbers!numbers BY <1>2, <1>4 DEF TakeHead
<1>5. ASSUME Pull PROVE UNCHANGED Numbers!numbers BY <1>2, <1>5, <1>e DEF Pull
<1> QED BY <1>1, <1>3, <1>4, <1>5, <1>e, <1>f
        DEF StreamStep, FillWindow, RefillWindow, HeadFails, SpendRejected, Break

\* A stream over a socket is accepted like a request, and its upgrade holds nothing.
LEMMA SocketNumbers ==
  ASSUME TypeOK, ExposureInv, SocketVoucherStep
  PROVE  Numbers!Accept \/ UNCHANGED Numbers!numbers
<1>1. ASSUME NEW r \in Streams, StartSocketStream(r) PROVE Numbers!Accept
  <2>1. /\ next \in Requests /\ next' = next + 1 /\ req' = [req EXCEPT ![next] = Attempt(1)]
        /\ UNCHANGED <<reserved, baseline, signed>>
    BY <1>1, StartSocketIs DEF reservation, history
  <2>2. ~Creating(next) /\ next \in Nat
    BY <2>1, ClientAssumption DEF ExposureInv, RequestsIssued, TypeOK, Creating, Requests
  <2>3. \A q \in Requests : Creating(q) \/ req'[q].st = "creating" => req'[q] = req[q]
    BY <2>1, <2>2, NamedRequests DEF TypeOK
  <2> QED BY <2>1, <2>2, <2>3, HoldsTheSame, QuietNumbers
<1>2. ASSUME NEW r \in Streams, Upgrade(r) PROVE UNCHANGED Numbers!numbers
  <2>1. /\ r \in Requests /\ ~Creating(r) /\ req' = [req EXCEPT ![r] = Request("done", req[r].val, 0, 0)]
        /\ UNCHANGED <<reserved, baseline, signed, next>>
    BY <1>2, UpgradeIs DEF reservation, stream, history, Creating
  <2>2. Request("done", req[r].val, 0, 0).st # "creating" BY DEF Request
  <2>3. \A q \in Requests : Creating(q) \/ req'[q].st = "creating" => req'[q] = req[q]
    BY <2>1, <2>2 DEF TypeOK, Creating
  <2> QED BY <2>1, <2>3, HoldsTheSame, QuietNumbers
<1> QED BY <1>1, <1>2 DEF SocketVoucherStep

\* Every step of a session is one of the numbering, or none.
LEMMA StepNumbers ==
  ASSUME VouchersInv, ExposureInv, ExposureInv', [OrderbookNext]_orderbookVars
  PROVE  [Numbers!Next]_Numbers!numbers
<1>1. TypeOK BY DEF VouchersInv
<1>2. CASE SocketVoucherStep BY <1>1, <1>2, SocketNumbers DEF Numbers!Next
<1>3. ASSUME NEW r \in Requests, RequestStep(r) PROVE [Numbers!Next]_Numbers!numbers
  BY <1>3, RequestNumbers DEF Numbers!Next
<1>4. CASE StreamStep BY <1>1, <1>4, StreamNumbers DEF Numbers!Next
<1>5. ASSUME UNCHANGED <<reservation, next, history, req>> PROVE UNCHANGED Numbers!numbers
  BY <1>5, HoldsTheSame, QuietNumbers DEF reservation, history
<1>6. CASE CloseStep
  BY <1>5, <1>6 DEF CloseStep, Close, PrepareCommitment, SendDelete, CloseSettles, CloseFails, stream
<1>7. CASE UNCHANGED vars BY <1>5, <1>7 DEF vars, stream
<1> QED BY <1>2, <1>3, <1>4, <1>6, <1>7, SessionSteps DEF Next

\* A session starts with nothing drawn.
LEMMA InitNumbers == Init => Numbers!Init
<1> SUFFICES ASSUME Init PROVE Numbers!Init OBVIOUS
<1>1. baseline \in Nat BY ClientAssumption DEF Init, None
<1>2. \A r \in Requests : req[r].st # "creating" BY NamedRequests DEF Init
<1> QED BY <1>1, <1>2 DEF Init, Numbers!Init, Spent

\* HTTP requests in any window, negotiations over sockets, retries, releases and a
\* baseline read late all draw from one numbering: number by number from the
\* baseline, each signed by the request that drew it, no more than MaxAttempts of
\* them for what the spend hook accepted, and whatever providers report.
THEOREM OneNumbering == ProvidersSpec => ImplementsNumbers
<1>1. OrderbookInit => Numbers!Init BY InitNumbers DEF OrderbookInit, SessionInit
<1>2. (VouchersInv /\ ExposureInv) /\ (VouchersInv /\ ExposureInv)' /\ [OrderbookNext]_orderbookVars
        => [Numbers!Next]_Numbers!numbers
  BY StepNumbers
<1> QED BY <1>1, <1>2, VouchersAlways, PTL DEF ProvidersSpec, ImplementsNumbers, Numbers!Spec

----------------------------------------------------------------------------
\* Over HTTP a closed session issues at most one more request

\* The order book's route is reached over sockets only.
HttpInv ==
  /\ provider = "orderbook" => mode = "mpp-session-ws"
  /\ mode = "mpp-session" => OverrunInv

\* Over HTTP there are no steps but those of VoucherClient.
LEMMA HttpSteps ==
  ASSUME HttpInv, mode = "mpp-session", [OrderbookNext]_orderbookVars
  PROVE  [Next]_vars
<1>1. CASE OrderbookStep BY <1>1 DEF OrderbookStep, HttpInv
<1>2. CASE HttpStep BY <1>2 DEF HttpStep, Next, CloseStep
<1>3. CASE \E r \in Streams : SocketSessionStep(r) BY <1>3 DEF SocketSessionStep
<1>4. CASE AccountStep
  <2>1. CASE DisputeStep
    BY <2>1 DEF DisputeStep, RequestRefund, PrepareSettlement, Begin, BuildSettlement, SendTransaction,
       DisputeFails, NetworkDecides, ConfirmTransaction
  <2> QED BY <1>4, <2>1 DEF AccountStep
<1>5. CASE UNCHANGED orderbookVars BY <1>5 DEF orderbookVars, sessionVars
<1> QED BY <1>1, <1>2, <1>3, <1>4, <1>5 DEF OrderbookNext, SessionNext

\* A session keeps its transport and its provider.
LEMMA SessionStays == [OrderbookNext]_orderbookVars => UNCHANGED <<mode, provider>>
<1> SUFFICES ASSUME [OrderbookNext]_orderbookVars PROVE UNCHANGED <<mode, provider>>
  OBVIOUS
<1>1. CASE OrderbookStep
  <2>1. UNCHANGED provider BY <1>1 DEF OrderbookStep
  <2>2. UNCHANGED mode
    BY <1>1 DEF OrderbookStep, ClientStep, RouteStep, Upgraded, OnMessage, Tick, Push, OnClose, Lost, Elsewhere,
       sessionVars
  <2> QED BY <2>1, <2>2
<1>2. CASE SessionNext /\ UNCHANGED <<provider, feed>> BY <1>2 DEF SessionNext
<1>3. CASE UNCHANGED orderbookVars BY <1>3 DEF orderbookVars, sessionVars
<1> QED BY <1>1, <1>2, <1>3 DEF OrderbookNext

\* Over HTTP the account of the requests after close() is kept.
LEMMA HttpAlways == ProvidersSpec => []HttpInv
<1>1. OrderbookInit => HttpInv BY InitOverrun DEF OrderbookInit, SessionInit, HttpInv
<1>2. VouchersInv /\ HttpInv /\ [OrderbookNext]_orderbookVars => HttpInv'
  <2> SUFFICES ASSUME VouchersInv, HttpInv, [OrderbookNext]_orderbookVars PROVE HttpInv'
    OBVIOUS
  <2>1. UNCHANGED <<mode, provider>> BY SessionStays
  <2>2. mode = "mpp-session" => OverrunInv'
    BY HttpSteps, NextOverrun DEF HttpInv, VouchersInv
  <2> QED BY <2>1, <2>2 DEF HttpInv
<1> QED BY <1>1, <1>2, VouchersAlways, PTL DEF ProvidersSpec

\* A session over HTTP, with disputes under way or not, issues at most the one request
\* after close() whose checkSpend() or queue head was awaited.
THEOREM SessionOverrunByOne == ProvidersSpec => []HttpOverrunBounded
<1>1. HttpInv => HttpOverrunBounded BY DEF HttpInv, OverrunInv, HttpOverrunBounded, OverrunBounded
<1> QED BY <1>1, HttpAlways, PTL

----------------------------------------------------------------------------
\* Disputes

\* What a dispute names was signed, and what it returns has been applied.
DisputeInv ==
  /\ current \in signed \cup {0}
  /\ call.kind = "settle" /\ call.pc \in {"built", "confirm", "done"} => call.amount \in signed \cup {0}
  /\ call.pc = "done" => call.tx = "applied"
  /\ call \in [kind : {"none", "refund", "settle"}, pc : {"idle", "prepared", "built", "confirm", "done", "failed"},
               signedFor : Nat, amount : Nat, tx : {"none", "pending", "applied", "rejected"}]

\* Streams sign more while a dispute is under way, and take nothing back.
LEMMA SignedGrows ==
  ASSUME TypeOK, current \in signed \cup {0}, [Next]_vars \/ SocketVoucherStep
  PROVE  current' \in signed' \cup {0} /\ signed \subseteq signed'
<1>1. ASSUME UNCHANGED <<current, signed>> PROVE current' \in signed' \cup {0} /\ signed \subseteq signed'
  BY <1>1
<1>2. ASSUME NEW r \in Requests, RequestStep(r) PROVE current' \in signed' \cup {0} /\ signed \subseteq signed'
  <2>1. CASE SignVoucher(r) BY <2>1 DEF SignVoucher
  <2>2. CASE ~SignVoucher(r)
    BY <1>1, <1>2, <2>2 DEF RequestStep, ReserveNextCumulative, RejectChallenge, SeedFromStore, SeedFails,
       CredentialFails, ResponseOk, ResponseRetryable, ResponseRejected, stats, history
  <2> QED BY <2>1, <2>2
<1>3. CASE StreamStep
  BY <1>1, <1>3 DEF StreamStep, StartStream, FillWindow, FillClosedWindow, TakeHead, HeadFails, RefillWindow,
     SpendRejected, Pull, Break, EndStream, DoFetch, stats, history
<1>4. CASE CloseStep
  BY <1>1, <1>4 DEF CloseStep, Close, PrepareCommitment, SendDelete, CloseSettles, CloseFails, stats, history
<1>5. CASE SocketVoucherStep
  BY <1>1, <1>5 DEF SocketVoucherStep, StartSocketStream, Upgrade, stats, history
<1>6. CASE UNCHANGED vars BY <1>1, <1>6 DEF vars, stats, history
<1> QED BY <1>2, <1>3, <1>4, <1>5, <1>6 DEF Next

\* A dispute names the cumulative of the moment, which was signed.
LEMMA DisputeKeeps == ASSUME TypeOK, DisputeInv, DisputeStep PROVE DisputeInv'
<1> DEFINE Calls == [kind : {"none", "refund", "settle"},
                     pc : {"idle", "prepared", "built", "confirm", "done", "failed"},
                     signedFor : Nat, amount : Nat, tx : {"none", "pending", "applied", "rejected"}]
<1>0. call \in Calls /\ current \in Nat BY DEF DisputeInv, TypeOK
<1>u. UNCHANGED <<current, signed>>
  BY DEF DisputeStep, RequestRefund, PrepareSettlement, Begin, BuildSettlement, SendTransaction, DisputeFails,
     NetworkDecides, ConfirmTransaction, vars, stats, history
<1>b. ASSUME NEW kind \in {"refund", "settle"}, NEW stage \in {"built", "prepared"}, NEW signedFor \in Nat,
             Begin(kind, stage, signedFor), kind = "refund" \/ stage = "prepared"
      PROVE  DisputeInv'
  <2>1. call' \in Calls /\ call'.kind = kind /\ call'.pc = stage BY <1>b DEF Begin, NoCall
  <2> QED BY <1>b, <1>u, <2>1 DEF DisputeInv
<1>1. CASE RequestRefund BY <1>1, <1>b DEF RequestRefund
<1>2. CASE PrepareSettlement BY <1>0, <1>2, <1>b DEF PrepareSettlement
<1>3. CASE BuildSettlement
  <2>1. call' \in Calls /\ call'.pc = "built" /\ call'.amount = current BY <1>0, <1>3 DEF BuildSettlement
  <2> QED BY <1>u, <2>1 DEF DisputeInv
<1>4. CASE SendTransaction
  <2>1. call.pc = "built" BY <1>4 DEF SendTransaction
  <2>2. /\ call' \in Calls /\ call'.pc \in {"confirm", "failed"} /\ call'.amount = call.amount /\ call'.kind = call.kind
    BY <1>0, <1>4 DEF SendTransaction
  <2> QED BY <1>u, <2>1, <2>2 DEF DisputeInv
<1>5. CASE DisputeFails
  <2>1. call' \in Calls /\ call'.pc = "failed" BY <1>0, <1>5 DEF DisputeFails
  <2> QED BY <1>u, <2>1 DEF DisputeInv
<1>6. CASE NetworkDecides
  <2>1. /\ call' \in Calls /\ call'.pc = call.pc /\ call'.amount = call.amount /\ call'.kind = call.kind
        /\ call.tx = "pending"
    BY <1>0, <1>6 DEF NetworkDecides
  <2> QED BY <1>u, <2>1 DEF DisputeInv
<1>7. CASE ConfirmTransaction
  <2>1. /\ call' \in Calls /\ call'.amount = call.amount /\ call'.kind = call.kind /\ call'.tx = call.tx
        /\ call.pc = "confirm" /\ call'.pc \in {"done", "failed"} /\ (call'.pc = "done" => call.tx = "applied")
    BY <1>0, <1>7 DEF ConfirmTransaction
  <2> QED BY <1>u, <2>1 DEF DisputeInv
<1> QED BY <1>1, <1>2, <1>3, <1>4, <1>5, <1>6, <1>7 DEF DisputeStep

\* Either a dispute makes a step, or none of its state changes.
LEMMA DisputeOrNot == [OrderbookNext]_orderbookVars => DisputeStep \/ UNCHANGED disputeVars
<1> SUFFICES ASSUME [OrderbookNext]_orderbookVars PROVE DisputeStep \/ UNCHANGED disputeVars
  OBVIOUS
<1>1. CASE OrderbookStep
  BY <1>1 DEF OrderbookStep, ClientStep, RouteStep, Upgraded, OnMessage, Tick, Push, OnClose, Lost, Elsewhere,
     sessionVars
<1>2. CASE SessionNext
  BY <1>2 DEF SessionNext, HttpStep, SocketSessionStep, AccountStep
<1>3. CASE UNCHANGED orderbookVars BY <1>3 DEF orderbookVars, sessionVars
<1> QED BY <1>1, <1>2, <1>3 DEF OrderbookNext

\* What disputes return was applied, whatever the streams of the session sign meanwhile
\* and whatever the network makes of their transactions.
THEOREM DisputesReturnWhatIsApplied == ProvidersSpec => []ReturnedIsApplied
<1>1. OrderbookInit => DisputeInv
  BY DEF OrderbookInit, SessionInit, Init, DisputeInit, NoCall, DisputeInv
<1>2. VouchersInv /\ DisputeInv /\ [OrderbookNext]_orderbookVars => DisputeInv'
  <2> SUFFICES ASSUME VouchersInv, DisputeInv, [OrderbookNext]_orderbookVars PROVE DisputeInv'
    OBVIOUS
  <2>1. CASE DisputeStep BY <2>1, DisputeKeeps DEF VouchersInv
  <2>2. CASE UNCHANGED disputeVars
    <3>1. current' \in signed' \cup {0} /\ signed \subseteq signed' BY SessionSteps, SignedGrows DEF VouchersInv, DisputeInv
    <3>2. UNCHANGED call BY <2>2 DEF disputeVars
    <3> QED BY <3>1, <3>2 DEF DisputeInv
  <2> QED BY <2>1, <2>2, DisputeOrNot
<1>3. DisputeInv => ReturnedIsApplied BY DEF DisputeInv, ReturnedIsApplied
<1> QED BY <1>1, <1>2, <1>3, VouchersAlways, PTL DEF ProvidersSpec

----------------------------------------------------------------------------
\* The frames of one connection: what was sent, what waits in the queue, what was got

Events == [type : {"open", "error", "abnormal", "normal", "message"}, n : Nat]
Kinds == {"text", "blob"}

TextIn(sent) == {n \in DOMAIN sent : sent[n] = "text"}
TextAt(sent, queue, k) == queue[k].type = "message" /\ queue[k].n \in TextIn(sent)

\* What was got is in the order in which it was sent, and nothing is left out.
GotInOrder(sent, got) ==
  \A j \in DOMAIN got : got[j] \in TextIn(sent) =>
    /\ \A i \in DOMAIN got : i < j /\ got[i] \in TextIn(sent) => got[i] < got[j]
    /\ \A n \in TextIn(sent) : n < got[j] => \E i \in DOMAIN got : i < j /\ got[i] = n

\* So is what waits, behind what was got and before a normal close.
QueueInOrder(sent, got, queue) ==
  \A k \in DOMAIN queue : TextAt(sent, queue, k) =>
    /\ \A j \in DOMAIN queue : j < k => queue[j].type # "normal"
    /\ \A j \in DOMAIN queue : j < k /\ TextAt(sent, queue, j) => queue[j].n < queue[k].n
    /\ \A i \in DOMAIN got : got[i] \in TextIn(sent) => got[i] < queue[k].n

\* Frames that were got, wait or are being decoded were sent.
FramesSent(sent, got, queue, decoding) ==
  /\ \A i \in DOMAIN got : got[i] \in DOMAIN sent
  /\ \A k \in DOMAIN queue : queue[k].type = "message" => queue[k].n \in DOMAIN sent
  /\ \A n \in decoding : n \in DOMAIN sent /\ sent[n] = "blob"

InOrder(sent, got, queue, decoding) ==
  /\ GotInOrder(sent, got)
  /\ QueueInOrder(sent, got, queue)
  /\ FramesSent(sent, got, queue, decoding)

\* A text frame that was sent was got or waits.
NoneLost(sent, got, queue) ==
  \A n \in TextIn(sent) : \/ \E i \in DOMAIN got : got[i] = n
                          \/ \E k \in DOMAIN queue : queue[k].type = "message" /\ queue[k].n = n

Closing(queue) == \E k \in DOMAIN queue : queue[k].type = "normal"

\* What a sequence is after an item was added to it.
LEMMA AddedTo ==
  ASSUME NEW S, NEW s \in Seq(S), NEW e \in S
  PROVE  /\ Append(s, e) \in Seq(S) /\ Append(s, e) # <<>>
         /\ Len(s) \in Nat /\ DOMAIN s = 1..Len(s)
         /\ DOMAIN Append(s, e) = DOMAIN s \cup {Len(s) + 1} /\ Len(s) + 1 \notin DOMAIN s
         /\ \A i \in DOMAIN s : Append(s, e)[i] = s[i] /\ i < Len(s) + 1 /\ i \in Nat
         /\ Append(s, e)[Len(s) + 1] = e
<1>1. /\ Append(s, e) \in Seq(S) /\ Append(s, e) # <<>> /\ Len(Append(s, e)) = Len(s) + 1
      /\ \A i \in 1..Len(s) : Append(s, e)[i] = s[i]
      /\ Append(s, e)[Len(s) + 1] = e
  BY AppendProperties
<1>2. Len(s) \in Nat /\ DOMAIN s = 1..Len(s) /\ DOMAIN Append(s, e) = 1..Len(Append(s, e))
  BY <1>1, LenProperties
<1>3. 1..(Len(s) + 1) = (1..Len(s)) \cup {Len(s) + 1} BY <1>2
<1> QED BY <1>1, <1>2, <1>3

\* What is left of a sequence when its head is taken.
LEMMA TakenFrom ==
  ASSUME NEW S, NEW s \in Seq(S), s # <<>>
  PROVE  /\ Tail(s) \in Seq(S) /\ Head(s) \in S /\ Head(s) = s[1] /\ 1 \in DOMAIN s
         /\ DOMAIN s \subseteq Nat \ {0}
         /\ \A i \in DOMAIN Tail(s) : Tail(s)[i] = s[i + 1] /\ i + 1 \in DOMAIN s /\ i \in Nat
         /\ \A i \in DOMAIN s : i # 1 => i - 1 \in DOMAIN Tail(s)
<1>1. /\ Head(s) \in S /\ Tail(s) \in Seq(S) /\ Len(Tail(s)) = Len(s) - 1
      /\ \A i \in 1..Len(Tail(s)) : Tail(s)[i] = s[i + 1]
  BY HeadTailProperties
<1>2. Len(s) \in Nat \ {0} BY EmptySeq
<1>3. DOMAIN s = 1..Len(s) /\ DOMAIN Tail(s) = 1..Len(Tail(s)) BY <1>1, LenProperties
<1>4. Head(s) = s[1] OBVIOUS
<1> QED BY <1>1, <1>2, <1>3, <1>4

\* Two events that a socket reports at once are two added one after the other.
LEMMA TwoAppended ==
  ASSUME NEW S, NEW s \in Seq(S), NEW a \in S, NEW b \in S
  PROVE  s \o <<a, b>> = Append(Append(s, a), b)
<1>1. Append(s, a) \in Seq(S) /\ Append(s, a) = s \o <<a>> BY AppendProperties, AppendIsConcat
<1>2. Append(Append(s, a), b) = Append(s, a) \o <<b>> BY <1>1, AppendIsConcat
<1>3. <<a>> \in Seq(S) /\ <<b>> \in Seq(S) OBVIOUS
<1>4. (s \o <<a>>) \o <<b>> = s \o (<<a>> \o <<b>>) BY <1>3, ConcatAssociative
<1>5. <<a>> \o <<b>> = <<a, b>>
  <2>1. <<a>> \o <<b>> = Append(<<a>>, b) BY <1>3, AppendIsConcat
  <2> DEFINE p == Append(<<a>>, b)
             q == <<a, b>>
  <2>2. p = q
    <3>1. Len(<<a>>) = 1 /\ DOMAIN <<a>> = {1} /\ <<a>>[1] = a OBVIOUS
    <3>2. p \in Seq(S) /\ Len(p) = 2 /\ p[1] = a /\ p[2] = b BY <1>3, <3>1, AppendProperties
    <3>3. q \in Seq(S) /\ Len(q) = 2 /\ q[1] = a /\ q[2] = b OBVIOUS
    <3> HIDE DEF p, q
    <3>4. p \in [1..2 -> S] /\ q \in [1..2 -> S] BY <3>2, <3>3, LenProperties
    <3>5. \A i \in 1..2 : p[i] = q[i]
      <4>1. \A i \in 1..2 : i = 1 \/ i = 2 OBVIOUS
      <4> QED BY <3>2, <3>3, <4>1
    <3> QED BY <3>4, <3>5
  <2> QED BY <2>1, <2>2
<1> QED BY <1>1, <1>2, <1>4, <1>5

\* A lost connection reports an error and a close.
LEMMA LossReported ==
  ASSUME NEW queue \in Seq(Events)
  PROVE  queue \o <<Event("error"), Event("abnormal")>> = Append(Append(queue, Event("error")), Event("abnormal"))
<1>1. Event("error") \in Events /\ Event("abnormal") \in Events BY DEF Event, Events
<1> QED BY <1>1, TwoAppended

\* An event that is no message joins the queue.
LEMMA EventWaits ==
  ASSUME NEW sent \in Seq(Kinds), NEW got \in Seq(Nat), NEW queue \in Seq(Events), NEW decoding,
         NEW e \in Events, e.type # "message", InOrder(sent, got, queue, decoding)
  PROVE  /\ Append(queue, e) \in Seq(Events) /\ InOrder(sent, got, Append(queue, e), decoding)
         /\ NoneLost(sent, got, queue) => NoneLost(sent, got, Append(queue, e))
<1> DEFINE q == Append(queue, e)
<1>1. /\ q \in Seq(Events) /\ DOMAIN q = DOMAIN queue \cup {Len(queue) + 1} /\ q[Len(queue) + 1] = e
      /\ Len(queue) \in Nat
      /\ \A i \in DOMAIN queue : q[i] = queue[i] /\ i < Len(queue) + 1 /\ i \in Nat
  BY AddedTo
<1> HIDE DEF q
<1>2. QueueInOrder(sent, got, q) BY <1>1 DEF InOrder, QueueInOrder, TextAt
<1>3. FramesSent(sent, got, q, decoding) BY <1>1 DEF InOrder, FramesSent
<1>4. NoneLost(sent, got, queue) => NoneLost(sent, got, q) BY <1>1 DEF NoneLost
<1> QED BY <1>1, <1>2, <1>3, <1>4 DEF q, InOrder

\* A frame that is no text is sent, and is to be decoded.
LEMMA BlobArrives ==
  ASSUME NEW sent \in Seq(Kinds), NEW got \in Seq(Nat), NEW queue \in Seq(Events), NEW decoding,
         InOrder(sent, got, queue, decoding)
  PROVE  /\ Append(sent, "blob") \in Seq(Kinds)
         /\ InOrder(Append(sent, "blob"), got, queue, decoding \cup {Len(sent) + 1})
         /\ NoneLost(sent, got, queue) => NoneLost(Append(sent, "blob"), got, queue)
<1> DEFINE s == Append(sent, "blob")
<1>1. /\ s \in Seq(Kinds) /\ DOMAIN s = DOMAIN sent \cup {Len(sent) + 1} /\ s[Len(sent) + 1] = "blob"
      /\ \A i \in DOMAIN sent : s[i] = sent[i]
  BY AddedTo DEF Kinds
<1> HIDE DEF s
<1>2. TextIn(s) = TextIn(sent) BY <1>1 DEF TextIn
<1>3. GotInOrder(s, got) BY <1>2 DEF InOrder, GotInOrder
<1>4. QueueInOrder(s, got, queue) BY <1>2 DEF InOrder, QueueInOrder, TextAt
<1>5. FramesSent(s, got, queue, decoding \cup {Len(sent) + 1}) BY <1>1 DEF InOrder, FramesSent
<1>6. NoneLost(sent, got, queue) => NoneLost(s, got, queue) BY <1>2 DEF NoneLost
<1> QED BY <1>1, <1>3, <1>4, <1>5, <1>6 DEF s, InOrder

\* A text frame is sent, and waits at once.
LEMMA TextArrives ==
  ASSUME NEW sent \in Seq(Kinds), NEW got \in Seq(Nat), NEW queue \in Seq(Events), NEW decoding,
         InOrder(sent, got, queue, decoding), ~Closing(queue)
  PROVE  LET s == Append(sent, "text")
             q == Append(queue, Message(Len(sent) + 1))
         IN /\ s \in Seq(Kinds) /\ q \in Seq(Events) /\ InOrder(s, got, q, decoding) /\ ~Closing(q)
            /\ NoneLost(sent, got, queue) => NoneLost(s, got, q)
<1> DEFINE m == Len(sent) + 1
           s == Append(sent, "text")
           q == Append(queue, Message(m))
<1>1. /\ s \in Seq(Kinds) /\ DOMAIN s = DOMAIN sent \cup {m} /\ s[m] = "text" /\ m \in Nat
      /\ m \notin DOMAIN sent
      /\ \A i \in DOMAIN sent : s[i] = sent[i] /\ i < m
  BY AddedTo DEF Kinds
<1>2. Message(m) \in Events /\ Message(m).type = "message" /\ Message(m).n = m
  BY <1>1 DEF Message, Events
<1>3. /\ q \in Seq(Events) /\ DOMAIN q = DOMAIN queue \cup {Len(queue) + 1} /\ q[Len(queue) + 1] = Message(m)
      /\ Len(queue) \in Nat
      /\ \A i \in DOMAIN queue : q[i] = queue[i] /\ i < Len(queue) + 1 /\ i \in Nat
  BY <1>2, AddedTo
<1>4. TextIn(s) = TextIn(sent) \cup {m} /\ TextIn(sent) \subseteq DOMAIN sent BY <1>1 DEF TextIn
<1> HIDE DEF q, s, m
<1>5. GotInOrder(s, got)
  <2>1. \A i \in DOMAIN got : got[i] \in DOMAIN sent /\ (got[i] \in TextIn(s) => got[i] \in TextIn(sent))
    BY <1>1, <1>4 DEF InOrder, FramesSent
  <2>2. \A i \in DOMAIN got, n \in TextIn(s) : n < got[i] => n \in TextIn(sent)
    BY <1>1, <1>4, <2>1 
  <2> QED BY <1>4, <2>1, <2>2 DEF InOrder, GotInOrder
<1>6. QueueInOrder(s, got, q)
  <2>1. \A i \in DOMAIN got : got[i] < m /\ (got[i] \in TextIn(s) => got[i] \in TextIn(sent))
    BY <1>1, <1>4 DEF InOrder, FramesSent
  <2>2. \A k \in DOMAIN queue : TextAt(s, q, k) => TextAt(sent, queue, k) /\ q[k].n < m
    BY <1>1, <1>3, <1>4 DEF InOrder, FramesSent, TextAt
  <2>3. \A k \in DOMAIN queue : q[k].type # "normal" BY <1>3 DEF Closing
  <2>4. q[Len(queue) + 1].n = m BY <1>2, <1>3
  <2> QED BY <1>3, <2>1, <2>2, <2>3, <2>4 DEF InOrder, QueueInOrder
<1>7. FramesSent(s, got, q, decoding) BY <1>1, <1>2, <1>3 DEF InOrder, FramesSent
<1>8. NoneLost(sent, got, queue) => NoneLost(s, got, q) BY <1>2, <1>3, <1>4 DEF NoneLost
<1>9. ~Closing(q) BY <1>2, <1>3 DEF Closing
<1> QED BY <1>1, <1>3, <1>5, <1>6, <1>7, <1>8, <1>9 DEF s, q, m, InOrder

\* A decoded frame joins the queue wherever it is, as it is no text.
LEMMA BlobWaits ==
  ASSUME NEW sent \in Seq(Kinds), NEW got \in Seq(Nat), NEW queue \in Seq(Events), NEW decoding,
         InOrder(sent, got, queue, decoding), NEW n \in decoding
  PROVE  LET q == Append(queue, Message(n))
         IN /\ q \in Seq(Events) /\ InOrder(sent, got, q, decoding \ {n})
            /\ NoneLost(sent, got, queue) => NoneLost(sent, got, q)
            /\ Closing(q) => Closing(queue)
<1> DEFINE q == Append(queue, Message(n))
<1>0. n \in DOMAIN sent /\ n \notin TextIn(sent) /\ n \in Nat
  BY LenProperties DEF InOrder, FramesSent, TextIn
<1>2. Message(n) \in Events /\ Message(n).type = "message" /\ Message(n).n = n
  BY <1>0 DEF Message, Events
<1>3. /\ q \in Seq(Events) /\ DOMAIN q = DOMAIN queue \cup {Len(queue) + 1} /\ q[Len(queue) + 1] = Message(n)
      /\ Len(queue) \in Nat
      /\ \A i \in DOMAIN queue : q[i] = queue[i] /\ i < Len(queue) + 1 /\ i \in Nat
  BY <1>2, AddedTo
<1> HIDE DEF q
<1>4. ~TextAt(sent, q, Len(queue) + 1) BY <1>0, <1>2, <1>3 DEF TextAt
<1>5. QueueInOrder(sent, got, q) BY <1>3, <1>4 DEF InOrder, QueueInOrder, TextAt
<1>6. FramesSent(sent, got, q, decoding \ {n}) BY <1>0, <1>2, <1>3 DEF InOrder, FramesSent
<1>7. NoneLost(sent, got, queue) => NoneLost(sent, got, q) BY <1>3 DEF NoneLost
<1>8. Closing(q) => Closing(queue) BY <1>2, <1>3 DEF Closing
<1> QED BY <1>3, <1>5, <1>6, <1>7, <1>8 DEF q, InOrder

\* An event that is no message leaves the queue.
LEMMA EventTaken ==
  ASSUME NEW sent \in Seq(Kinds), NEW got \in Seq(Nat), NEW queue \in Seq(Events), NEW decoding,
         InOrder(sent, got, queue, decoding), queue # <<>>, Head(queue).type # "message"
  PROVE  /\ Tail(queue) \in Seq(Events) /\ InOrder(sent, got, Tail(queue), decoding)
         /\ NoneLost(sent, got, queue) => NoneLost(sent, got, Tail(queue))
         /\ Closing(Tail(queue)) => Closing(queue)
<1> DEFINE q == Tail(queue)
<1>1. /\ q \in Seq(Events) /\ Head(queue) = queue[1] /\ DOMAIN queue \subseteq Nat \ {0}
      /\ \A i \in DOMAIN q : q[i] = queue[i + 1] /\ i + 1 \in DOMAIN queue /\ i \in Nat
      /\ \A i \in DOMAIN queue : i # 1 => i - 1 \in DOMAIN q
  BY TakenFrom
<1> HIDE DEF q
<1>2. QueueInOrder(sent, got, q)
  <2>1. \A k \in DOMAIN q : TextAt(sent, q, k) => TextAt(sent, queue, k + 1) BY <1>1 DEF TextAt
  <2>2. \A j, k \in DOMAIN q : j < k => j + 1 < k + 1 BY <1>1
  <2> QED BY <1>1, <2>1, <2>2 DEF InOrder, QueueInOrder
<1>3. FramesSent(sent, got, q, decoding) BY <1>1 DEF InOrder, FramesSent
<1>4. ASSUME NoneLost(sent, got, queue) PROVE NoneLost(sent, got, q)
  <2>1. ASSUME NEW k \in DOMAIN queue, queue[k].type = "message"
        PROVE  k - 1 \in DOMAIN q /\ q[k - 1] = queue[k]
    <3>1. k # 1 /\ k - 1 \in DOMAIN q BY <1>1, <2>1
    <3>2. k \in Nat /\ q[k - 1] = queue[(k - 1) + 1] BY <1>1, <3>1
    <3> QED BY <3>1, <3>2
  <2>2. ASSUME NEW n \in TextIn(sent), NEW k \in DOMAIN queue, queue[k].type = "message", queue[k].n = n
        PROVE  \E j \in DOMAIN q : q[j].type = "message" /\ q[j].n = n
    BY <2>1, <2>2
  <2> QED BY <1>4, <2>2 DEF NoneLost
<1>5. Closing(q) => Closing(queue) BY <1>1 DEF Closing
<1> QED BY <1>1, <1>2, <1>3, <1>4, <1>5 DEF q, InOrder

\* The generator gets the message at the head of the queue.
LEMMA MessageGot ==
  ASSUME NEW sent \in Seq(Kinds), NEW got \in Seq(Nat), NEW queue \in Seq(Events), NEW decoding,
         InOrder(sent, got, queue, decoding), NoneLost(sent, got, queue), queue # <<>>, Head(queue).type = "message"
  PROVE  LET g == Append(got, Head(queue).n)
             q == Tail(queue)
         IN /\ g \in Seq(Nat) /\ q \in Seq(Events) /\ InOrder(sent, g, q, decoding) /\ NoneLost(sent, g, q)
            /\ Closing(q) => Closing(queue)
<1> DEFINE q == Tail(queue)
           m == Head(queue).n
           g == Append(got, m)
<1>1. /\ q \in Seq(Events) /\ Head(queue) = queue[1] /\ Head(queue) \in Events /\ DOMAIN queue \subseteq Nat \ {0}
      /\ \A i \in DOMAIN q : q[i] = queue[i + 1] /\ i + 1 \in DOMAIN queue /\ i \in Nat
      /\ \A i \in DOMAIN queue : i # 1 => i - 1 \in DOMAIN q
      /\ 1 \in DOMAIN queue
  BY TakenFrom
<1>2. m \in Nat /\ queue[1].n = m /\ queue[1].type = "message" BY <1>1 DEF Events
<1>3. /\ g \in Seq(Nat) /\ DOMAIN g = DOMAIN got \cup {Len(got) + 1} /\ g[Len(got) + 1] = m
      /\ Len(got) \in Nat
      /\ \A i \in DOMAIN got : g[i] = got[i] /\ i < Len(got) + 1 /\ i \in Nat
  BY <1>2, AddedTo
<1> HIDE DEF q, g, m
<1>f. m \in DOMAIN sent BY <1>1, <1>2 DEF InOrder, FramesSent
<1>t. m \in TextIn(sent) => TextAt(sent, queue, 1) BY <1>2 DEF TextAt
<1>h. \A k \in DOMAIN q : TextAt(sent, q, k) => TextAt(sent, queue, k + 1) BY <1>1 DEF TextAt
<1>4. GotInOrder(sent, g)
  <2>1. ASSUME m \in TextIn(sent), NEW i \in DOMAIN got, got[i] \in TextIn(sent) PROVE got[i] < m
    BY <1>1, <1>2, <1>t, <2>1 DEF InOrder, QueueInOrder
  <2>2. ASSUME m \in TextIn(sent), NEW n \in TextIn(sent), n < m PROVE \E i \in DOMAIN got : got[i] = n
    <3>1. ASSUME NEW k \in DOMAIN queue, queue[k].type = "message", queue[k].n = n PROVE FALSE
      <4>1. TextAt(sent, queue, k) BY <2>2, <3>1 DEF TextAt
      <4>2. k # 1 /\ k \in Nat \ {0} BY <1>1, <1>2, <2>2, <3>1
      <4>3. 1 < k BY <4>2
      <4>4. m < n BY <1>1, <1>2, <1>t, <2>2, <3>1, <4>1, <4>3 DEF InOrder, QueueInOrder
      <4>5. n \in Nat BY LenProperties DEF TextIn
      <4> QED BY <1>2, <2>2, <4>4, <4>5
    <3> QED BY <3>1 DEF NoneLost
  <2>3. ASSUME NEW j \in DOMAIN got, g[j] \in TextIn(sent)
        PROVE  /\ \A i \in DOMAIN g : i < j /\ g[i] \in TextIn(sent) => g[i] < g[j]
               /\ \A n \in TextIn(sent) : n < g[j] => \E i \in DOMAIN g : i < j /\ g[i] = n
    <3>1. got[j] \in TextIn(sent) /\ g[j] = got[j] BY <1>3, <2>3
    <3>2. \A i \in DOMAIN g : i < j => i \in DOMAIN got /\ g[i] = got[i] BY <1>3
    <3>3. \A i \in DOMAIN got : i \in DOMAIN g /\ g[i] = got[i] BY <1>3
    <3> QED BY <3>1, <3>2, <3>3 DEF InOrder, GotInOrder
  <2>4. ASSUME m \in TextIn(sent)
        PROVE  /\ \A i \in DOMAIN g : i < Len(got) + 1 /\ g[i] \in TextIn(sent) => g[i] < m
               /\ \A n \in TextIn(sent) : n < m => \E i \in DOMAIN g : i < Len(got) + 1 /\ g[i] = n
    <3>1. \A i \in DOMAIN g : i < Len(got) + 1 => i \in DOMAIN got /\ g[i] = got[i] BY <1>3
    <3>2. \A i \in DOMAIN got : i \in DOMAIN g /\ i < Len(got) + 1 /\ g[i] = got[i] BY <1>3
    <3> QED BY <2>1, <2>2, <2>4, <3>1, <3>2
  <2> QED BY <1>3, <2>3, <2>4 DEF GotInOrder
<1>5. QueueInOrder(sent, g, q)
  <2>1. \A j, k \in DOMAIN q : j < k => j + 1 < k + 1 BY <1>1
  <2>2. ASSUME NEW k \in DOMAIN q, TextAt(sent, q, k), m \in TextIn(sent) PROVE m < q[k].n
    <3>1. k + 1 \in DOMAIN queue /\ 1 < k + 1 /\ TextAt(sent, queue, k + 1) /\ q[k] = queue[k + 1]
      <4>1. k \in Nat /\ k + 1 \in DOMAIN queue BY <1>1
      <4>2. k # 0 BY <1>1, LenProperties
      <4> QED BY <1>1, <1>h, <2>2, <4>1, <4>2
    <3> QED BY <1>1, <1>2, <1>t, <2>2, <3>1 DEF InOrder, QueueInOrder
  <2>3. \A i \in DOMAIN g : (i \in DOMAIN got /\ g[i] = got[i]) \/ g[i] = m BY <1>3
  <2> QED BY <1>1, <1>h, <2>1, <2>2, <2>3 DEF InOrder, QueueInOrder
<1>6. FramesSent(sent, g, q, decoding) BY <1>1, <1>3, <1>f DEF InOrder, FramesSent
<1>7. NoneLost(sent, g, q)
  <2>1. \A i \in DOMAIN got : i \in DOMAIN g /\ g[i] = got[i] BY <1>3
  <2>2. \A k \in DOMAIN queue : k # 1 => k - 1 \in DOMAIN q /\ q[k - 1] = queue[k]
    <3> SUFFICES ASSUME NEW k \in DOMAIN queue, k # 1 PROVE k - 1 \in DOMAIN q /\ q[k - 1] = queue[k]
      OBVIOUS
    <3>1. k - 1 \in DOMAIN q BY <1>1
    <3>2. k \in Nat /\ q[k - 1] = queue[(k - 1) + 1] BY <1>1, <3>1
    <3> QED BY <3>1, <3>2
  <2>3. Len(got) + 1 \in DOMAIN g /\ g[Len(got) + 1] = m BY <1>3
  <2>4. ASSUME NEW n \in TextIn(sent), NEW k \in DOMAIN queue, queue[k].type = "message", queue[k].n = n
        PROVE  \/ \E i \in DOMAIN g : g[i] = n
               \/ \E j \in DOMAIN q : q[j].type = "message" /\ q[j].n = n
    <3>1. CASE k = 1 BY <1>2, <2>3, <2>4, <3>1
    <3>2. CASE k # 1 BY <2>2, <2>4, <3>2
    <3> QED BY <3>1, <3>2
  <2> QED BY <2>1, <2>4 DEF NoneLost
<1>8. Closing(q) => Closing(queue) BY <1>1 DEF Closing
<1> QED BY <1>1, <1>3, <1>4, <1>5, <1>6, <1>7, <1>8 DEF q, g, m, InOrder

\* A stream that ends has nothing waiting; after a normal close it has got everything.
LEMMA FramesDropped ==
  ASSUME NEW sent \in Seq(Kinds), NEW got \in Seq(Nat), NEW queue \in Seq(Events), NEW decoding,
         InOrder(sent, got, queue, decoding)
  PROVE  /\ <<>> \in Seq(Events) /\ InOrder(sent, got, <<>>, {}) /\ ~Closing(<<>>)
         /\ NoneLost(sent, got, queue) /\ queue # <<>> /\ Head(queue).type = "normal" =>
              NoneLost(sent, got, <<>>)
<1>1. <<>> \in Seq(Events) /\ DOMAIN <<>> = {}
  <2>1. <<>> \in Seq(Events) /\ Len(<<>>) = 0 BY EmptySeq
  <2>2. DOMAIN <<>> = 1..0 BY <2>1, LenProperties
  <2> QED BY <2>1, <2>2
<1>2. InOrder(sent, got, <<>>, {}) /\ ~Closing(<<>>)
  BY <1>1 DEF InOrder, QueueInOrder, FramesSent, Closing
<1>3. ASSUME NoneLost(sent, got, queue), queue # <<>>, Head(queue).type = "normal"
      PROVE  NoneLost(sent, got, <<>>)
  <2>1. Head(queue) = queue[1] /\ 1 \in DOMAIN queue /\ DOMAIN queue \subseteq Nat \ {0} BY <1>3, TakenFrom
  <2>2. ASSUME NEW k \in DOMAIN queue, queue[k].type = "message", queue[k].n \in TextIn(sent) PROVE FALSE
    <3>1. k \in Nat \ {0} /\ k # 1 BY <1>3, <2>1, <2>2
    <3>2. 1 < k BY <3>1
    <3> QED BY <1>3, <2>1, <2>2, <3>2 DEF InOrder, QueueInOrder, TextAt
  <2> QED BY <1>3, <2>2 DEF NoneLost
<1> QED BY <1>1, <1>2, <1>3

----------------------------------------------------------------------------
\* One connection

ConnRecords ==
  [pc : {"off", "probe", "upgrade", "frames", "yield"} \cup Ended,
   sock : {"none", "connecting", "open", "closing", "closed"},
   queue : Seq(Events), decoding : SUBSET Nat, sent : Seq(Kinds), got : Seq(Nat)]

\* What the socket and the queue can be where the generator is: an event that is no
\* message waits for the upgrade, only a socket that closed has reported it, and an
\* ended stream has let go of its socket and its queue.
SocketFits(c) ==
  /\ Closing(c.queue) => c.sock = "closed"
  /\ c.pc \in {"off", "probe"} => c.sock = "none" /\ c.queue = <<>> /\ c.decoding = {}
  /\ c.sock = "connecting" => c.pc = "upgrade" /\ c.queue = <<>> /\ c.decoding = {}
  /\ c.pc = "upgrade" /\ c.sock # "connecting" => 1 \in DOMAIN c.queue /\ c.queue[1].type # "message"
  /\ c.pc \in Ended => c.sock \notin {"connecting", "open"} /\ c.queue = <<>> /\ c.decoding = {}

ConnInv(c) ==
  /\ c \in ConnRecords
  /\ InOrder(c.sent, c.got, c.queue, c.decoding)
  /\ c.pc \notin {"left", "failed"} => NoneLost(c.sent, c.got, c.queue)
  /\ SocketFits(c)

\* The types of a connection's fields.
LEMMA ConnFields ==
  ASSUME NEW c \in ConnRecords
  PROVE  /\ c.pc \in {"off", "probe", "upgrade", "frames", "yield"} \cup Ended
         /\ c.sock \in {"none", "connecting", "open", "closing", "closed"}
         /\ c.queue \in Seq(Events) /\ c.decoding \in SUBSET Nat /\ c.sent \in Seq(Kinds) /\ c.got \in Seq(Nat)
BY DEF ConnRecords

\* A connection no stream has used.
LEMMA FreshConn == ConnInv(NoConnection)
<1>1. DOMAIN <<>> = {} /\ <<>> \in Seq(Events) /\ <<>> \in Seq(Kinds) /\ <<>> \in Seq(Nat)
  <2>1. /\ <<>> \in Seq(Events) /\ <<>> \in Seq(Kinds) /\ <<>> \in Seq(Nat) /\ Len(<<>>) = 0
    BY EmptySeq
  <2>2. DOMAIN <<>> = 1..0 BY <2>1, LenProperties
  <2> QED BY <2>1, <2>2
<1>2. NoConnection \in ConnRecords BY <1>1 DEF NoConnection, ConnRecords
<1>3. InOrder(<<>>, <<>>, <<>>, {}) /\ NoneLost(<<>>, <<>>, <<>>) /\ ~Closing(<<>>)
  BY <1>1 DEF InOrder, GotInOrder, QueueInOrder, FramesSent, NoneLost, TextIn, Closing
<1>4. SocketFits(NoConnection) BY <1>3 DEF NoConnection, SocketFits, Ended
<1> QED BY <1>2, <1>3, <1>4 DEF ConnInv, NoConnection

\* The queue of an open or connecting socket gets an event.
LEMMA EventConn ==
  ASSUME NEW c \in ConnRecords, ConnInv(c), c.sock \in {"connecting", "open"},
         NEW e \in Events, e.type # "message", NEW sock \in {"open", "closed"}, e.type = "normal" => sock = "closed"
  PROVE  ConnInv([c EXCEPT !.sock = sock, !.queue = Append(c.queue, e)])
<1> DEFINE q == Append(c.queue, e)
           d == [c EXCEPT !.sock = sock, !.queue = q]
<1>1. /\ q \in Seq(Events) /\ q # <<>> /\ DOMAIN q = DOMAIN c.queue \cup {Len(c.queue) + 1}
      /\ q[Len(c.queue) + 1] = e /\ \A i \in DOMAIN c.queue : q[i] = c.queue[i]
  BY ConnFields, AddedTo
<1>2. /\ InOrder(c.sent, c.got, q, c.decoding)
      /\ NoneLost(c.sent, c.got, c.queue) => NoneLost(c.sent, c.got, q)
  BY ConnFields, EventWaits DEF ConnInv
<1>3. c.pc \notin {"off", "probe"} \cup Ended BY DEF ConnInv, SocketFits
<1>4. 1 \in DOMAIN q /\ (c.pc = "upgrade" => q[1].type # "message")
  <2>1. CASE c.queue = <<>>
    <3>1. Len(c.queue) = 0 BY <2>1
    <3> QED BY <1>1, <3>1
  <2>2. CASE c.queue # <<>>
    <3>1. 1 \in DOMAIN c.queue BY <2>2, ConnFields, TakenFrom
    <3>2. c.pc = "upgrade" => c.queue[1].type # "message" BY <2>2 DEF ConnInv, SocketFits
    <3> QED BY <1>1, <3>1, <3>2
  <2> QED BY <2>1, <2>2
<1>5. Closing(q) => sock = "closed"
  <2>1. ~Closing(c.queue) BY DEF ConnInv, SocketFits
  <2> QED BY <1>1, <2>1 DEF Closing
<1> HIDE DEF q
<1>6. /\ d \in ConnRecords /\ d.sent = c.sent /\ d.got = c.got /\ d.decoding = c.decoding /\ d.pc = c.pc
      /\ d.queue = q /\ d.sock = sock
  BY <1>1 DEF ConnRecords
<1> HIDE DEF d
<1>7. SocketFits(d) BY <1>3, <1>4, <1>5, <1>6 DEF SocketFits
<1>8. ConnInv(d) BY <1>2, <1>6, <1>7 DEF ConnInv
<1> QED BY <1>8 DEF d, q

\* An open socket brings a frame.
LEMMA FrameConn ==
  ASSUME NEW c \in ConnRecords, ConnInv(c), c.sock = "open"
  PROVE  /\ ConnInv([c EXCEPT !.sent = Append(c.sent, "text"), !.queue = Append(c.queue, Message(Len(c.sent) + 1))])
         /\ ConnInv([c EXCEPT !.sent = Append(c.sent, "blob"), !.decoding = c.decoding \cup {Len(c.sent) + 1}])
<1>1. c.pc \notin {"off", "probe"} \cup Ended /\ ~Closing(c.queue) BY DEF ConnInv, SocketFits
<1>2. ConnInv([c EXCEPT !.sent = Append(c.sent, "text"), !.queue = Append(c.queue, Message(Len(c.sent) + 1))])
  <2> DEFINE s == Append(c.sent, "text")
             q == Append(c.queue, Message(Len(c.sent) + 1))
             d == [c EXCEPT !.sent = s, !.queue = q]
  <2>1. /\ s \in Seq(Kinds) /\ q \in Seq(Events) /\ InOrder(s, c.got, q, c.decoding) /\ ~Closing(q)
        /\ NoneLost(c.sent, c.got, c.queue) => NoneLost(s, c.got, q)
    BY <1>1, ConnFields, TextArrives DEF ConnInv
  <2>2. Message(Len(c.sent) + 1) \in Events BY ConnFields, LenProperties DEF Message, Events
  <2>3. 1 \in DOMAIN c.queue => 1 \in DOMAIN q /\ q[1] = c.queue[1] BY <2>2, ConnFields, AddedTo
  <2> HIDE DEF s, q
  <2>4. /\ d \in ConnRecords /\ d.sent = s /\ d.got = c.got /\ d.decoding = c.decoding /\ d.pc = c.pc
        /\ d.queue = q /\ d.sock = c.sock
    BY <2>1 DEF ConnRecords
  <2> HIDE DEF d
  <2>5. SocketFits(d) BY <1>1, <2>1, <2>3, <2>4 DEF ConnInv, SocketFits
  <2>6. ConnInv(d) BY <2>1, <2>4, <2>5 DEF ConnInv
  <2> QED BY <2>6 DEF d, s, q
<1>3. ConnInv([c EXCEPT !.sent = Append(c.sent, "blob"), !.decoding = c.decoding \cup {Len(c.sent) + 1}])
  <2> DEFINE s == Append(c.sent, "blob")
             b == c.decoding \cup {Len(c.sent) + 1}
             d == [c EXCEPT !.sent = s, !.decoding = b]
  <2>1. /\ s \in Seq(Kinds) /\ InOrder(s, c.got, c.queue, b)
        /\ NoneLost(c.sent, c.got, c.queue) => NoneLost(s, c.got, c.queue)
    BY ConnFields, BlobArrives DEF ConnInv
  <2>2. b \in SUBSET Nat BY ConnFields, LenProperties
  <2> HIDE DEF s, b
  <2>4. /\ d \in ConnRecords /\ d.sent = s /\ d.got = c.got /\ d.decoding = b /\ d.pc = c.pc
        /\ d.queue = c.queue /\ d.sock = c.sock
    BY <2>1, <2>2 DEF ConnRecords
  <2> HIDE DEF d
  <2>5. SocketFits(d) BY <1>1, <2>4 DEF ConnInv, SocketFits
  <2>6. ConnInv(d) BY <2>1, <2>4, <2>5 DEF ConnInv
  <2> QED BY <2>6 DEF d, s, b
<1> QED BY <1>2, <1>3

\* A frame is decoded, or dropped.
LEMMA DecodedConn ==
  ASSUME NEW c \in ConnRecords, ConnInv(c), NEW n \in c.decoding
  PROVE  /\ ConnInv([c EXCEPT !.decoding = c.decoding \ {n}, !.queue = Append(c.queue, Message(n))])
         /\ ConnInv([c EXCEPT !.decoding = c.decoding \ {n}])
<1>1. /\ c.pc \notin {"off", "probe"} \cup Ended /\ c.sock # "connecting" /\ n \in Nat
      /\ c.decoding \ {n} \in SUBSET Nat
  BY ConnFields DEF ConnInv, SocketFits
<1>2. ConnInv([c EXCEPT !.decoding = c.decoding \ {n}, !.queue = Append(c.queue, Message(n))])
  <2> DEFINE q == Append(c.queue, Message(n))
             b == c.decoding \ {n}
             d == [c EXCEPT !.decoding = b, !.queue = q]
  <2>1. /\ q \in Seq(Events) /\ InOrder(c.sent, c.got, q, b) /\ (Closing(q) => Closing(c.queue))
        /\ NoneLost(c.sent, c.got, c.queue) => NoneLost(c.sent, c.got, q)
    BY ConnFields, BlobWaits DEF ConnInv
  <2>2. Message(n) \in Events BY <1>1 DEF Message, Events
  <2>3. 1 \in DOMAIN c.queue => 1 \in DOMAIN q /\ q[1] = c.queue[1] BY <2>2, ConnFields, AddedTo
  <2> HIDE DEF q
  <2>4. /\ d \in ConnRecords /\ d.sent = c.sent /\ d.got = c.got /\ d.decoding = b /\ d.pc = c.pc
        /\ d.queue = q /\ d.sock = c.sock
    BY <1>1, <2>1 DEF ConnRecords
  <2> HIDE DEF d
  <2>5. SocketFits(d) BY <1>1, <2>1, <2>3, <2>4 DEF ConnInv, SocketFits
  <2>6. ConnInv(d) BY <2>1, <2>4, <2>5 DEF ConnInv
  <2> QED BY <2>6 DEF d, q
<1>3. ConnInv([c EXCEPT !.decoding = c.decoding \ {n}])
  <2> DEFINE b == c.decoding \ {n}
             d == [c EXCEPT !.decoding = b]
  <2>1. InOrder(c.sent, c.got, c.queue, b) BY DEF ConnInv, InOrder, FramesSent
  <2>2. /\ d \in ConnRecords /\ d.sent = c.sent /\ d.got = c.got /\ d.decoding = b /\ d.pc = c.pc
        /\ d.queue = c.queue /\ d.sock = c.sock
    BY <1>1 DEF ConnRecords
  <2> HIDE DEF d
  <2>3. SocketFits(d) BY <1>1, <2>2 DEF ConnInv, SocketFits
  <2> QED BY <2>1, <2>2, <2>3 DEF ConnInv, d
<1> QED BY <1>2, <1>3

\* The finally block lets go of the socket; a normal end has yielded every text frame.
LEMMA FinishedConn ==
  ASSUME NEW c \in ConnRecords, InOrder(c.sent, c.got, c.queue, c.decoding), NEW how \in Ended,
         how = "closed" => NoneLost(c.sent, c.got, <<>>)
  PROVE  ConnInv(Finished(c, how))
<1> DEFINE d == Finished(c, how)
<1>1. <<>> \in Seq(Events) /\ InOrder(c.sent, c.got, <<>>, {}) /\ ~Closing(<<>>)
  BY ConnFields, FramesDropped
<1>2. /\ d \in ConnRecords /\ d.sent = c.sent /\ d.got = c.got /\ d.decoding = {} /\ d.pc = how /\ d.queue = <<>>
      /\ d.sock \notin {"connecting", "open"}
  BY <1>1 DEF Finished, ConnRecords
<1> HIDE DEF d
<1>3. SocketFits(d) BY <1>1, <1>2 DEF SocketFits, Ended
<1>4. ConnInv(d) BY <1>1, <1>2, <1>3 DEF ConnInv, Ended
<1> QED BY <1>4 DEF d

\* The generator takes the event at the head of the queue.
LEMMA ShiftedConn ==
  ASSUME NEW c \in ConnRecords, ConnInv(c), c.queue # <<>>, c.pc \in {"upgrade", "frames"}
  PROVE  /\ Head(c.queue).type # "message" =>
              /\ InOrder(c.sent, c.got, Tail(c.queue), c.decoding)
              /\ Head(c.queue).type = "normal" => NoneLost(c.sent, c.got, <<>>)
              /\ Head(c.queue).type = "open" /\ c.pc = "upgrade" => ConnInv([Shifted(c) EXCEPT !.pc = "frames"])
         /\ c.pc = "upgrade" => Head(c.queue).type # "message"
         /\ c.pc = "frames" /\ Head(c.queue).type = "message" =>
              ConnInv([Shifted(c) EXCEPT !.pc = "yield", !.got = Append(@, Head(c.queue).n)])
<1>1. /\ c.queue \in Seq(Events) /\ Tail(c.queue) \in Seq(Events) /\ Head(c.queue) = c.queue[1]
      /\ 1 \in DOMAIN c.queue
  BY ConnFields, TakenFrom
<1>2. NoneLost(c.sent, c.got, c.queue) /\ c.sock # "connecting"
  BY DEF ConnInv, SocketFits, Ended
<1>3. ASSUME Head(c.queue).type # "message"
      PROVE  /\ InOrder(c.sent, c.got, Tail(c.queue), c.decoding)
             /\ Head(c.queue).type = "normal" => NoneLost(c.sent, c.got, <<>>)
             /\ Head(c.queue).type = "open" /\ c.pc = "upgrade" => ConnInv([Shifted(c) EXCEPT !.pc = "frames"])
  <2> DEFINE q == Tail(c.queue)
             d == [Shifted(c) EXCEPT !.pc = "frames"]
  <2>1. /\ InOrder(c.sent, c.got, q, c.decoding) /\ NoneLost(c.sent, c.got, q)
        /\ Closing(q) => Closing(c.queue)
    BY <1>2, <1>3, ConnFields, EventTaken DEF ConnInv
  <2>2. Head(c.queue).type = "normal" => NoneLost(c.sent, c.got, <<>>)
    BY <1>2, ConnFields, FramesDropped DEF ConnInv
  <2> HIDE DEF q
  <2>3. /\ d \in ConnRecords /\ d.sent = c.sent /\ d.got = c.got /\ d.decoding = c.decoding /\ d.pc = "frames"
        /\ d.queue = q /\ d.sock = c.sock
    BY <1>1 DEF Shifted, ConnRecords, q
  <2> HIDE DEF d
  <2>4. SocketFits(d) BY <1>2, <2>1, <2>3 DEF ConnInv, SocketFits, Ended
  <2>5. ConnInv(d) BY <2>1, <2>3, <2>4 DEF ConnInv
  <2> QED BY <2>1, <2>2, <2>5 DEF d, q
<1>4. c.pc = "upgrade" => Head(c.queue).type # "message" BY <1>1, <1>2 DEF ConnInv, SocketFits
<1>5. ASSUME c.pc = "frames", Head(c.queue).type = "message"
      PROVE  ConnInv([Shifted(c) EXCEPT !.pc = "yield", !.got = Append(@, Head(c.queue).n)])
  <2> DEFINE q == Tail(c.queue)
             g == Append(c.got, Head(c.queue).n)
             d == [Shifted(c) EXCEPT !.pc = "yield", !.got = Append(@, Head(c.queue).n)]
  <2>1. /\ g \in Seq(Nat) /\ q \in Seq(Events) /\ InOrder(c.sent, g, q, c.decoding) /\ NoneLost(c.sent, g, q)
        /\ Closing(q) => Closing(c.queue)
    BY <1>2, <1>5, ConnFields, MessageGot DEF ConnInv
  <2> HIDE DEF q, g
  <2>2. /\ d \in ConnRecords /\ d.sent = c.sent /\ d.got = g /\ d.decoding = c.decoding /\ d.pc = "yield"
        /\ d.queue = q /\ d.sock = c.sock
    <3> DEFINE h == Shifted(c)
    <3>1. /\ h \in ConnRecords /\ h.sent = c.sent /\ h.got = c.got /\ h.decoding = c.decoding
          /\ h.queue = q /\ h.sock = c.sock
      BY <1>1 DEF Shifted, ConnRecords, q
    <3>2. d = [h EXCEPT !.pc = "yield", !.got = g] BY <3>1 DEF g
    <3> HIDE DEF h, d
    <3> QED BY <2>1, <3>1, <3>2 DEF ConnRecords
  <2> HIDE DEF d
  <2>4. SocketFits(d) BY <1>2, <2>1, <2>2 DEF ConnInv, SocketFits, Ended
  <2>5. ConnInv(d) BY <2>1, <2>2, <2>4 DEF ConnInv
  <2> QED BY <2>5 DEF d
<1> QED BY <1>3, <1>4, <1>5

\* Another place of the generator while nothing else changes.
LEMMA MovedConn ==
  ASSUME NEW c \in ConnRecords, ConnInv(c), NEW place \in {"probe", "frames", "failed"},
         \/ c.pc \in {"off", "probe"} /\ place \in {"probe", "failed"}
         \/ c.pc = "yield" /\ place = "frames"
  PROVE  ConnInv([c EXCEPT !.pc = place])
<1> DEFINE d == [c EXCEPT !.pc = place]
<1>1. /\ d \in ConnRecords /\ d.sent = c.sent /\ d.got = c.got /\ d.decoding = c.decoding /\ d.pc = place
      /\ d.queue = c.queue /\ d.sock = c.sock
  BY DEF ConnRecords, Ended
<1> HIDE DEF d
<1>2. SocketFits(d) BY <1>1 DEF ConnInv, SocketFits, Ended
<1>3. ConnInv(d) BY <1>1, <1>2 DEF ConnInv, Ended
<1> QED BY <1>3 DEF d

\* The upgrade starts a connection.
LEMMA UpgradeConn ==
  ASSUME NEW c \in ConnRecords, ConnInv(c), c.pc = "probe"
  PROVE  ConnInv([c EXCEPT !.pc = "upgrade", !.sock = "connecting"])
<1> DEFINE d == [c EXCEPT !.pc = "upgrade", !.sock = "connecting"]
<1>1. /\ d \in ConnRecords /\ d.sent = c.sent /\ d.got = c.got /\ d.decoding = c.decoding /\ d.pc = "upgrade"
      /\ d.queue = c.queue /\ d.sock = "connecting"
  BY DEF ConnRecords
<1>0. ~Closing(c.queue) /\ c.queue = <<>> /\ c.decoding = {} BY DEF ConnInv, SocketFits
<1> HIDE DEF d
<1>2. SocketFits(d) BY <1>0, <1>1 DEF SocketFits, Ended
<1>3. ConnInv(d) BY <1>1, <1>2 DEF ConnInv, Ended
<1> QED BY <1>3 DEF d

----------------------------------------------------------------------------
\* All connections of a session

Active == {"challenge", "seeding", "creating", "sent"}

\* Over sockets a request in flight is the negotiation of its stream, and streams that
\* have not started have no connection.
StreamsNegotiate ==
  mode = "mpp-session-ws" =>
    \A r \in Streams : /\ req[r].st \in Active => conn[r].pc = "probe"
                       /\ r >= next => conn[r].pc = "off"

SocketsInv ==
  /\ provider = "orderbook" => mode = "mpp-session-ws"
  /\ conn \in [Streams -> ConnRecords]
  /\ \A r \in Streams : ConnInv(conn[r])
  /\ StreamsNegotiate

\* The connection of one stream changes.
LEMMA OneConn ==
  ASSUME SocketsInv, NEW r \in Streams, NEW d, ConnInv(d), conn' = [conn EXCEPT ![r] = d]
  PROVE  /\ conn' \in [Streams -> ConnRecords] /\ conn'[r] = d
         /\ \A s \in Streams : ConnInv(conn'[s])
         /\ \A s \in Streams \ {r} : conn'[s] = conn[s]
<1>1. d \in ConnRecords BY DEF ConnInv
<1>2. conn'[r] = d /\ \A s \in Streams \ {r} : conn'[s] = conn[s] BY DEF SocketsInv
<1>3. conn' \in [Streams -> ConnRecords] BY <1>1 DEF SocketsInv
<1>4. \A s \in Streams : ConnInv(conn'[s]) BY <1>2 DEF SocketsInv
<1> QED BY <1>2, <1>3, <1>4

NetworkStep(r) ==
  \/ HandshakeAccepted(r) \/ HandshakeRejected(r) \/ ConnectionLost(r)
  \/ \E kind \in Kinds : FrameArrives(r, kind)
  \/ \E n \in 1..MaxFrames, decoded \in BOOLEAN : BlobDecoded(r, n, decoded)
  \/ \E code \in {"normal", "abnormal"} : ProviderCloses(r, code)

\* The socket and the network keep a connection in order.
LEMMA NetworkConn ==
  ASSUME SocketsInv, NEW r \in Streams, NetworkStep(r)
  PROVE  /\ UNCHANGED vars /\ conn[r].pc \notin {"off", "probe"}
         /\ \E d : ConnInv(d) /\ d.pc = conn[r].pc /\ conn' = [conn EXCEPT ![r] = d]
<1> DEFINE c == conn[r]
<1>c. c \in ConnRecords /\ ConnInv(c) /\ conn \in [Streams -> ConnRecords] BY DEF SocketsInv
<1>u. UNCHANGED vars
  BY DEF NetworkStep, HandshakeAccepted, HandshakeRejected, ConnectionLost, FrameArrives, BlobDecoded,
     ProviderCloses, HandlerStep
<1>p. c.sock \in {"connecting", "open"} \/ c.decoding # {} => c.pc \notin {"off", "probe"}
  BY <1>c DEF ConnInv, SocketFits
<1>e. \A type \in {"open", "error", "abnormal", "normal"} :
        Event(type) \in Events /\ Event(type).type = type /\ Event(type).type # "message"
  BY DEF Event, Events
<1>s. ASSUME NEW e \in Events, e.type # "message", NEW sock \in {"open", "closed"},
             e.type = "normal" => sock = "closed", c.sock \in {"connecting", "open"},
             conn' = [conn EXCEPT ![r] = [c EXCEPT !.sock = sock, !.queue = Append(c.queue, e)]]
      PROVE  \E d : ConnInv(d) /\ d.pc = c.pc /\ conn' = [conn EXCEPT ![r] = d]
  <2> DEFINE d == [c EXCEPT !.sock = sock, !.queue = Append(c.queue, e)]
  <2>1. ConnInv(d) BY <1>c, <1>s, EventConn
  <2>2. d.pc = c.pc BY <1>c DEF ConnRecords
  <2> QED BY <1>s, <2>1, <2>2
<1>1. CASE HandshakeAccepted(r)
  <2>1. /\ c.sock = "connecting"
        /\ conn' = [conn EXCEPT ![r] = [c EXCEPT !.sock = "open", !.queue = Append(c.queue, Event("open"))]]
    BY <1>1, <1>c DEF HandshakeAccepted
  <2> QED BY <1>u, <1>p, <1>e, <1>s, <2>1
<1>2. CASE HandshakeRejected(r)
  <2>1. /\ c.sock = "connecting"
        /\ conn' = [conn EXCEPT ![r] = [c EXCEPT !.sock = "closed", !.queue = Append(c.queue, Event("abnormal"))]]
    BY <1>2, <1>c DEF HandshakeRejected
  <2> QED BY <1>u, <1>p, <1>e, <1>s, <2>1
<1>3. CASE ConnectionLost(r)
  <2> DEFINE d == [c EXCEPT !.sock = "open", !.queue = Append(c.queue, Event("error"))]
  <2>1. c.sock \in {"connecting", "open"} BY <1>3 DEF ConnectionLost
  <2>2. ConnInv(d) BY <1>c, <1>e, <2>1, EventConn
  <2>3. d \in ConnRecords /\ d.sock = "open" /\ d.queue = Append(c.queue, Event("error")) /\ d.pc = c.pc
    BY <1>c, <2>2 DEF ConnInv, ConnRecords
  <2> DEFINE e == [d EXCEPT !.sock = "closed", !.queue = Append(d.queue, Event("abnormal"))]
  <2>4. ConnInv(e)
    <3> HIDE DEF d
    <3> QED BY <1>e, <2>2, <2>3, EventConn
  <2>5. c.queue \o <<Event("error"), Event("abnormal")>> = Append(d.queue, Event("abnormal"))
    <3>1. c.queue \in Seq(Events) BY <1>c, ConnFields
    <3> HIDE DEF c, d
    <3>2. c.queue \o <<Event("error"), Event("abnormal")>> = Append(Append(c.queue, Event("error")), Event("abnormal"))
      BY <3>1, LossReported
    <3> QED BY <2>3, <3>2
  <2>6. conn' = [conn EXCEPT ![r] = [c EXCEPT !.sock = "closed",
                                               !.queue = c.queue \o <<Event("error"), Event("abnormal")>>]]
    BY <1>3, <1>c DEF ConnectionLost
  <2>7. e = [c EXCEPT !.sock = "closed", !.queue = Append(d.queue, Event("abnormal"))] BY <1>c DEF ConnRecords
  <2>8. e.pc = c.pc BY <1>c, <2>7 DEF ConnRecords
  <2>9. conn' = [conn EXCEPT ![r] = e] BY <2>5, <2>6, <2>7
  <2> HIDE DEF e, d
  <2> QED BY <1>u, <1>p, <2>1, <2>4, <2>8, <2>9
<1>4. ASSUME NEW kind \in Kinds, FrameArrives(r, kind)
      PROVE  /\ c.pc \notin {"off", "probe"}
             /\ \E d : ConnInv(d) /\ d.pc = c.pc /\ conn' = [conn EXCEPT ![r] = d]
  <2> DEFINE text == [c EXCEPT !.sent = Append(c.sent, "text"), !.queue = Append(c.queue, Message(Len(c.sent) + 1))]
             blob == [c EXCEPT !.sent = Append(c.sent, "blob"), !.decoding = c.decoding \cup {Len(c.sent) + 1}]
  <2>1. c.sock = "open" BY <1>4 DEF FrameArrives
  <2>2. ConnInv(text) /\ ConnInv(blob) BY <1>c, <2>1, FrameConn
  <2>3. text.pc = c.pc /\ blob.pc = c.pc BY <1>c DEF ConnRecords
  <2>4. conn' = [conn EXCEPT ![r] = IF kind = "text" THEN text ELSE blob]
    <3>1. CASE kind = "text" BY <1>4, <1>c, <3>1 DEF FrameArrives, ConnRecords
    <3>2. CASE kind = "blob" BY <1>4, <1>c, <3>2 DEF FrameArrives, ConnRecords
    <3> QED BY <3>1, <3>2 DEF Kinds
  <2> HIDE DEF text, blob
  <2> QED BY <1>p, <2>1, <2>2, <2>3, <2>4
<1>5. ASSUME NEW n, NEW decoded \in BOOLEAN, BlobDecoded(r, n, decoded)
      PROVE  /\ c.pc \notin {"off", "probe"}
             /\ \E d : ConnInv(d) /\ d.pc = c.pc /\ conn' = [conn EXCEPT ![r] = d]
  <2> DEFINE kept == [c EXCEPT !.decoding = c.decoding \ {n}, !.queue = Append(c.queue, Message(n))]
             dropped == [c EXCEPT !.decoding = c.decoding \ {n}]
  <2>1. n \in c.decoding BY <1>5 DEF BlobDecoded
  <2>2. ConnInv(kept) /\ ConnInv(dropped) BY <1>c, <2>1, DecodedConn
  <2>3. kept.pc = c.pc /\ dropped.pc = c.pc BY <1>c DEF ConnRecords
  <2>4. conn' = [conn EXCEPT ![r] = IF decoded THEN kept ELSE dropped]
    <3>1. CASE decoded BY <1>5, <1>c, <3>1 DEF BlobDecoded, ConnRecords
    <3>2. CASE ~decoded BY <1>5, <1>c, <3>2 DEF BlobDecoded, ConnRecords
    <3> QED BY <3>1, <3>2
  <2> HIDE DEF kept, dropped
  <2> QED BY <1>p, <2>1, <2>2, <2>3, <2>4
<1>6. ASSUME NEW code \in {"normal", "abnormal"}, ProviderCloses(r, code)
      PROVE  /\ c.pc \notin {"off", "probe"}
             /\ \E d : ConnInv(d) /\ d.pc = c.pc /\ conn' = [conn EXCEPT ![r] = d]
  <2>1. /\ c.sock = "open"
        /\ conn' = [conn EXCEPT ![r] = [c EXCEPT !.sock = "closed", !.queue = Append(c.queue, Event(code))]]
    BY <1>6, <1>c DEF ProviderCloses
  <2> QED BY <1>p, <1>e, <1>s, <2>1
<1> HIDE DEF c
<1> QED BY <1>u, <1>1, <1>2, <1>3, <1>4, <1>5, <1>6 DEF c, NetworkStep

\* The generator keeps it in order.
LEMMA GeneratorConn ==
  ASSUME SocketsInv, NEW r \in Streams, GeneratorStep(r)
  PROVE  /\ UNCHANGED vars /\ conn[r].pc \notin {"off", "probe"}
         /\ \E d : ConnInv(d) /\ d.pc \notin {"off", "probe"} /\ conn' = [conn EXCEPT ![r] = d]
<1> DEFINE c == conn[r]
<1>c. c \in ConnRecords /\ ConnInv(c) /\ conn \in [Streams -> ConnRecords] BY DEF SocketsInv
<1>u. UNCHANGED vars BY DEF GeneratorStep, AwaitUpgrade, TakeEvent, NextFrame, LeaveStream, HandlerStep
<1>p. c.pc \in {"upgrade", "frames", "yield"} BY DEF GeneratorStep, AwaitUpgrade, TakeEvent, NextFrame, LeaveStream
<1>f. ASSUME NEW b \in ConnRecords, InOrder(b.sent, b.got, b.queue, b.decoding), NEW how \in Ended,
             how = "closed" => NoneLost(b.sent, b.got, <<>>), conn' = [conn EXCEPT ![r] = Finished(b, how)]
      PROVE  \E d : ConnInv(d) /\ d.pc \notin {"off", "probe"} /\ conn' = [conn EXCEPT ![r] = d]
  <2>1. ConnInv(Finished(b, how)) BY <1>f, FinishedConn
  <2>2. Finished(b, how).pc \notin {"off", "probe"} BY DEF Finished, ConnRecords, Ended
  <2> QED BY <1>f, <2>1, <2>2
<1>s. c.queue # <<>> => /\ Shifted(c) \in ConnRecords /\ Shifted(c).sent = c.sent /\ Shifted(c).got = c.got
                        /\ Shifted(c).queue = Tail(c.queue) /\ Shifted(c).decoding = c.decoding
  <2>1. c.queue # <<>> => Tail(c.queue) \in Seq(Events) BY <1>c, ConnFields, TakenFrom
  <2> QED BY <1>c, <2>1 DEF Shifted, ConnRecords
<1>1. ASSUME AwaitUpgrade(r)
      PROVE  \E d : ConnInv(d) /\ d.pc \notin {"off", "probe"} /\ conn' = [conn EXCEPT ![r] = d]
  <2>1. c.pc = "upgrade" /\ c.queue # <<>> BY <1>1 DEF AwaitUpgrade
  <2>2. /\ Head(c.queue).type # "message" /\ InOrder(c.sent, c.got, Tail(c.queue), c.decoding)
        /\ Head(c.queue).type = "open" => ConnInv([Shifted(c) EXCEPT !.pc = "frames"])
    BY <1>c, <2>1, ShiftedConn
  <2>3. CASE Head(c.queue).type = "open"
    <3> DEFINE d == [Shifted(c) EXCEPT !.pc = "frames"]
    <3>1. conn' = [conn EXCEPT ![r] = d] BY <1>1, <2>3 DEF AwaitUpgrade
    <3>2. d.pc = "frames" BY <1>s, <2>1 DEF ConnRecords
    <3> HIDE DEF d
    <3>3. ConnInv(d) BY <2>2, <2>3 DEF d
    <3> QED BY <3>1, <3>2, <3>3
  <2>4. CASE Head(c.queue).type # "open"
    <3>1. conn' = [conn EXCEPT ![r] = Finished(Shifted(c), "failed")] BY <1>1, <2>2, <2>4 DEF AwaitUpgrade
    <3>2. "failed" \in Ended BY DEF Ended
    <3> QED BY <1>f, <1>s, <2>1, <2>2, <3>1, <3>2
  <2> QED BY <2>3, <2>4
<1>2. ASSUME TakeEvent(r)
      PROVE  \E d : ConnInv(d) /\ d.pc \notin {"off", "probe"} /\ conn' = [conn EXCEPT ![r] = d]
  <2>1. c.pc = "frames" /\ c.queue # <<>> BY <1>2 DEF TakeEvent
  <2>2. /\ Head(c.queue).type # "message" =>
             /\ InOrder(c.sent, c.got, Tail(c.queue), c.decoding)
             /\ Head(c.queue).type = "normal" => NoneLost(c.sent, c.got, <<>>)
        /\ Head(c.queue).type = "message" =>
             ConnInv([Shifted(c) EXCEPT !.pc = "yield", !.got = Append(@, Head(c.queue).n)])
    BY <1>c, <2>1, ShiftedConn
  <2>3. CASE Head(c.queue).type = "message"
    <3> DEFINE d == [Shifted(c) EXCEPT !.pc = "yield", !.got = Append(@, Head(c.queue).n)]
    <3>1. conn' = [conn EXCEPT ![r] = d] BY <1>2, <2>3 DEF TakeEvent
    <3>2. d.pc = "yield" BY <1>s, <2>1 DEF ConnRecords
    <3> HIDE DEF d
    <3>3. ConnInv(d) BY <2>2, <2>3 DEF d
    <3> QED BY <3>1, <3>2, <3>3
  <2>4. CASE Head(c.queue).type = "normal"
    <3>1. conn' = [conn EXCEPT ![r] = Finished(Shifted(c), "closed")] BY <1>2, <2>4 DEF TakeEvent
    <3>2. "closed" \in Ended BY DEF Ended
    <3> QED BY <1>f, <1>s, <2>1, <2>2, <2>4, <3>1, <3>2
  <2>5. CASE Head(c.queue).type \notin {"message", "normal"}
    <3>1. conn' = [conn EXCEPT ![r] = Finished(Shifted(c), "failed")] BY <1>2, <2>5 DEF TakeEvent
    <3>2. "failed" \in Ended BY DEF Ended
    <3> QED BY <1>f, <1>s, <2>1, <2>2, <2>5, <3>1, <3>2
  <2> QED BY <2>3, <2>4, <2>5
<1>3. ASSUME NextFrame(r)
      PROVE  \E d : ConnInv(d) /\ d.pc \notin {"off", "probe"} /\ conn' = [conn EXCEPT ![r] = d]
  <2> DEFINE d == [c EXCEPT !.pc = "frames"]
  <2>1. c.pc = "yield" /\ conn' = [conn EXCEPT ![r] = d] BY <1>3, <1>c DEF NextFrame
  <2>2. ConnInv(d) BY <1>c, <2>1, MovedConn
  <2>3. d.pc = "frames" BY <1>c DEF ConnRecords
  <2> HIDE DEF d
  <2> QED BY <2>1, <2>2, <2>3
<1>4. ASSUME LeaveStream(r)
      PROVE  \E d : ConnInv(d) /\ d.pc \notin {"off", "probe"} /\ conn' = [conn EXCEPT ![r] = d]
  <2>1. conn' = [conn EXCEPT ![r] = Finished(c, "left")] BY <1>4, <1>c DEF LeaveStream
  <2>2. "left" \in Ended /\ InOrder(c.sent, c.got, c.queue, c.decoding) BY <1>c DEF Ended, ConnInv
  <2> QED BY <1>c, <1>f, <2>1, <2>2
<1> QED BY <1>u, <1>p, <1>1, <1>2, <1>3, <1>4 DEF GeneratorStep

\* A stream over a socket starts with a connection that has not been used.
LEMMA StartConn ==
  ASSUME TypeOK, SocketsInv, mode = "mpp-session-ws", UNCHANGED <<mode, provider>>,
         NEW r \in Streams, StartSocketStream(r)
  PROVE  SocketsInv'
<1> DEFINE d == [conn[r] EXCEPT !.pc = "probe"]
<1>1. r = next /\ next' = next + 1 /\ req' = [req EXCEPT ![r] = Attempt(1)] /\ req \in [Requests -> RequestRecords]
  BY StartSocketIs DEF TypeOK
<1>2. conn[r] \in ConnRecords /\ ConnInv(conn[r]) BY DEF SocketsInv
<1>3. r \in Nat /\ next \in Nat /\ \A s \in Streams : s \in Nat BY <1>1 DEF Streams, TypeOK
<1>4. conn[r].pc = "off" BY <1>1, <1>3 DEF SocketsInv, StreamsNegotiate
<1>5. ConnInv(d) BY <1>2, <1>4, MovedConn
<1>6. d.pc = "probe" BY <1>2 DEF ConnRecords
<1>7. conn' = [conn EXCEPT ![r] = d] BY DEF StartSocketStream, SocketsInv
<1> HIDE DEF d
<1>8. /\ conn' \in [Streams -> ConnRecords] /\ conn'[r] = d
      /\ \A s \in Streams : ConnInv(conn'[s])
      /\ \A s \in Streams \ {r} : conn'[s] = conn[s]
  BY <1>5, <1>7, OneConn
<1>9. \A s \in Streams \ {r} : req'[s] = req[s]
  <2>1. Streams \subseteq Requests BY SocketAssumption, ClientAssumption DEF Streams, Requests
  <2> QED BY <1>1, <2>1
<1>10. StreamsNegotiate' BY <1>1, <1>3, <1>6, <1>8, <1>9 DEF SocketsInv, StreamsNegotiate
<1> QED BY <1>8, <1>10 DEF SocketsInv

\* The connection and the request of one stream change; its negotiation has ended or goes on.
LEMMA OneStream ==
  ASSUME TypeOK, SocketsInv, UNCHANGED <<mode, provider, next>>, NEW r \in Streams,
         NEW d, ConnInv(d), conn' = [conn EXCEPT ![r] = d], conn[r].pc # "off", d.pc # "off",
         req' = req \/ (\E q : req' = [req EXCEPT ![r] = q]), req'[r].st \in Active => d.pc = "probe"
  PROVE  SocketsInv'
<1>1. /\ conn' \in [Streams -> ConnRecords] /\ conn'[r] = d
      /\ \A s \in Streams : ConnInv(conn'[s])
      /\ \A s \in Streams \ {r} : conn'[s] = conn[s]
  BY OneConn
<1>2. \A s \in Streams \ {r} : req'[s] = req[s]
  <2>1. Streams \subseteq Requests BY SocketAssumption, ClientAssumption DEF Streams, Requests
  <2> QED BY <2>1 DEF TypeOK
<1>3. mode = "mpp-session-ws" => ~(r >= next) BY DEF SocketsInv, StreamsNegotiate
<1>4. StreamsNegotiate' BY <1>1, <1>2, <1>3 DEF SocketsInv, StreamsNegotiate
<1> QED BY <1>1, <1>4 DEF SocketsInv

\* The negotiation of a voucher goes on, ends the stream, or starts the connection.
LEMMA NegotiationConn ==
  ASSUME TypeOK, SocketsInv, mode = "mpp-session-ws", UNCHANGED <<mode, provider>>,
         NEW r \in Streams, NegotiationStep(r)
  PROVE  SocketsInv'
<1> DEFINE c == conn[r]
<1>c. c \in ConnRecords /\ ConnInv(c) /\ conn \in [Streams -> ConnRecords] BY DEF SocketsInv
<1>r. r \in Requests /\ req \in [Requests -> RequestRecords] /\ Streams \subseteq Requests
  BY SocketAssumption, ClientAssumption DEF Streams, Requests, TypeOK
<1>f. c.pc = "probe" => ConnInv([c EXCEPT !.pc = "failed"]) /\ [c EXCEPT !.pc = "failed"].pc = "failed"
  BY <1>c, MovedConn DEF ConnRecords
<1>1. CASE Negotiate(r)
  <2>1. req[r].st \in Active /\ next' = next /\ \E q : req' = [req EXCEPT ![r] = q]
    BY <1>1 DEF Negotiate, Active, ReserveNextCumulative, Reserve, RejectChallenge, SeedFromStore, SeedFails,
       CredentialFails, SignVoucher, stream
  <2>2. req'[r].st \in Active \cup {"failed"}
    <3>1. req[r] \in RequestRecords BY <1>r
    <3>2. FailedRequest.st = "failed" /\ Retried(req[r]).st \in {"challenge", "failed"}
      BY <3>1, NamedRequests, RetriedType
    <3>3. \A st, val, tries, rep : Request(st, val, tries, rep).st = st BY DEF Request
    <3> QED BY <1>1, <1>r, <3>2, <3>3
        DEF Negotiate, Active, ReserveNextCumulative, Reserve, RejectChallenge, SeedFromStore, SeedFails,
            CredentialFails, SignVoucher
  <2>3. c.pc = "probe" BY <2>1 DEF SocketsInv, StreamsNegotiate
  <2>4. CASE req'[r].st = "failed"
    <3> DEFINE d == [c EXCEPT !.pc = "failed"]
    <3>1. conn' = [conn EXCEPT ![r] = d] BY <1>1, <1>c, <2>4 DEF Negotiate
    <3>2. ConnInv(d) /\ d.pc = "failed" BY <1>f, <2>3
    <3> HIDE DEF d
    <3> QED BY <2>1, <2>3, <2>4, <3>1, <3>2, OneStream DEF Active
  <2>5. CASE req'[r].st # "failed"
    <3>1. conn' = [conn EXCEPT ![r] = c]
      <4>1. conn' = [conn EXCEPT ![r] = [c EXCEPT !.pc = c.pc]] BY <1>1, <1>c, <2>5 DEF Negotiate
      <4>2. [c EXCEPT !.pc = c.pc] = c BY <1>c DEF ConnRecords
      <4> QED BY <4>1, <4>2
    <3> HIDE DEF c
    <3>2. c = conn[r] BY DEF c
    <3> QED BY <1>c, <2>1, <2>3, <3>1, <3>2, OneStream
  <2> QED BY <2>4, <2>5
<1>2. CASE Upgrade(r)
  <2> DEFINE up == [c EXCEPT !.pc = "upgrade", !.sock = "connecting"]
             down == [c EXCEPT !.pc = "failed"]
  <2>1. /\ c.pc = "probe" /\ req' = [req EXCEPT ![r] = Request("done", req[r].val, 0, 0)]
        /\ next' = next
    BY <1>2 DEF Upgrade, stream
  <2>2. req'[r].st \notin Active BY <1>r, <2>1 DEF Request, Active
  <2>3. conn' = [conn EXCEPT ![r] = up] \/ conn' = [conn EXCEPT ![r] = down]
    <3>1. CASE conn' = [conn EXCEPT ![r].pc = "upgrade", ![r].sock = "connecting"] BY <1>c, <3>1
    <3>2. CASE conn' = [conn EXCEPT ![r].pc = "failed"] BY <1>c, <3>2
    <3> QED BY <1>2, <3>1, <3>2 DEF Upgrade
  <2>4. ConnInv(up) /\ up.pc = "upgrade" BY <1>c, <2>1, UpgradeConn DEF ConnRecords
  <2>5. ConnInv(down) /\ down.pc = "failed" BY <1>f, <2>1
  <2> HIDE DEF up, down
  <2>6. c.pc # "off" /\ \E q : req' = [req EXCEPT ![r] = q] BY <2>1
  <2>7. CASE conn' = [conn EXCEPT ![r] = up] BY <2>1, <2>2, <2>4, <2>6, <2>7, OneStream
  <2>8. CASE conn' = [conn EXCEPT ![r] = down] BY <2>1, <2>2, <2>5, <2>6, <2>8, OneStream
  <2> QED BY <2>3, <2>7, <2>8
<1> QED BY <1>1, <1>2 DEF NegotiationStep

\* A step of a session is one of a stream over a socket, or no connection changes.
LEMMA ConnSteps ==
  ASSUME SocketsInv, [OrderbookNext]_orderbookVars
  PROVE  \/ UNCHANGED conn /\ (mode = "mpp-session-ws" => UNCHANGED <<req, next>>)
         \/ /\ mode = "mpp-session-ws"
            /\ \E r \in Streams : StartSocketStream(r) \/ NegotiationStep(r) \/ NetworkStep(r) \/ GeneratorStep(r)
<1>k. FrameKinds \subseteq Kinds /\ "text" \in Kinds BY SocketAssumption DEF Kinds
<1>1. CASE OrderbookStep
  <2>1. mode = "mpp-session-ws" BY <1>1 DEF OrderbookStep, SocketsInv
  <2>2. PICK r \in Streams : ClientStep(r) \/ RouteStep(r) \/ Lost(r) BY <1>1 DEF OrderbookStep
  <2>3. CASE ClientStep(r) BY <2>1, <2>3 DEF ClientStep
  <2>4. CASE RouteStep(r)
    BY <1>k, <2>1, <2>4 DEF RouteStep, Upgraded, OnMessage, Tick, Push, OnClose, NetworkStep, sessionVars, vars, socketVars,
       stream
  <2>5. CASE Lost(r) BY <2>1, <2>5 DEF Lost, NetworkStep
  <2> QED BY <2>2, <2>3, <2>4, <2>5
<1>2. CASE HttpStep BY <1>2 DEF HttpStep, socketVars
<1>3. CASE \E r \in Streams : SocketSessionStep(r)
  <2>1. PICK r \in Streams : SocketSessionStep(r) BY <1>3
  <2>2. CASE SocketStep(r) BY <1>k, <2>1, <2>2 DEF SocketSessionStep, SocketStep, NetworkStep
  <2> QED BY <2>1, <2>2 DEF SocketSessionStep, FramesStep
<1>4. CASE AccountStep
  <2>1. UNCHANGED conn BY <1>4 DEF AccountStep, socketVars
  <2>2. CASE CloseStep
    BY <2>1, <2>2 DEF CloseStep, Close, PrepareCommitment, SendDelete, CloseSettles, CloseFails, stream
  <2>3. CASE DisputeStep
    BY <2>1, <2>3 DEF DisputeStep, RequestRefund, PrepareSettlement, Begin, BuildSettlement, SendTransaction,
       DisputeFails, NetworkDecides, ConfirmTransaction, vars, stream
  <2> QED BY <1>4, <2>2, <2>3 DEF AccountStep
<1>5. CASE UNCHANGED orderbookVars BY <1>5 DEF orderbookVars, sessionVars, vars, socketVars, stream
<1> QED BY <1>1, <1>2, <1>3, <1>4, <1>5 DEF OrderbookNext, SessionNext

\* Connections are in order at all times.
LEMMA SocketsAlways == ProvidersSpec => []SocketsInv
<1>1. OrderbookInit => SocketsInv
  <2> SUFFICES ASSUME OrderbookInit PROVE SocketsInv
    OBVIOUS
  <2>1. conn = [r \in Streams |-> NoConnection] BY DEF OrderbookInit, SessionInit, SocketInit
  <2>2. ConnInv(NoConnection) /\ NoConnection \in ConnRecords /\ NoConnection.pc = "off"
    BY FreshConn DEF ConnInv, NoConnection
  <2>3. \A r \in Streams : req[r].st = "free"
    <3>1. Streams \subseteq Requests BY SocketAssumption, ClientAssumption DEF Streams, Requests
    <3> QED BY <3>1, NamedRequests DEF OrderbookInit, SessionInit, Init
  <2>4. provider = "orderbook" => mode = "mpp-session-ws" BY DEF OrderbookInit
  <2> HIDE DEF NoConnection
  <2> QED BY <2>1, <2>2, <2>3, <2>4 DEF SocketsInv, StreamsNegotiate, Active
<1>2. VouchersInv /\ SocketsInv /\ [OrderbookNext]_orderbookVars => SocketsInv'
  <2> SUFFICES ASSUME VouchersInv, SocketsInv, [OrderbookNext]_orderbookVars PROVE SocketsInv'
    OBVIOUS
  <2>0. TypeOK /\ UNCHANGED <<mode, provider>> BY SessionStays DEF VouchersInv
  <2>1. CASE UNCHANGED conn /\ (mode = "mpp-session-ws" => UNCHANGED <<req, next>>)
    BY <2>0, <2>1 DEF SocketsInv, StreamsNegotiate
  <2>2. ASSUME mode = "mpp-session-ws", NEW r \in Streams, NetworkStep(r) \/ GeneratorStep(r) PROVE SocketsInv'
    <3>1. PICK d : ConnInv(d) /\ d.pc \notin {"off", "probe"} /\ conn' = [conn EXCEPT ![r] = d]
      BY <2>2, NetworkConn, GeneratorConn
    <3>2. UNCHANGED vars /\ conn[r].pc \notin {"off", "probe"} BY <2>2, NetworkConn, GeneratorConn
    <3>3. req' = req /\ next' = next BY <3>2 DEF vars, stream
    <3>4. req'[r].st \notin Active BY <2>2, <3>2, <3>3 DEF SocketsInv, StreamsNegotiate
    <3> QED BY <2>0, <3>1, <3>2, <3>3, <3>4, OneStream
  <2> QED BY <2>0, <2>1, <2>2, ConnSteps, StartConn, NegotiationConn
<1> QED BY <1>1, <1>2, VouchersAlways, PTL DEF ProvidersSpec

\* Whatever the network does to frames, closes and handshakes, and whenever Blobs are
\* decoded, text frames reach the consumer in order, none of them twice or left out.
THEOREM TextFramesComeInOrder == ProvidersSpec => []TextFramesInOrder
<1>1. ASSUME SocketsInv PROVE TextFramesInOrder
  <2> SUFFICES ASSUME NEW r \in Streams
               PROVE  LET c == conn[r]
                      IN /\ \A j \in DOMAIN c.got : c.got[j] \in Text(c) =>
                              \A n \in Text(c) : n < c.got[j] <=> n \in Yielded(c, j - 1)
                         /\ c.pc = "closed" => Text(c) \subseteq Yielded(c, Len(c.got))
    BY DEF TextFramesInOrder
  <2> DEFINE c == conn[r]
  <2>1. /\ c \in ConnRecords /\ GotInOrder(c.sent, c.got) /\ Text(c) = TextIn(c.sent)
        /\ c.pc = "closed" => NoneLost(c.sent, c.got, c.queue) /\ c.queue = <<>>
    BY <1>1 DEF SocketsInv, ConnInv, SocketFits, InOrder, Text, TextIn, Ended
  <2> HIDE DEF c
  <2>2. DOMAIN c.got = 1..Len(c.got) /\ Len(c.got) \in Nat BY <2>1, ConnFields, LenProperties
  <2>3. ASSUME NEW j \in DOMAIN c.got, c.got[j] \in Text(c), NEW n \in Text(c)
        PROVE  n < c.got[j] <=> n \in Yielded(c, j - 1)
    <3>1. \A i \in DOMAIN c.got : i < j <=> i \in 1..(j - 1) BY <2>2
    <3>2. 1..(j - 1) \subseteq DOMAIN c.got BY <2>2
    <3>3. n \in Yielded(c, j - 1) => \E i \in DOMAIN c.got : i < j /\ c.got[i] = n BY <3>1, <3>2 DEF Yielded
    <3>4. (\E i \in DOMAIN c.got : i < j /\ c.got[i] = n) => n \in Yielded(c, j - 1) BY <3>1 DEF Yielded
    <3> QED BY <2>1, <2>3, <3>3, <3>4 DEF GotInOrder
  <2>4. ASSUME c.pc = "closed", NEW n \in Text(c) PROVE n \in Yielded(c, Len(c.got))
    <3>1. DOMAIN c.queue = {} BY <2>1, <2>4
    <3>2. \E i \in DOMAIN c.got : c.got[i] = n BY <2>1, <2>4, <3>1 DEF NoneLost
    <3> QED BY <2>2, <3>2 DEF Yielded
  <2> QED BY <2>3, <2>4 DEF c
<1> QED BY <1>1, SocketsAlways, PTL

\* However a stream over a socket ends, its socket does not stay open.
THEOREM EndedStreamsReleaseSockets == ProvidersSpec => []SocketsReleased
<1>1. SocketsInv => SocketsReleased BY DEF SocketsInv, ConnInv, SocketFits, SocketsReleased
<1> QED BY <1>1, SocketsAlways, PTL
=============================================================================
