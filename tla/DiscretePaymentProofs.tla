----------------------- MODULE DiscretePaymentProofs -----------------------
(***************************************************************************)
(* Proofs about DiscretePayment, and about its two parts first.            *)
(*                                                                         *)
(* SpendLedger: the types say that the call in the mutex is alone there    *)
(* and still sees the ledger it read, so that what a call adds to is       *)
(* always the ledger of this moment.  A total is then the number of        *)
(* stroops of the calls it counts: each step adds one call's or takes one  *)
(* call's away, and a new day's record starts with none, because nothing   *)
(* reserved is of a later day than the record.  For the same reason the    *)
(* mutex makes a read and a write one update.                              *)
(*                                                                         *)
(* SettlementReplay: that a payment is served a bounded number of times    *)
(* rests on its settling once: only the one request that settled it        *)
(* records it, while nothing of it is recorded or served, and the entry it *)
(* leaves counts what is served from then on.  An entry that is gone never *)
(* comes back.                                                             *)
(*                                                                         *)
(* DiscretePayment: what is proved of the parts holds of their             *)
(* composition, whose steps are steps of the parts or touch neither, and a *)
(* call, which signs once, pays once.  Each attempt of it that fails is a  *)
(* fault of its own, and if only its first request carried its payment,    *)
(* that request settled it: so a call that gave back the reservation of a  *)
(* payment that settled was itself disturbed, and what moved for the       *)
(* others is counted.                                                      *)
(***************************************************************************)
EXTENDS DiscretePayment, FiniteSetTheorems, TLAPS

----------------------------------------------------------------------------
\* The spend ledger

\* What a call costs is a natural number.
LEMMA AmountIsNat ==
  ASSUME LedgerTypeOK, NEW c \in Calls
  PROVE  Amount(c) \in Nat
BY LedgerAssumption DEF LedgerTypeOK, Amount

\* A ledger stays a ledger, whatever is reserved on it or released from it.
LEMMA LedgersAreClosed ==
  ASSUME LedgerTypeOK, NEW c \in Calls, NEW prev \in Ledgers
  PROVE  Today(prev) \in Ledgers /\ Reserved(c, prev) \in Ledgers /\ ReleasedFrom(c, prev) \in Ledgers
<1>1. Amount(c) \in Int /\ call[c].route \in Routes BY AmountIsNat DEF LedgerTypeOK
<1>2. day \in Days /\ EmptyLedger(day) \in Ledgers BY DEF LedgerTypeOK, EmptyLedger, Ledgers
<1>3. Today(prev) \in Ledgers BY <1>2 DEF Today
<1>4. Reserved(c, prev) \in Ledgers
  <2> DEFINE t == Today(prev)
  <2>1. t.date \in Days /\ t.total \in Int /\ t.endpoints \in [Routes -> Int] BY <1>3 DEF Ledgers
  <2>2. t = [date |-> t.date, total |-> t.total, endpoints |-> t.endpoints] BY <1>3 DEF Ledgers
  <2> DEFINE e == [t.endpoints EXCEPT ![call[c].route] =
                     IF EndpointCap[call[c].route] = NoCap THEN t.endpoints[call[c].route]
                     ELSE t.endpoints[call[c].route] + Amount(c)]
  <2>3. Reserved(c, prev) = [date |-> t.date, total |-> t.total + Amount(c), endpoints |-> e]
    <3>1. Reserved(c, prev) = [t EXCEPT
            !.total = t.total + Amount(c),
            !.endpoints[call[c].route] = IF EndpointCap[call[c].route] = NoCap THEN t.endpoints[call[c].route]
                                         ELSE t.endpoints[call[c].route] + Amount(c)]
      BY Zenon DEF Reserved
    <3> HIDE DEF t
    <3> QED BY <2>2, <3>1
  <2>4. t.total + Amount(c) \in Int /\ e \in [Routes -> Int]
    <3> HIDE DEF t
    <3> QED BY <1>1, <2>1
  <2> HIDE DEF t, e
  <2> QED BY <2>1, <2>3, <2>4 DEF Ledgers
<1>5. ReleasedFrom(c, prev) \in Ledgers
  <2>1. prev.date \in Days /\ prev.total \in Int /\ prev.endpoints \in [Routes -> Int] BY DEF Ledgers
  <2>2. prev = [date |-> prev.date, total |-> prev.total, endpoints |-> prev.endpoints] BY DEF Ledgers
  <2> DEFINE e == [prev.endpoints EXCEPT ![call[c].route] =
                     IF prev.endpoints[call[c].route] <= Amount(c) THEN 0
                     ELSE prev.endpoints[call[c].route] - Amount(c)]
  <2>3. prev.total - Amount(c) \in Int /\ e \in [Routes -> Int] BY <1>1, <2>1
  <2>4. [date |-> prev.date, total |-> prev.total - Amount(c), endpoints |-> e] \in Ledgers
    <3> HIDE DEF e
    <3> QED BY <2>1, <2>3 DEF Ledgers
  <2>5. CASE prev.date = day
    BY <2>2, <2>4, <2>5 DEF ReleasedFrom
  <2> QED BY <2>5 DEF ReleasedFrom
<1> QED BY <1>3, <1>4, <1>5

\* In its turn, a call's function is applied to the ledger of this moment.
LEMMA PrevIsLedger ==
  ASSUME LedgerTypeOK, NEW c \in Calls, Turn(c)
  PROVE  Prev(c) = ledger
BY DEF LedgerTypeOK, Turn, Prev

\* What is out of the mutex leaves the others as they are.
LEMMA UnlockEmpties ==
  ASSUME LedgerTypeOK, NEW c \in Calls, Turn(c), Unlock(c)
  PROVE  holding' = {} /\ view' \in [Calls -> Ledgers]
<1>1. EmptyLedger(0) \in Ledgers
  BY LedgerAssumption DEF EmptyLedger, Ledgers, Days
<1> QED BY <1>1 DEF LedgerTypeOK, Turn, Unlock

\* The record of a call that is released late.
LEMMA LateRecord ==
  ASSUME NEW r \in [st : Steps, mode : Modes, route : Routes, on : Days], NEW d
  PROVE  [r EXCEPT !.st = "late", !.on = d]
           = [st |-> "late", mode |-> r.mode, route |-> r.route, on |-> d]
<1>1. r = [st |-> r.st, mode |-> r.mode, route |-> r.route, on |-> r.on] OBVIOUS
<1>2. [r EXCEPT !.st = "late"] = [st |-> "late", mode |-> r.mode, route |-> r.route, on |-> r.on] BY <1>1
<1> DEFINE s == [st |-> "late", mode |-> r.mode, route |-> r.route, on |-> r.on]
<1>3. [s EXCEPT !.on = d] = [st |-> "late", mode |-> r.mode, route |-> r.route, on |-> d] OBVIOUS
<1>4. [r EXCEPT !.st = "late", !.on = d] = [[r EXCEPT !.st = "late"] EXCEPT !.on = d] OBVIOUS
<1> QED BY <1>2, <1>3, <1>4

\* The types hold at first.
LEMMA InitTypes == LedgerInit => LedgerTypeOK
<1> SUFFICES ASSUME LedgerInit PROVE LedgerTypeOK OBVIOUS
<1>1. 0 \in Days /\ EmptyLedger(0) \in Ledgers
  BY LedgerAssumption DEF EmptyLedger, Ledgers, Days
<1> QED BY <1>1 DEF LedgerInit, LedgerTypeOK, Steps

\* Every step keeps the types, and with them the exclusion of the mutex.
LEMMA StepTypes == LedgerTypeOK /\ [LedgerNext]_ledgerVars => LedgerTypeOK'
<1> SUFFICES ASSUME LedgerTypeOK, [LedgerNext]_ledgerVars PROVE LedgerTypeOK' OBVIOUS
<1>1. ASSUME NEW c \in Calls, RefuseEarly(c) \/ Begin(c) \/ Commit(c) \/ GiveUp(c) PROVE LedgerTypeOK'
  BY <1>1 DEF LedgerTypeOK, RefuseEarly, Begin, Commit, GiveUp, Goto, Steps
<1>2. ASSUME NEW c \in Calls, LockAndRead(c) PROVE LedgerTypeOK'
  BY <1>2 DEF LedgerTypeOK, LockAndRead
<1>3. ASSUME NEW c \in Calls, Reserve(c) PROVE LedgerTypeOK'
  <2>1. holding' = {} /\ view' \in [Calls -> Ledgers] BY <1>3, UnlockEmpties DEF Reserve
  <2>2. ledger' \in Ledgers BY <1>3, LedgersAreClosed, PrevIsLedger DEF Reserve, LedgerTypeOK
  <2>3. call' \in [Calls -> [st : Steps, mode : Modes, route : Routes, on : Days]]
    BY <1>3 DEF LedgerTypeOK, Reserve, Goto, Steps
  <2>4. store' \in Stores /\ day' \in Days BY <1>3 DEF LedgerTypeOK, Reserve
  <2> QED BY <2>1, <2>2, <2>3, <2>4 DEF LedgerTypeOK
<1>4. ASSUME NEW c \in Calls, Release(c) PROVE LedgerTypeOK'
  <2>1. holding' = {} /\ view' \in [Calls -> Ledgers] BY <1>4, UnlockEmpties DEF Release
  <2>2. ledger' \in Ledgers BY <1>4, LedgersAreClosed, PrevIsLedger DEF Release, LedgerTypeOK
  <2>3. call' \in [Calls -> [st : Steps, mode : Modes, route : Routes, on : Days]]
    <3>1. CASE Goto(c, "missed") \/ Goto(c, "released") BY <3>1 DEF LedgerTypeOK, Goto, Steps
    <3>2. CASE call' = [call EXCEPT ![c].st = "late", ![c].on = day]
      <4> DEFINE late == [st |-> "late", mode |-> call[c].mode, route |-> call[c].route, on |-> day]
      <4>1. late \in [st : Steps, mode : Modes, route : Routes, on : Days] BY DEF LedgerTypeOK, Steps
      <4>2. call' = [call EXCEPT ![c] = late]
        <5>1. call[c] \in [st : Steps, mode : Modes, route : Routes, on : Days] BY DEF LedgerTypeOK
        <5>2. [call[c] EXCEPT !.st = "late", !.on = day] = late BY <5>1, LateRecord
        <5> QED BY <3>2, <5>2
      <4> HIDE DEF late
      <4> QED BY <4>1, <4>2 DEF LedgerTypeOK
    <3> QED BY <1>4, <3>1, <3>2 DEF Release
  <2>4. store' \in Stores /\ day' \in Days BY <1>4 DEF LedgerTypeOK, Release
  <2> QED BY <2>1, <2>2, <2>3, <2>4 DEF LedgerTypeOK
<1>5. ASSUME NEW c \in Calls, StoreThrows(c) PROVE LedgerTypeOK'
  <2>1. holding' = {} /\ view' \in [Calls -> Ledgers] BY <1>5, UnlockEmpties DEF StoreThrows
  <2>2. PICK st \in Steps : Goto(c, st) BY <1>5 DEF StoreThrows, Steps
  <2>3. call' \in [Calls -> [st : Steps, mode : Modes, route : Routes, on : Days]]
    BY <2>2 DEF LedgerTypeOK, Goto
  <2>4. store' \in Stores /\ day' \in Days /\ ledger' \in Ledgers BY <1>5 DEF LedgerTypeOK, StoreThrows
  <2> QED BY <2>1, <2>3, <2>4 DEF LedgerTypeOK
<1>6. CASE Midnight
  BY <1>6, LedgerAssumption DEF LedgerTypeOK, Midnight, Days
<1>7. CASE UNCHANGED ledgerVars BY <1>7 DEF LedgerTypeOK, ledgerVars
<1> QED BY <1>1, <1>2, <1>3, <1>4, <1>5, <1>6, <1>7 DEF LedgerNext, Bookkeeping

\* The client's mutex excludes: the types hold always.
THEOREM LedgerTypes == LedgerSpec => []LedgerTypeOK
BY InitTypes, StepTypes, PTL DEF LedgerSpec

-----------------------------------------------------------------------------
\* The client's mutex

\* The same client over a store with update(): no mutex, and nothing read ahead.
Atomic == INSTANCE SpendLedger WITH
  store <- "update", holding <- {}, view <- [c \in Calls |-> EmptyLedger(0)], Stores <- {"update"}

\* A call's functions are the same for either kind of store.
LEMMA SameFunctions ==
  ASSUME NEW c, NEW prev
  PROVE  /\ Atomic!WithinEndpointCap(c, prev) <=> WithinEndpointCap(c, prev)
         /\ Atomic!WithinDailyCap(c, prev) <=> WithinDailyCap(c, prev)
         /\ Atomic!Reserved(c, prev) = Reserved(c, prev)
         /\ Atomic!ReleasedFrom(c, prev) = ReleasedFrom(c, prev)
<1>1. Atomic!EmptyLedger(day) = EmptyLedger(day) BY DEF Atomic!EmptyLedger, EmptyLedger
<1>2. Atomic!Amount(c) = Amount(c) BY DEF Atomic!Amount, Amount
<1>3. Atomic!Today(prev) = Today(prev) BY <1>1 DEF Atomic!Today, Today
<1> QED BY <1>2, <1>3 DEF Atomic!WithinEndpointCap, WithinEndpointCap, Atomic!WithinDailyCap, WithinDailyCap,
       Atomic!Reserved, Reserved, Atomic!ReleasedFrom, ReleasedFrom

\* Over update() it is always a call's turn, on the ledger of this moment.
LEMMA AtomicTurn ==
  ASSUME NEW c \in Calls
  PROVE  Atomic!Turn(c) /\ Atomic!Prev(c) = ledger /\ Atomic!Unlock(c)
<1> DEFINE none == [x \in Calls |-> EmptyLedger(0)]
<1>1. none' = none BY DEF EmptyLedger
<1>2. none = [none EXCEPT ![c] = Atomic!EmptyLedger(0)] BY DEF EmptyLedger, Atomic!EmptyLedger
<1> QED BY <1>1, <1>2 DEF Atomic!Turn, Atomic!Prev, Atomic!Unlock

\* A step over read and write is the same step over update(), where waiting for
\* the mutex and reading are no step at all.
LEMMA StepIsAtomic ==
  ASSUME LedgerTypeOK, [LedgerNext]_ledgerVars
  PROVE  [Atomic!LedgerNext]_Atomic!ledgerVars
<1> DEFINE none == [x \in Calls |-> EmptyLedger(0)]
<1>0. none' = none BY DEF EmptyLedger
<1>1. ASSUME NEW c \in Calls, RefuseEarly(c) \/ Begin(c) \/ Commit(c) \/ GiveUp(c) PROVE Atomic!LedgerNext
  <2>1. Atomic!RefuseEarly(c) \/ Atomic!Begin(c) \/ Atomic!Commit(c) \/ Atomic!GiveUp(c)
    BY <1>0, <1>1 DEF RefuseEarly, Begin, Commit, GiveUp, Goto, Atomic!RefuseEarly, Atomic!Begin,
       Atomic!Commit, Atomic!GiveUp, Atomic!Goto
  <2> QED BY <2>1 DEF Atomic!LedgerNext, Atomic!Bookkeeping
<1>2. ASSUME NEW c \in Calls, LockAndRead(c) PROVE UNCHANGED Atomic!ledgerVars
  BY <1>0, <1>2 DEF LockAndRead, Atomic!ledgerVars
<1>3. ASSUME NEW c \in Calls, Reserve(c) PROVE Atomic!Reserve(c)
  <2>1. Prev(c) = ledger BY <1>3, PrevIsLedger DEF Reserve
  <2> QED BY <1>3, <2>1, AtomicTurn, SameFunctions DEF Reserve, Atomic!Reserve, Goto, Atomic!Goto
<1>4. ASSUME NEW c \in Calls, Release(c) PROVE Atomic!Release(c)
  <2>1. Prev(c) = ledger BY <1>4, PrevIsLedger DEF Release
  <2> QED BY <1>4, <2>1, AtomicTurn, SameFunctions DEF Release, Atomic!Release, Goto, Atomic!Goto
<1>5. ASSUME NEW c \in Calls, StoreThrows(c) PROVE Atomic!StoreThrows(c)
  BY <1>5, AtomicTurn DEF StoreThrows, Atomic!StoreThrows, Goto, Atomic!Goto
<1>6. ASSUME Midnight PROVE Atomic!Midnight BY <1>0, <1>6 DEF Midnight, Atomic!Midnight
<1>7. ASSUME UNCHANGED ledgerVars PROVE UNCHANGED Atomic!ledgerVars
  BY <1>0, <1>7 DEF ledgerVars, Atomic!ledgerVars
<1> QED BY <1>1, <1>2, <1>3, <1>4, <1>5, <1>6, <1>7 DEF LedgerNext, Bookkeeping, Atomic!LedgerNext, Atomic!Bookkeeping

\* It starts as a ledger over update() starts.
LEMMA InitIsAtomic == LedgerInit => Atomic!LedgerInit
BY DEF LedgerInit, Atomic!LedgerInit, EmptyLedger, Atomic!EmptyLedger, Modes, Atomic!Modes

\* _withSpendMutex makes read and write one update(): whatever a client does over
\* a store with the two, or over a store with update(), is what a client does over
\* a store with update(), for any calls, caps, failures and midnights.
THEOREM MutexIsAtomic == LedgerSpec => Atomic!LedgerSpec
BY InitTypes, StepTypes, InitIsAtomic, StepIsAtomic, PTL DEF LedgerSpec, Atomic!LedgerSpec

----------------------------------------------------------------------------
\* A ledger of today within the caps is within them after a reservation that
\* both checks let through.
LEMMA ReserveKeepsCaps ==
  ASSUME LedgerTypeOK, LedgerWithinCaps, NEW c \in Calls,
         WithinEndpointCap(c, ledger), WithinDailyCap(c, ledger), ledger' = Reserved(c, ledger)
  PROVE  LedgerWithinCaps'
<1> DEFINE t == Today(ledger)
           route == call[c].route
<1>1. ledger \in Ledgers /\ route \in Routes /\ Amount(c) \in Nat BY AmountIsNat DEF LedgerTypeOK
<1>2. t \in Ledgers BY LedgersAreClosed, <1>1
<1>3. t.total \in Int /\ t.endpoints \in [Routes -> Int] BY <1>2 DEF Ledgers
<1>4. t.date \in Days /\ t = [date |-> t.date, total |-> t.total, endpoints |-> t.endpoints]
  BY <1>2 DEF Ledgers
<1>5. \A r \in Routes : EndpointCap[r] # NoCap => t.endpoints[r] <= EndpointCap[r]
  BY LedgerAssumption DEF LedgerWithinCaps, Today, EmptyLedger
<1>6. ledger'.total = t.total + Amount(c)
  BY <1>4 DEF Reserved
<1>7. ledger'.endpoints = [t.endpoints EXCEPT
        ![route] = IF EndpointCap[route] = NoCap THEN t.endpoints[route] ELSE t.endpoints[route] + Amount(c)]
  BY <1>4 DEF Reserved
<1>8. ledger'.total <= DailyCap BY <1>6 DEF WithinDailyCap
<1>9. ASSUME NEW r \in Routes, EndpointCap[r] # NoCap PROVE ledger'.endpoints[r] <= EndpointCap[r]
  <2>1. CASE r = route
    <3>1. t.endpoints[route] + Amount(c) <= EndpointCap[route] BY <1>9, <2>1 DEF WithinEndpointCap
    <3> HIDE DEF t, route
    <3> QED BY <1>1, <1>3, <1>7, <1>9, <2>1, <3>1
  <2>2. CASE r # route
    <3> HIDE DEF t, route
    <3> QED BY <1>1, <1>3, <1>5, <1>7, <1>9, <2>2
  <2> QED BY <2>1, <2>2
<1> QED BY <1>8, <1>9 DEF LedgerWithinCaps

\* A release never raises a total.
LEMMA ReleaseKeepsCaps ==
  ASSUME LedgerTypeOK, LedgerWithinCaps, NEW c \in Calls, ledger' = ReleasedFrom(c, ledger)
  PROVE  LedgerWithinCaps'
<1>1. ledger \in Ledgers /\ call[c].route \in Routes /\ Amount(c) \in Nat BY AmountIsNat DEF LedgerTypeOK
<1>2. ledger.total \in Int /\ ledger.endpoints \in [Routes -> Int] BY <1>1 DEF Ledgers
<1>3. CASE ledger.date # day BY <1>3 DEF ReleasedFrom, LedgerWithinCaps
<1>4. CASE ledger.date = day
  <2>1. ledger = [date |-> ledger.date, total |-> ledger.total, endpoints |-> ledger.endpoints]
    BY <1>1 DEF Ledgers
  <2>2. ledger'.total = ledger.total - Amount(c) BY <1>4, <2>1 DEF ReleasedFrom
  <2>3. ledger'.endpoints = [ledger.endpoints EXCEPT ![call[c].route] =
          IF ledger.endpoints[call[c].route] <= Amount(c) THEN 0
          ELSE ledger.endpoints[call[c].route] - Amount(c)]
    BY <1>4, <2>1 DEF ReleasedFrom
  <2>4. ASSUME NEW r \in Routes, EndpointCap[r] # NoCap PROVE ledger'.endpoints[r] <= EndpointCap[r]
    <3>1. EndpointCap[r] \in Nat /\ ledger.endpoints[r] <= EndpointCap[r]
      BY <2>4, LedgerAssumption DEF LedgerWithinCaps
    <3> QED BY <1>1, <1>2, <2>3, <3>1
  <2>5. ledger'.total <= DailyCap BY <1>1, <1>2, <2>2, LedgerAssumption DEF LedgerWithinCaps
  <2> QED BY <2>4, <2>5 DEF LedgerWithinCaps
<1> QED BY <1>3, <1>4

\* Every step of the ledger keeps the caps.
LEMMA StepCaps == LedgerTypeOK /\ LedgerWithinCaps /\ [LedgerNext]_ledgerVars => LedgerWithinCaps'
<1> SUFFICES ASSUME LedgerTypeOK, LedgerWithinCaps, [LedgerNext]_ledgerVars PROVE LedgerWithinCaps'
  OBVIOUS
<1>1. ASSUME NEW c \in Calls, Reserve(c) PROVE LedgerWithinCaps'
  <2>1. Prev(c) = ledger BY <1>1, PrevIsLedger DEF Reserve
  <2>2. CASE WithinEndpointCap(c, Prev(c)) /\ WithinDailyCap(c, Prev(c))
    BY <1>1, <2>1, <2>2, ReserveKeepsCaps DEF Reserve
  <2>3. CASE ~(WithinEndpointCap(c, Prev(c)) /\ WithinDailyCap(c, Prev(c)))
    BY <1>1, <2>3 DEF Reserve, LedgerWithinCaps
  <2> QED BY <2>2, <2>3
<1>2. ASSUME NEW c \in Calls, Release(c) PROVE LedgerWithinCaps'
  BY <1>2, PrevIsLedger, ReleaseKeepsCaps DEF Release
<1>3. CASE UNCHANGED ledger BY <1>3 DEF LedgerWithinCaps
<1>4. ASSUME NEW c \in Calls,
             RefuseEarly(c) \/ Begin(c) \/ LockAndRead(c) \/ StoreThrows(c) \/ Commit(c) \/ GiveUp(c)
      PROVE UNCHANGED ledger
  BY <1>4 DEF RefuseEarly, Begin, LockAndRead, StoreThrows, Commit, GiveUp
<1>5. Midnight \/ UNCHANGED ledgerVars => UNCHANGED ledger BY DEF Midnight, ledgerVars
<1> QED BY <1>1, <1>2, <1>3, <1>4, <1>5 DEF LedgerNext, Bookkeeping

\* For every number of calls, routes and days, with either kind of store: the
\* recorded totals never pass the daily cap or a route's cap.
THEOREM LedgerCaps == LedgerSpec => []LedgerWithinCaps
<1>1. LedgerInit => LedgerWithinCaps
  BY LedgerAssumption DEF LedgerInit, LedgerWithinCaps, EmptyLedger
<1> QED BY InitTypes, StepTypes, <1>1, StepCaps, PTL DEF LedgerSpec

----------------------------------------------------------------------------
\* What the totals count

\* A call's stroops are as many as its amount.
LEMMA CountOfOne ==
  ASSUME NEW c, NEW n \in Nat
  PROVE  IsFiniteSet({c} \X (1..n)) /\ Cardinality({c} \X (1..n)) = n
<1>1. IsFiniteSet({c}) /\ Cardinality({c}) = 1 BY FS_Singleton
<1>2. IsFiniteSet(1..n) /\ Cardinality(1..n) = n
  <2>1. 1 \in Int /\ n \in Int OBVIOUS
  <2>2. IsFiniteSet(1..n) /\ Cardinality(1..n) = IF 1 > n THEN 0 ELSE n - 1 + 1 BY <2>1, FS_Interval
  <2> QED BY <2>2
<1>3. Cardinality({c} \X (1..n)) = Cardinality({c}) * Cardinality(1..n) /\ IsFiniteSet({c} \X (1..n))
  BY <1>1, <1>2, FS_Product
<1> QED BY <1>1, <1>2, <1>3

\* What a call adds to the stroops of others is its amount.
LEMMA StroopsAdd ==
  ASSUME NEW S, NEW c, c \notin S, Amount(c) \in Nat, IsFiniteSet(Stroops(S))
  PROVE  /\ IsFiniteSet(Stroops(S \cup {c}))
         /\ Cardinality(Stroops(S \cup {c})) = Cardinality(Stroops(S)) + Amount(c)
<1> DEFINE own == {c} \X (1..Amount(c))
<1>1. IsFiniteSet(own) /\ Cardinality(own) = Amount(c) BY CountOfOne
<1>2. Stroops(S \cup {c}) = Stroops(S) \cup own BY DEF Stroops
<1>3. Stroops(S) \cap own = {} BY DEF Stroops
<1>4. Cardinality(Stroops(S)) \in Nat BY FS_CardinalityType
<1>5. Cardinality(Stroops(S) \cap own) = 0 BY <1>3, FS_EmptySet
<1> HIDE DEF own
<1>6. /\ IsFiniteSet(Stroops(S) \cup own)
      /\ Cardinality(Stroops(S) \cup own)
           = Cardinality(Stroops(S)) + Cardinality(own) - Cardinality(Stroops(S) \cap own)
  BY <1>1, FS_Union
<1>7. Cardinality(Stroops(S \cup {c}))
        = Cardinality(Stroops(S)) + Cardinality(own) - Cardinality(Stroops(S) \cap own)
  BY <1>2, <1>6, Zenon
<1>8. IsFiniteSet(Stroops(S \cup {c})) BY <1>2, <1>6, Zenon
<1> QED BY <1>1, <1>4, <1>5, <1>7, <1>8

\* A subset has no more stroops.
LEMMA StroopsSubset ==
  ASSUME NEW S, NEW T, T \subseteq S, IsFiniteSet(Stroops(S))
  PROVE  IsFiniteSet(Stroops(T)) /\ Cardinality(Stroops(T)) <= Cardinality(Stroops(S))
<1>1. Stroops(T) \in SUBSET Stroops(S) BY DEF Stroops
<1> QED BY <1>1, FS_Subset

\* What a call takes with it is its amount.
LEMMA StroopsRemove ==
  ASSUME NEW S, NEW c \in S, Amount(c) \in Nat, IsFiniteSet(Stroops(S))
  PROVE  /\ IsFiniteSet(Stroops(S \ {c}))
         /\ Cardinality(Stroops(S \ {c})) = Cardinality(Stroops(S)) - Amount(c)
         /\ Cardinality(Stroops(S)) >= Amount(c)
<1>1. IsFiniteSet(Stroops(S \ {c})) BY StroopsSubset
<1>2. (S \ {c}) \cup {c} = S OBVIOUS
<1>3. Cardinality(Stroops(S)) = Cardinality(Stroops(S \ {c})) + Amount(c) BY <1>1, <1>2, StroopsAdd
<1>4. Cardinality(Stroops(S \ {c})) \in Nat BY <1>1, FS_CardinalityType
<1> QED BY <1>1, <1>3, <1>4

\* No call, no stroops.
LEMMA NoStroops == IsFiniteSet(Stroops({})) /\ Cardinality(Stroops({})) = 0
BY FS_EmptySet DEF Stroops

----------------------------------------------------------------------------
\* A ledger that counts C, and of which L were released late.
Exact(l, C, L) ==
  /\ l.total = Cardinality(Stroops(C)) - Cardinality(Stroops(L))
  /\ \A r \in Routes : EndpointCap[r] # NoCap /\ OnRoute(L, r) = {} =>
       l.endpoints[r] = Cardinality(Stroops(OnRoute(C, r)))

\* Nothing is recorded of a new day.
LEMMA ExactEmpty == Exact(EmptyLedger(day), {}, {})
<1>1. \A r : OnRoute({}, r) = {} BY DEF OnRoute
<1>2. EmptyLedger(day).total = 0 /\ \A r \in Routes : EmptyLedger(day).endpoints[r] = 0 BY DEF EmptyLedger
<1> QED BY <1>1, <1>2, NoStroops DEF Exact

\* A reservation counts its call.
LEMMA ExactReserve ==
  ASSUME LedgerTypeOK, NEW c \in Calls, NEW prev \in Ledgers, NEW C, NEW L, c \notin C,
         IsFiniteSet(Stroops(C)), IsFiniteSet(Stroops(L)), Exact(Today(prev), C, L)
  PROVE  Exact(Reserved(c, prev), C \cup {c}, L)
<1> DEFINE t == Today(prev)
           route == call[c].route
<1>1. route \in Routes /\ Amount(c) \in Nat BY AmountIsNat DEF LedgerTypeOK
<1>2. t \in Ledgers BY LedgersAreClosed
<1>3. t.total \in Int /\ t.endpoints \in [Routes -> Int]
      /\ t = [date |-> t.date, total |-> t.total, endpoints |-> t.endpoints]
  BY <1>2 DEF Ledgers
<1>4. Reserved(c, prev).total = t.total + Amount(c)
  BY <1>3 DEF Reserved
<1>5. Reserved(c, prev).endpoints = [t.endpoints EXCEPT
        ![route] = IF EndpointCap[route] = NoCap THEN t.endpoints[route] ELSE t.endpoints[route] + Amount(c)]
  BY <1>3 DEF Reserved
<1>6. Cardinality(Stroops(C \cup {c})) = Cardinality(Stroops(C)) + Amount(c) BY <1>1, StroopsAdd
<1>7. Cardinality(Stroops(C)) \in Nat /\ Cardinality(Stroops(L)) \in Nat BY FS_CardinalityType
<1>8. Reserved(c, prev).total = Cardinality(Stroops(C \cup {c})) - Cardinality(Stroops(L))
  BY <1>1, <1>3, <1>4, <1>6, <1>7 DEF Exact
<1>9. ASSUME NEW r \in Routes, EndpointCap[r] # NoCap, OnRoute(L, r) = {}
      PROVE Reserved(c, prev).endpoints[r] = Cardinality(Stroops(OnRoute(C \cup {c}, r)))
  <2>1. t.endpoints[r] = Cardinality(Stroops(OnRoute(C, r))) BY <1>9 DEF Exact
  <2>2. CASE r = route
    <3>1. OnRoute(C \cup {c}, r) = OnRoute(C, r) \cup {c} /\ c \notin OnRoute(C, r) BY <2>2 DEF OnRoute
    <3>2. IsFiniteSet(Stroops(OnRoute(C, r))) BY StroopsSubset DEF OnRoute
    <3>3. Cardinality(Stroops(OnRoute(C \cup {c}, r))) = Cardinality(Stroops(OnRoute(C, r))) + Amount(c)
      BY <1>1, <3>1, <3>2, StroopsAdd
    <3>4. Reserved(c, prev).endpoints[r] = t.endpoints[r] + Amount(c) BY <1>3, <1>5, <1>9, <2>2
    <3> QED BY <2>1, <3>3, <3>4
  <2>3. CASE r # route
    <3>1. OnRoute(C \cup {c}, r) = OnRoute(C, r) BY <2>3 DEF OnRoute
    <3>2. Reserved(c, prev).endpoints[r] = t.endpoints[r] BY <1>3, <1>5, <2>3
    <3> QED BY <2>1, <3>1, <3>2
  <2> QED BY <2>2, <2>3
<1> QED BY <1>8, <1>9 DEF Exact

\* What a release of today leaves in a record of today.
LEMMA ReleasedParts ==
  ASSUME LedgerTypeOK, NEW c \in Calls, NEW prev \in Ledgers, prev.date = day
  PROVE  /\ prev.total \in Int /\ prev.endpoints \in [Routes -> Int]
         /\ ReleasedFrom(c, prev).total = prev.total - Amount(c)
         /\ ReleasedFrom(c, prev).date = day
         /\ ReleasedFrom(c, prev).endpoints
              = [prev.endpoints EXCEPT ![call[c].route] =
                   IF prev.endpoints[call[c].route] <= Amount(c) THEN 0
                   ELSE prev.endpoints[call[c].route] - Amount(c)]
<1>1. prev = [date |-> prev.date, total |-> prev.total, endpoints |-> prev.endpoints] BY DEF Ledgers
<1>2. prev.total \in Int /\ prev.endpoints \in [Routes -> Int] BY DEF Ledgers
<1> QED BY <1>1, <1>2 DEF ReleasedFrom

\* A release of the day's own reservation takes its call out of the count.
LEMMA ExactRelease ==
  ASSUME LedgerTypeOK, NEW c \in Calls, NEW prev \in Ledgers, prev.date = day, NEW C, NEW L, c \in C,
         IsFiniteSet(Stroops(C)), IsFiniteSet(Stroops(L)), Exact(prev, C, L)
  PROVE  Exact(ReleasedFrom(c, prev), C \ {c}, L)
<1> DEFINE route == call[c].route
           after == ReleasedFrom(c, prev)
<1>1. route \in Routes /\ Amount(c) \in Nat BY AmountIsNat DEF LedgerTypeOK
<1>2. /\ prev.total \in Int /\ prev.endpoints \in [Routes -> Int]
      /\ after.total = prev.total - Amount(c)
      /\ after.endpoints = [prev.endpoints EXCEPT ![route] =
                              IF prev.endpoints[route] <= Amount(c) THEN 0 ELSE prev.endpoints[route] - Amount(c)]
  BY ReleasedParts
<1> HIDE DEF after
<1>3. Cardinality(Stroops(C \ {c})) = Cardinality(Stroops(C)) - Amount(c) BY <1>1, StroopsRemove
<1>4. Cardinality(Stroops(C)) \in Nat /\ Cardinality(Stroops(L)) \in Nat BY FS_CardinalityType
<1>5. after.total = Cardinality(Stroops(C \ {c})) - Cardinality(Stroops(L))
  BY <1>1, <1>2, <1>3, <1>4 DEF Exact
<1>6. ASSUME NEW r \in Routes, EndpointCap[r] # NoCap, OnRoute(L, r) = {}
      PROVE after.endpoints[r] = Cardinality(Stroops(OnRoute(C \ {c}, r)))
  <2>1. prev.endpoints[r] = Cardinality(Stroops(OnRoute(C, r))) BY <1>6 DEF Exact
  <2>2. CASE r = route
    <3>1. OnRoute(C \ {c}, r) = OnRoute(C, r) \ {c} /\ c \in OnRoute(C, r) BY <2>2 DEF OnRoute
    <3>2. IsFiniteSet(Stroops(OnRoute(C, r))) BY StroopsSubset DEF OnRoute
    <3>3. /\ Cardinality(Stroops(OnRoute(C \ {c}, r))) = Cardinality(Stroops(OnRoute(C, r))) - Amount(c)
          /\ Cardinality(Stroops(OnRoute(C, r))) >= Amount(c)
      BY <1>1, <3>1, <3>2, StroopsRemove
    <3>4. after.endpoints[r] = prev.endpoints[r] - Amount(c)
      <4>1. Cardinality(Stroops(OnRoute(C, r))) \in Nat BY <3>2, FS_CardinalityType
      <4>2. after.endpoints[r] = IF prev.endpoints[r] <= Amount(c) THEN 0 ELSE prev.endpoints[r] - Amount(c)
        BY <1>2, <2>2
      <4> QED BY <1>1, <2>1, <3>3, <4>1, <4>2
    <3> QED BY <2>1, <3>3, <3>4
  <2>3. CASE r # route
    <3>1. OnRoute(C \ {c}, r) = OnRoute(C, r) BY <2>3 DEF OnRoute
    <3>2. after.endpoints[r] = prev.endpoints[r] BY <1>2, <2>3
    <3> QED BY <2>1, <3>1, <3>2
  <2> QED BY <2>2, <2>3
<1> QED BY <1>5, <1>6 DEF Exact, after

\* A late release is one more to subtract, and leaves no more to say of its route.
LEMMA ExactLate ==
  ASSUME LedgerTypeOK, NEW c \in Calls, NEW prev \in Ledgers, prev.date = day, NEW C, NEW L, c \notin L,
         IsFiniteSet(Stroops(C)), IsFiniteSet(Stroops(L)), Exact(prev, C, L)
  PROVE  Exact(ReleasedFrom(c, prev), C, L \cup {c})
<1> DEFINE route == call[c].route
           after == ReleasedFrom(c, prev)
<1>1. route \in Routes /\ Amount(c) \in Nat BY AmountIsNat DEF LedgerTypeOK
<1>2. /\ prev.total \in Int /\ prev.endpoints \in [Routes -> Int]
      /\ after.total = prev.total - Amount(c)
      /\ after.endpoints = [prev.endpoints EXCEPT ![route] =
                              IF prev.endpoints[route] <= Amount(c) THEN 0 ELSE prev.endpoints[route] - Amount(c)]
  BY ReleasedParts
<1> HIDE DEF after
<1>3. Cardinality(Stroops(L \cup {c})) = Cardinality(Stroops(L)) + Amount(c) BY <1>1, StroopsAdd
<1>4. Cardinality(Stroops(C)) \in Nat /\ Cardinality(Stroops(L)) \in Nat BY FS_CardinalityType
<1>5. after.total = Cardinality(Stroops(C)) - Cardinality(Stroops(L \cup {c}))
  BY <1>1, <1>2, <1>3, <1>4 DEF Exact
<1>6. ASSUME NEW r \in Routes, EndpointCap[r] # NoCap, OnRoute(L \cup {c}, r) = {}
      PROVE after.endpoints[r] = Cardinality(Stroops(OnRoute(C, r)))
  <2>1. r # route /\ OnRoute(L, r) = {} BY <1>6 DEF OnRoute
  <2>2. after.endpoints[r] = prev.endpoints[r] BY <1>2, <2>1
  <2> QED BY <1>6, <2>1, <2>2 DEF Exact
<1> QED BY <1>5, <1>6 DEF Exact, after

----------------------------------------------------------------------------
\* What is recorded, reserved or released is of no later day than the record,
\* and the record of none later than today: a new day's record counts nothing.
Dated ==
  /\ ledger.date <= day
  /\ \A c \in Calls : call[c].st \in {"pay", "release", "kept", "missed", "late"} => call[c].on <= ledger.date

CountsFinite == IsFiniteSet(Stroops(CountedCalls)) /\ IsFiniteSet(Stroops(LateCalls))

LedgerInv == LedgerTypeOK /\ Dated /\ CountsFinite /\ LedgerIsExact

\* The mode and the route of a call are chosen once.
SameCalls == \A c \in Calls : call'[c].mode = call[c].mode /\ call'[c].route = call[c].route

\* No step changes the mode or the route of a call.
LEMMA StepSameCalls ==
  ASSUME LedgerTypeOK, [LedgerNext]_ledgerVars
  PROVE  SameCalls
<1>1. ASSUME NEW c \in Calls, NEW st, Goto(c, st) PROVE SameCalls
  BY <1>1 DEF Goto, SameCalls, LedgerTypeOK
<1>2. ASSUME NEW c \in Calls, NEW st, NEW on, call' = [call EXCEPT ![c].on = on, ![c].st = st]
      PROVE SameCalls
  BY <1>2 DEF SameCalls, LedgerTypeOK
<1>3. ASSUME NEW c \in Calls, NEW st, NEW on, call' = [call EXCEPT ![c].st = st, ![c].on = on]
      PROVE SameCalls
  BY <1>3 DEF SameCalls, LedgerTypeOK
<1>4. CASE UNCHANGED call BY <1>4 DEF SameCalls
<1>5. ASSUME NEW c \in Calls, Bookkeeping(c) \/ Commit(c) \/ GiveUp(c) PROVE SameCalls
  <2>1. CASE Reserve(c) BY <2>1, <1>1, <1>2 DEF Reserve
  <2>2. CASE Release(c) BY <2>2, <1>1, <1>3 DEF Release
  <2>3. CASE RefuseEarly(c) \/ Begin(c) \/ StoreThrows(c) \/ Commit(c) \/ GiveUp(c)
    BY <2>3, <1>1 DEF RefuseEarly, Begin, StoreThrows, Commit, GiveUp
  <2>4. CASE LockAndRead(c) BY <2>4, <1>4 DEF LockAndRead
  <2> QED BY <1>5, <2>1, <2>2, <2>3, <2>4 DEF Bookkeeping
<1>6. Midnight \/ UNCHANGED ledgerVars => UNCHANGED call BY DEF Midnight, ledgerVars
<1> QED BY <1>4, <1>5, <1>6 DEF LedgerNext

\* Then the stroops of a set of calls stay the same, too.
LEMMA CountsFollow ==
  ASSUME SameCalls, IsFiniteSet(Stroops(CountedCalls')), IsFiniteSet(Stroops(LateCalls')),
         Exact(ledger', CountedCalls', LateCalls')
  PROVE  CountsFinite' /\ LedgerIsExact'
<1>1. \A c \in Calls : Amount(c)' = Amount(c) BY DEF SameCalls, Amount
<1>2. CountedCalls' \subseteq Calls /\ LateCalls' \subseteq Calls BY DEF CountedCalls, LateCalls
<1>3. Stroops(CountedCalls)' = Stroops(CountedCalls') BY <1>1, <1>2 DEF Stroops
<1>4. Stroops(LateCalls)' = Stroops(LateCalls') BY <1>1, <1>2 DEF Stroops
<1>5. ASSUME NEW r \in Routes
      PROVE /\ OnRoute(LateCalls, r)' = OnRoute(LateCalls', r)
            /\ Stroops(OnRoute(CountedCalls, r))' = Stroops(OnRoute(CountedCalls', r))
  <2>1. OnRoute(LateCalls, r)' = OnRoute(LateCalls', r) BY <1>2 DEF OnRoute, SameCalls
  <2>2. OnRoute(CountedCalls, r)' = OnRoute(CountedCalls', r) BY <1>2 DEF OnRoute, SameCalls
  <2>3. OnRoute(CountedCalls', r) \subseteq Calls BY <1>2 DEF OnRoute
  <2> QED BY <1>1, <2>1, <2>2, <2>3 DEF Stroops
<1>6. CountsFinite' BY <1>3, <1>4 DEF CountsFinite
<1>7. ledger'.total = Cardinality(Stroops(CountedCalls)') - Cardinality(Stroops(LateCalls)')
  BY <1>3, <1>4 DEF Exact
<1>8. ASSUME NEW r \in Routes, EndpointCap[r] # NoCap, OnRoute(LateCalls, r)' = {}
      PROVE ledger'.endpoints[r] = Cardinality(Stroops(OnRoute(CountedCalls, r))')
  BY <1>5, <1>8 DEF Exact
<1> QED BY <1>6, <1>7, <1>8 DEF LedgerIsExact

\* The invariant says that the ledger counts its calls.
LEMMA InvIsExact == LedgerInv => Exact(ledger, CountedCalls, LateCalls)
BY DEF LedgerInv, LedgerIsExact, Exact

\* The invariant holds at first, when nothing is counted.
LEMMA InitLedgerInv == LedgerInit => LedgerInv
<1> SUFFICES ASSUME LedgerInit PROVE LedgerInv OBVIOUS
<1>1. LedgerTypeOK BY InitTypes
<1>2. \A c \in Calls : call[c].st = "idle" BY DEF LedgerInit
<1>3. CountedCalls = {} /\ LateCalls = {} BY <1>2 DEF CountedCalls, LateCalls
<1>4. ledger = EmptyLedger(day) BY DEF LedgerInit
<1>5. Exact(ledger, CountedCalls, LateCalls) BY <1>3, <1>4, ExactEmpty
<1>6. LedgerIsExact BY <1>5 DEF LedgerIsExact, Exact
<1>7. Dated BY <1>2 DEF Dated, LedgerInit, EmptyLedger
<1> QED BY <1>1, <1>3, <1>6, <1>7, NoStroops DEF LedgerInv, CountsFinite

\* A step that counts the same calls on the same record.
LEMMA SameCounts ==
  ASSUME LedgerInv, SameCalls, ledger' = ledger, CountedCalls' = CountedCalls, LateCalls' = LateCalls
  PROVE  CountsFinite' /\ LedgerIsExact'
BY InvIsExact, CountsFollow DEF LedgerInv, CountsFinite

\* A reservation counts its call, on today's record or on a new one.
LEMMA ReserveCounts ==
  ASSUME LedgerInv, SameCalls, NEW c \in Calls, Reserve(c)
  PROVE  Dated' /\ CountsFinite' /\ LedgerIsExact'
<1>1. LedgerTypeOK /\ Prev(c) = ledger /\ ledger \in Ledgers BY PrevIsLedger DEF Reserve, LedgerInv, LedgerTypeOK
<1>2. day' = day /\ day \in Days /\ ledger.date \in Days
  BY <1>1 DEF Reserve, LedgerTypeOK, Ledgers
<1>3. CASE ~(WithinEndpointCap(c, Prev(c)) /\ WithinDailyCap(c, Prev(c)))
  <2>1. Goto(c, "failed") /\ ledger' = ledger /\ call[c].st = "reserve" BY <1>3 DEF Reserve
  <2>2. CountedCalls' = CountedCalls /\ LateCalls' = LateCalls
    BY <1>1, <2>1 DEF Goto, CountedCalls, LateCalls, LedgerTypeOK
  <2>3. Dated' BY <1>1, <1>2, <2>1 DEF LedgerInv, Dated, Goto, LedgerTypeOK
  <2> QED BY <2>1, <2>2, <2>3, SameCounts
<1>4. CASE WithinEndpointCap(c, Prev(c)) /\ WithinDailyCap(c, Prev(c))
  <2> DEFINE st == IF call[c].mode = "mpp-session" THEN "kept" ELSE "pay"
  <2>1. ledger' = Reserved(c, ledger) /\ call' = [call EXCEPT ![c].on = day, ![c].st = st]
        /\ call[c].st = "reserve"
    BY <1>1, <1>4 DEF Reserve
  <2>2. st \in {"pay", "kept"} OBVIOUS
  <2> HIDE DEF st
  <2>3. /\ call'[c].st = st /\ call'[c].on = day
        /\ \A d \in Calls \ {c} : call'[d] = call[d]
    BY <1>1, <2>1 DEF LedgerTypeOK
  <2>4. ledger'.date = day
    <3>1. Today(ledger) \in Ledgers BY <1>1, LedgersAreClosed
    <3>2. Today(ledger) = [date |-> Today(ledger).date, total |-> Today(ledger).total,
                           endpoints |-> Today(ledger).endpoints]
      BY <3>1 DEF Ledgers
    <3>3. Reserved(c, ledger).date = Today(ledger).date BY <3>2 DEF Reserved
    <3>4. Today(ledger).date = day BY DEF Today, EmptyLedger
    <3> QED BY <2>1, <3>3, <3>4
  <2>5. day \in Int /\ ledger.date \in Int BY <1>2 DEF Days
  <2>6. \A d \in Calls : call[d].on \in Int BY <1>1 DEF LedgerTypeOK, Days
  <2>7. Dated'
    <3>1. ledger.date <= day BY DEF LedgerInv, Dated
    <3>2. ASSUME NEW d \in Calls, call'[d].st \in {"pay", "release", "kept", "missed", "late"}
          PROVE call'[d].on <= day
      <4>1. CASE d = c BY <2>3, <2>5, <4>1
      <4>2. CASE d # c
        <5>1. call[d].on <= ledger.date BY <2>3, <3>2, <4>2 DEF LedgerInv, Dated
        <5> QED BY <2>3, <2>5, <2>6, <3>1, <4>2, <5>1
      <4> QED BY <4>1, <4>2
    <3> QED BY <1>2, <2>4, <2>5, <3>2 DEF Dated
  <2>8. CASE ledger.date = day
    <3>1. CountedCalls' = CountedCalls \cup {c} /\ LateCalls' = LateCalls /\ c \notin CountedCalls
      BY <2>1, <2>2, <2>3, <2>4, <2>8 DEF CountedCalls, LateCalls
    <3>2. Exact(Today(ledger), CountedCalls, LateCalls) BY <2>8, InvIsExact DEF Today
    <3>3. Exact(ledger', CountedCalls', LateCalls')
      BY <1>1, <2>1, <3>1, <3>2, ExactReserve DEF LedgerInv, CountsFinite
    <3>4. IsFiniteSet(Stroops(CountedCalls'))
      BY <1>1, <3>1, StroopsAdd, AmountIsNat DEF LedgerInv, CountsFinite
    <3>5. IsFiniteSet(Stroops(LateCalls')) BY <3>1 DEF LedgerInv, CountsFinite
    <3> QED BY <2>7, <3>3, <3>4, <3>5, CountsFollow
  <2>9. CASE ledger.date # day
    <3>1. ledger.date < day BY <2>5, <2>9 DEF LedgerInv, Dated
    <3>2. \A d \in Calls :
            call[d].st \in {"pay", "release", "kept", "missed", "late"} => call[d].on # day
      BY <2>5, <2>6, <3>1 DEF LedgerInv, Dated
    <3>3. CountedCalls' = {} \cup {c} BY <2>2, <2>3, <2>4, <3>2 DEF CountedCalls
    <3>4. LateCalls' = {} BY <2>2, <2>3, <2>4, <3>2 DEF LateCalls
    <3>5. Exact(Today(ledger), {}, {}) BY <2>9, ExactEmpty DEF Today
    <3>6. Exact(ledger', CountedCalls', LateCalls')
      BY <1>1, <2>1, <3>3, <3>4, <3>5, ExactReserve, NoStroops
    <3>7. IsFiniteSet(Stroops(CountedCalls'))
      BY <1>1, <3>3, StroopsAdd, NoStroops, AmountIsNat
    <3>8. IsFiniteSet(Stroops(LateCalls')) BY <3>4, NoStroops
    <3> QED BY <2>7, <3>6, <3>7, <3>8, CountsFollow
  <2> QED BY <2>8, <2>9
<1> QED BY <1>3, <1>4

\* A release uncounts its call, or is late, or finds no record of today.
LEMMA ReleaseCounts ==
  ASSUME LedgerInv, SameCalls, NEW c \in Calls, Release(c)
  PROVE  Dated' /\ CountsFinite' /\ LedgerIsExact'
<1>1. LedgerTypeOK /\ Prev(c) = ledger /\ ledger \in Ledgers BY PrevIsLedger DEF Release, LedgerInv, LedgerTypeOK
<1>2. /\ ledger' = ReleasedFrom(c, ledger) /\ call[c].st = "release"
      /\ day' = day /\ day \in Days /\ ledger.date \in Days
      /\ Days \subseteq Int /\ \A d \in Calls : call[d].on \in Days
  BY <1>1 DEF Release, LedgerTypeOK, Ledgers, Days
<1>3. Exact(ledger, CountedCalls, LateCalls) BY InvIsExact
<1>4. CASE ledger.date # day /\ Goto(c, "missed")
  <2>1. ledger' = ledger BY <1>2, <1>4 DEF ReleasedFrom
  <2>2. CountedCalls' = CountedCalls /\ LateCalls' = LateCalls
    BY <1>1, <1>2, <1>4, <2>1 DEF Goto, CountedCalls, LateCalls, LedgerTypeOK
  <2>3. Dated' BY <1>1, <1>2, <1>4, <2>1 DEF LedgerInv, Dated, Goto, LedgerTypeOK
  <2> QED BY <2>1, <2>2, <2>3, SameCounts
<1>5. ASSUME ledger.date = day PROVE ledger'.date = day BY <1>1, <1>2, <1>5, ReleasedParts
<1>6. CASE ledger.date = day /\ call[c].on = day /\ Goto(c, "released")
  <2>1. call'[c].st = "released" /\ \A d \in Calls \ {c} : call'[d] = call[d]
    BY <1>1, <1>6 DEF Goto, LedgerTypeOK
  <2>2. CountedCalls' = CountedCalls \ {c} /\ LateCalls' = LateCalls /\ c \in CountedCalls
    BY <1>2, <1>5, <1>6, <2>1 DEF CountedCalls, LateCalls
  <2>3. Exact(ledger', CountedCalls', LateCalls')
    BY <1>1, <1>2, <1>3, <1>6, <2>2, ExactRelease DEF LedgerInv, CountsFinite
  <2>4. IsFiniteSet(Stroops(CountedCalls')) BY <2>2, StroopsSubset DEF LedgerInv, CountsFinite
  <2>5. IsFiniteSet(Stroops(LateCalls')) BY <2>2 DEF LedgerInv, CountsFinite
  <2>6. Dated' BY <1>2, <1>5, <1>6, <2>1 DEF LedgerInv, Dated
  <2> QED BY <2>3, <2>4, <2>5, <2>6, CountsFollow
<1>7. CASE ledger.date = day /\ call[c].on # day /\ call' = [call EXCEPT ![c].st = "late", ![c].on = day]
  <2>1. call'[c].st = "late" /\ call'[c].on = day /\ \A d \in Calls \ {c} : call'[d] = call[d]
    BY <1>1, <1>7 DEF LedgerTypeOK
  <2>2. CountedCalls' = CountedCalls /\ LateCalls' = LateCalls \cup {c} /\ c \notin LateCalls
    BY <1>2, <1>5, <1>7, <2>1 DEF CountedCalls, LateCalls
  <2>3. Exact(ledger', CountedCalls', LateCalls')
    BY <1>1, <1>2, <1>3, <1>7, <2>2, ExactLate DEF LedgerInv, CountsFinite
  <2>4. IsFiniteSet(Stroops(LateCalls'))
    BY <1>1, <2>2, StroopsAdd, AmountIsNat DEF LedgerInv, CountsFinite
  <2>5. IsFiniteSet(Stroops(CountedCalls')) BY <2>2 DEF LedgerInv, CountsFinite
  <2>6. Dated' BY <1>2, <1>5, <1>7, <2>1 DEF LedgerInv, Dated
  <2> QED BY <2>3, <2>4, <2>5, <2>6, CountsFollow
<1> QED BY <1>1, <1>4, <1>6, <1>7 DEF Release

\* Every step of the ledger keeps it exact.
LEMMA StepLedgerInv == LedgerInv /\ [LedgerNext]_ledgerVars => LedgerInv'
<1> SUFFICES ASSUME LedgerInv, [LedgerNext]_ledgerVars PROVE LedgerInv' OBVIOUS
<1>1. LedgerTypeOK /\ LedgerTypeOK' BY StepTypes DEF LedgerInv
<1>2. SameCalls BY <1>1, StepSameCalls
<1>3. ASSUME NEW c \in Calls, NEW st, Goto(c, st), ledger' = ledger, day' = day,
             \/ call[c].st \in {"idle", "reserve"} /\ st \in {"reserve", "failed"}
             \/ call[c].st \in {"pay", "release"} /\ st \in {"release", "kept"}
      PROVE Dated' /\ CountsFinite' /\ LedgerIsExact'
  <2>1. /\ call'[c].st = st /\ call'[c].on = call[c].on
        /\ \A d \in Calls \ {c} : call'[d] = call[d]
    BY <1>1, <1>3 DEF Goto, LedgerTypeOK
  <2>2. CountedCalls' = CountedCalls /\ LateCalls' = LateCalls
    BY <1>3, <2>1 DEF CountedCalls, LateCalls
  <2>3. Dated' BY <1>3, <2>1 DEF LedgerInv, Dated
  <2> QED BY <1>2, <1>3, <2>2, <2>3, SameCounts
<1>4. ASSUME NEW c \in Calls, Bookkeeping(c) \/ Commit(c) \/ GiveUp(c)
      PROVE Dated' /\ CountsFinite' /\ LedgerIsExact'
  <2>1. CASE RefuseEarly(c) \/ Begin(c) BY <1>3, <2>1 DEF RefuseEarly, Begin
  <2>2. CASE Commit(c) \/ GiveUp(c) BY <1>3, <2>2 DEF Commit, GiveUp
  <2>3. CASE StoreThrows(c) BY <1>3, <2>3 DEF StoreThrows
  <2>4. CASE LockAndRead(c)
    <3>1. UNCHANGED <<ledger, call, day>> BY <2>4 DEF LockAndRead
    <3>2. CountedCalls' = CountedCalls /\ LateCalls' = LateCalls BY <3>1 DEF CountedCalls, LateCalls
    <3> QED BY <1>2, <3>1, <3>2, SameCounts DEF LedgerInv, Dated
  <2>5. CASE Reserve(c) BY <1>2, <2>5, ReserveCounts
  <2>6. CASE Release(c) BY <1>2, <2>6, ReleaseCounts
  <2> QED BY <1>4, <2>1, <2>2, <2>3, <2>4, <2>5, <2>6 DEF Bookkeeping
<1>5. CASE Midnight \/ UNCHANGED ledgerVars
  <2>1. UNCHANGED <<ledger, call>> BY <1>5 DEF Midnight, ledgerVars
  <2>2. CountedCalls' = CountedCalls /\ LateCalls' = LateCalls BY <2>1 DEF CountedCalls, LateCalls
  <2>3. Dated'
    <3>1. day \in Int /\ ledger.date \in Int BY <1>1 DEF LedgerTypeOK, Ledgers, Days
    <3>2. day' = day \/ day' = day + 1 BY <1>5 DEF Midnight, ledgerVars
    <3> QED BY <2>1, <3>1, <3>2 DEF LedgerInv, Dated
  <2>4. CountsFinite' /\ LedgerIsExact' BY <1>2, <2>1, <2>2, SameCounts
  <2> QED BY <1>1, <2>3, <2>4 DEF LedgerInv
<1> QED BY <1>1, <1>4, <1>5 DEF LedgerNext, LedgerInv

\* For every number of calls, routes and days, with either kind of store: the
\* recorded total is what the calls it counts cost, less what was released late.
THEOREM LedgerExact == LedgerSpec => []LedgerIsExact
<1>1. LedgerInv => LedgerIsExact BY DEF LedgerInv
<1> QED BY InitLedgerInv, StepLedgerInv, <1>1, PTL DEF LedgerSpec

----------------------------------------------------------------------------
\* Settlements and replays

\* Before a payment is settled nothing is known of it.
UnsettledUnknown ==
  \A k \in Keys : settledAt[k[1]] = Nowhere =>
    /\ seen[k] = "none" /\ served[k] = 0
    /\ \A q \in Requests : Key(q) = k => request[q].at # "record"

\* One request records a payment, the first that does.
OneRecorder ==
  \A q \in Requests : request[q].at = "record" =>
    /\ settledAt[Payment(q)] = Key(q)[2]
    /\ seen[Key(q)] = "none" /\ served[Key(q)] = 0
    /\ \A r \in Requests : request[r].at = "record" /\ Payment(r) = Payment(q) => r = q

\* Entries and responses are for the route that the payment was settled for.
OnItsRoute == \A k \in Keys : seen[k] # "none" \/ served[k] > 0 => k[2] = settledAt[k[1]]

\* An entry counts the responses since the first.
EntryCounts ==
  \A k \in Keys : served[k] <= 1 + MAX_SETTLEMENT_REPLAYS /\ (seen[k] # "none" => served[k] <= 1 + replays[k])

\* The types, without the bound on the store in memory.
Types ==
  /\ seen \in [Keys -> {"none", "fresh", "old"}] /\ replays \in [Keys -> Nat]
  /\ request \in [Requests -> [at : Places, key : Keys]]
  /\ settledAt \in [Payments -> Paths \cup {Nowhere}]
  /\ served \in [Keys -> Nat]

IInv == Types /\ UnsettledUnknown /\ OneRecorder /\ OnItsRoute /\ EntryCounts

\* The parts of a request's key.
LEMMA KeyTypes ==
  ASSUME Types, NEW q \in Requests
  PROVE  /\ request[q] \in [at : Places, key : Keys] /\ Key(q) \in Keys
         /\ Payment(q) \in Payments /\ Key(q)[2] \in Paths /\ Key(q) = <<Payment(q), Key(q)[2]>>
BY DEF Types, Key, Payment, Keys

\* A key is its payment and its path.
LEMMA KeyParts ==
  ASSUME NEW k \in Keys
  PROVE  k[1] \in Payments /\ k[2] \in Paths /\ k = <<k[1], k[2]>>
BY DEF Keys

\* The invariant holds at first.
LEMMA InitInv == ReplayInit => IInv
<1> SUFFICES ASSUME ReplayInit PROVE IInv OBVIOUS
<1>1. Types
  BY DEF ReplayInit, Types, Places
<1>2. \A q \in Requests : request[q].at = "unsent" BY DEF ReplayInit
<1>3. MAX_SETTLEMENT_REPLAYS \in Nat BY ReplayAssumption
<1> QED BY <1>1, <1>2, <1>3 DEF ReplayInit, IInv, UnsettledUnknown, OneRecorder, OnItsRoute, EntryCounts

\* Moving a request where it does not record a payment leaves the invariant.
LEMMA MoveInv ==
  ASSUME IInv, NEW q \in Requests, NEW at \in Places \ {"record"},
         request' = [request EXCEPT ![q].at = at],
         UNCHANGED <<seen, replays, settledAt, served>>
  PROVE  IInv'
<1>1. Types' BY DEF IInv, Types
<1>2. \A r \in Requests : Key(r)' = Key(r) /\ Payment(r)' = Payment(r)
  BY DEF IInv, Types, Key, Payment
<1>3. \A r \in Requests : request'[r].at = "record" => request[r].at = "record"
  BY DEF IInv, Types
<1> QED BY <1>1, <1>2, <1>3 DEF IInv, UnsettledUnknown, OneRecorder, OnItsRoute, EntryCounts

\* A claim serves one more only if the entry counts one more within the bound.
LEMMA ClaimInv ==
  ASSUME IInv, NEW q \in Requests, Claim(q)
  PROVE  IInv'
<1> DEFINE key == Key(q)
<1>1. key \in Keys BY KeyTypes DEF IInv
<1>2. CASE WithinReplays(key)
  <2>1. request' = [request EXCEPT ![q].at = "served"]
    BY <1>2 DEF Claim, ReplayAnswer
  <2>2. replays' = [replays EXCEPT ![key] = replays[key] + 1] BY <1>2 DEF Claim, ReplayAnswer, WithinReplays
  <2>3. served' = [served EXCEPT ![key] = served[key] + 1] /\ UNCHANGED <<seen, settledAt>>
    BY <1>2 DEF Claim, ReplayAnswer
  <2>4. seen[key] # "none" /\ replays[key] + 1 <= MAX_SETTLEMENT_REPLAYS BY <1>2 DEF WithinReplays
  <2> HIDE DEF key
  <2>5. Types' BY <1>1, <2>1, <2>2, <2>3 DEF IInv, Types, Places, Answers
  <2>6. \A r \in Requests : Key(r)' = Key(r) /\ Payment(r)' = Payment(r)
    BY <2>1 DEF IInv, Types, Key, Payment
  <2>7. \A r \in Requests : request'[r].at = "record" => request[r].at = "record"
    BY <2>1 DEF IInv, Types
  <2>8. key[2] = settledAt[key[1]] /\ key[2] # Nowhere
    BY <1>1, <2>4, KeyParts, ReplayAssumption DEF IInv, OnItsRoute
  <2>9. UnsettledUnknown' BY <1>1, <2>3, <2>6, <2>7, <2>8 DEF IInv, UnsettledUnknown, Types
  <2>10. OneRecorder'
    BY <1>1, <2>3, <2>4, <2>6, <2>7, KeyTypes DEF IInv, OneRecorder, Types
  <2>11. OnItsRoute' BY <1>1, <2>3, <2>8 DEF IInv, OnItsRoute, Types
  <2>12. EntryCounts'
    <3> SUFFICES ASSUME NEW k \in Keys
                 PROVE /\ served'[k] <= 1 + MAX_SETTLEMENT_REPLAYS
                       /\ seen'[k] # "none" => served'[k] <= 1 + replays'[k]
      BY DEF EntryCounts
    <3>1. served[k] \in Nat /\ replays[k] \in Nat /\ MAX_SETTLEMENT_REPLAYS \in Nat
      BY ReplayAssumption DEF IInv, Types
    <3>2. served[k] <= 1 + MAX_SETTLEMENT_REPLAYS /\ (seen[k] # "none" => served[k] <= 1 + replays[k])
      BY DEF IInv, EntryCounts
    <3>3. CASE k = key
      <4>1. served'[k] = served[k] + 1 /\ replays'[k] = replays[k] + 1
        BY <1>1, <2>2, <2>3, <3>3 DEF IInv, Types
      <4> QED BY <2>4, <3>1, <3>2, <3>3, <4>1
    <3>4. CASE k # key
      BY <1>1, <2>2, <2>3, <3>1, <3>2, <3>4 DEF IInv, Types
    <3> QED BY <3>3, <3>4
  <2> QED BY <2>5, <2>9, <2>10, <2>11, <2>12 DEF IInv
<1>3. CASE ~WithinReplays(key)
  <2>1. request' = [request EXCEPT ![q].at = "spent"] BY <1>3 DEF Claim, ReplayAnswer
  <2>2. UNCHANGED <<seen, settledAt, served>> BY <1>3 DEF Claim, ReplayAnswer
  <2>3. replays' = IF seen[key] = "none" THEN replays ELSE [replays EXCEPT ![key] = replays[key] + 1]
    BY DEF Claim, ReplayAnswer
  <2> HIDE DEF key
  <2>4. replays' \in [Keys -> Nat] /\ \A k \in Keys : replays'[k] >= replays[k]
    BY <1>1, <2>3 DEF IInv, Types
  <2>5. Types' BY <2>1, <2>2, <2>4 DEF IInv, Types, Places, Answers
  <2>6. \A r \in Requests : Key(r)' = Key(r) /\ Payment(r)' = Payment(r)
    BY <2>1 DEF IInv, Types, Key, Payment
  <2>7. \A r \in Requests : request'[r].at = "record" => request[r].at = "record"
    BY <2>1 DEF IInv, Types
  <2>8. UnsettledUnknown' /\ OneRecorder' /\ OnItsRoute'
    BY <2>2, <2>6, <2>7 DEF IInv, UnsettledUnknown, OneRecorder, OnItsRoute
  <2>9. EntryCounts'
    <3> SUFFICES ASSUME NEW k \in Keys
                 PROVE /\ served'[k] <= 1 + MAX_SETTLEMENT_REPLAYS
                       /\ seen'[k] # "none" => served'[k] <= 1 + replays'[k]
      BY DEF EntryCounts
    <3> QED BY <2>2, <2>4 DEF IInv, Types, EntryCounts
  <2> QED BY <2>5, <2>8, <2>9 DEF IInv
<1> QED BY <1>2, <1>3

\* The chain settles a payment of which nothing is known.
LEMMA SettleInv ==
  ASSUME IInv, NEW q \in Requests, settledAt[Payment(q)] = Nowhere,
         NEW at \in Places, request' = [request EXCEPT ![q].at = at],
         settledAt' = [settledAt EXCEPT ![Payment(q)] = Key(q)[2]],
         UNCHANGED <<seen, replays, served>>
  PROVE  IInv'
<1> DEFINE p == Payment(q)
           path == Key(q)[2]
<1>1. p \in Payments /\ path \in Paths /\ Key(q) \in Keys /\ Key(q) = <<p, path>>
  BY KeyTypes DEF IInv
<1>2. \A k \in Keys : k[1] = p => seen[k] = "none" /\ served[k] = 0
  BY DEF IInv, UnsettledUnknown
<1>3. \A r \in Requests : Payment(r) = p => request[r].at # "record"
  BY KeyTypes DEF IInv, UnsettledUnknown, Payment
<1>4. \A r \in Requests : Key(r)' = Key(r) /\ Payment(r)' = Payment(r)
  BY DEF IInv, Types, Key, Payment
<1>5. \A r \in Requests : r # q /\ request'[r].at = "record" => request[r].at = "record"
  BY DEF IInv, Types
<1>6. settledAt' = [settledAt EXCEPT ![p] = path] /\ path # Nowhere
  BY <1>1, ReplayAssumption
<1>7. Payment(q) = p /\ Key(q)[2] = path OBVIOUS
<1> HIDE DEF p, path
<1>8. Types' BY <1>1, <1>6 DEF IInv, Types
<1>9. UnsettledUnknown'
  <2> SUFFICES ASSUME NEW k \in Keys, settledAt'[k[1]] = Nowhere
               PROVE /\ seen'[k] = "none" /\ served'[k] = 0
                     /\ \A r \in Requests : Key(r)' = k => request'[r].at # "record"
    BY DEF UnsettledUnknown
  <2>1. k[1] # p /\ settledAt[k[1]] = Nowhere BY <1>1, <1>6, KeyParts DEF IInv, Types
  <2>2. \A r \in Requests : Key(r)' = k => r # q BY <1>4, <1>7, <2>1 DEF Payment
  <2> QED BY <1>4, <1>5, <2>1, <2>2 DEF IInv, UnsettledUnknown
<1>10. OneRecorder'
  <2> SUFFICES ASSUME NEW r \in Requests, request'[r].at = "record"
               PROVE /\ settledAt'[Payment(r)] = Key(r)[2] /\ seen[Key(r)] = "none" /\ served[Key(r)] = 0
                     /\ \A s \in Requests : request'[s].at = "record" /\ Payment(s) = Payment(r) => s = r
    BY <1>4 DEF OneRecorder
  <2>1. CASE r = q
    BY <1>1, <1>2, <1>3, <1>5, <1>6, <1>7, <2>1 DEF IInv, Types
  <2>2. CASE r # q
    <3>1. request[r].at = "record" /\ Payment(r) # p BY <1>3, <1>5, <2>2
    <3> QED BY <1>1, <1>5, <1>6, <1>7, <3>1, KeyTypes DEF IInv, OneRecorder, Types
  <2> QED BY <2>1, <2>2
<1>11. OnItsRoute' BY <1>1, <1>2, <1>6, KeyParts DEF IInv, OnItsRoute, Types
<1>12. EntryCounts' BY DEF IInv, EntryCounts
<1> QED BY <1>8, <1>9, <1>10, <1>11, <1>12 DEF IInv

\* Storing leaves every other key its entry and its count, or no entry.
LEMMA StoredEntries ==
  ASSUME Types, NEW key \in Keys, Stored(key), seen[key] = "none"
  PROVE  /\ seen' \in [Keys -> {"none", "fresh", "old"}] /\ replays' \in [Keys -> Nat]
         /\ seen'[key] = "fresh"
         /\ \A k \in Keys \ {key} : seen'[k] # "none" => seen'[k] = seen[k] /\ replays'[k] = replays[k]
<1>1. seen' = [k \in Keys |-> IF k = key THEN "fresh" ELSE IF k \in Evicted THEN "none" ELSE seen[k]]
  BY DEF Stored
<1>2. replays' = [k \in Keys |-> IF k \in Evicted \cup {key} THEN 0 ELSE replays[k]]
  BY DEF Stored
<1> QED BY <1>1, <1>2 DEF Types

\* The one request that records a payment is the first that is served it.
LEMMA RecordInv ==
  ASSUME IInv, NEW q \in Requests, Record(q)
  PROVE  IInv'
<1> DEFINE key == Key(q)
<1>1. key \in Keys /\ key = <<Payment(q), key[2]>> /\ Payment(q) \in Payments BY KeyTypes DEF IInv
<1>2. request[q].at = "record" /\ request' = [request EXCEPT ![q].at = "served"] BY DEF Record
<1>3. served' = [served EXCEPT ![key] = served[key] + 1] /\ UNCHANGED settledAt BY DEF Record
<1>4. settledAt[Payment(q)] = key[2] /\ key[2] # Nowhere /\ seen[key] = "none" /\ served[key] = 0
  BY <1>2, KeyTypes, ReplayAssumption DEF IInv, OneRecorder
<1>5. /\ seen' \in [Keys -> {"none", "fresh", "old"}] /\ replays' \in [Keys -> Nat]
      /\ \A k \in Keys \ {key} : seen'[k] # "none" => seen'[k] = seen[k] /\ replays'[k] = replays[k]
  <2>1. CASE Stored(key) BY <1>1, <1>4, <2>1, StoredEntries DEF IInv
  <2>2. CASE UNCHANGED <<seen, replays, order>> BY <2>2 DEF IInv, Types
  <2> QED BY <2>1, <2>2 DEF Record, Recorded
<1>6. \A r \in Requests : request'[r].at = "record" =>
        request[r].at = "record" /\ Payment(r) # Payment(q)
  BY <1>2 DEF IInv, OneRecorder, Types
<1>7. \A r \in Requests : Key(r)' = Key(r) /\ Payment(r)' = Payment(r)
  BY <1>2 DEF IInv, Types, Key, Payment
<1>8. \A r \in Requests : request'[r].at = "record" => Key(r) # key
  BY <1>6 DEF Payment
<1> HIDE DEF key
<1>9. Types'
  <2>1. served' \in [Keys -> Nat] BY <1>1, <1>3 DEF IInv, Types
  <2>2. request' \in [Requests -> [at : Places, key : Keys]] BY <1>2 DEF IInv, Types, Places, Answers
  <2> QED BY <1>3, <1>5, <2>1, <2>2 DEF IInv, Types
<1>10. key[1] = Payment(q) BY <1>1
<1>11. \A k \in Keys \ {key} : served'[k] = served[k] BY <1>3 DEF IInv, Types
<1>12. served'[key] = 1 BY <1>1, <1>3, <1>4 DEF IInv, Types
<1>13. UnsettledUnknown'
  <2> SUFFICES ASSUME NEW k \in Keys, settledAt[k[1]] = Nowhere
               PROVE /\ seen'[k] = "none" /\ served'[k] = 0
                     /\ \A r \in Requests : Key(r) = k => request'[r].at # "record"
    BY <1>3, <1>7 DEF UnsettledUnknown
  <2>1. k # key BY <1>4, <1>10
  <2> QED BY <1>5, <1>6, <1>11, <2>1 DEF IInv, UnsettledUnknown
<1>14. OneRecorder'
  <2> SUFFICES ASSUME NEW r \in Requests, request'[r].at = "record"
               PROVE /\ settledAt[Payment(r)] = Key(r)[2] /\ seen'[Key(r)] = "none" /\ served'[Key(r)] = 0
                     /\ \A s \in Requests : request'[s].at = "record" /\ Payment(s) = Payment(r) => s = r
    BY <1>3, <1>7 DEF OneRecorder
  <2>1. Key(r) \in Keys \ {key} BY <1>8, KeyTypes DEF IInv
  <2> QED BY <1>5, <1>6, <1>11, <2>1 DEF IInv, OneRecorder
<1>15. OnItsRoute'
  <2> SUFFICES ASSUME NEW k \in Keys, seen'[k] # "none" \/ served'[k] > 0
               PROVE k[2] = settledAt[k[1]]
    BY <1>3 DEF OnItsRoute
  <2>1. CASE k = key BY <1>4, <1>10, <2>1
  <2>2. CASE k # key BY <1>5, <1>11, <2>2 DEF IInv, OnItsRoute
  <2> QED BY <2>1, <2>2
<1>16. EntryCounts'
  <2> SUFFICES ASSUME NEW k \in Keys
               PROVE /\ served'[k] <= 1 + MAX_SETTLEMENT_REPLAYS
                     /\ seen'[k] # "none" => served'[k] <= 1 + replays'[k]
    BY DEF EntryCounts
  <2>1. CASE k = key
    <3>1. replays'[k] \in Nat /\ MAX_SETTLEMENT_REPLAYS \in Nat BY <1>5, ReplayAssumption
    <3> QED BY <1>12, <2>1, <3>1
  <2>2. CASE k # key BY <1>5, <1>11, <2>2 DEF IInv, EntryCounts
  <2> QED BY <2>1, <2>2
<1> QED BY <1>9, <1>13, <1>14, <1>15, <1>16 DEF IInv

\* Entries that age, are swept or are lost, and requests that are dropped.
LEMMA ForgetInv ==
  ASSUME IInv, seen' \in [Keys -> {"none", "fresh", "old"}], replays' \in [Keys -> Nat],
         \A k \in Keys : seen'[k] # "none" => seen[k] # "none" /\ replays'[k] = replays[k],
         request' \in [Requests -> [at : Places, key : Keys]],
         \A r \in Requests : request'[r].key = request[r].key
                          /\ (request'[r].at = "record" => request[r].at = "record"),
         UNCHANGED <<settledAt, served>>
  PROVE  IInv'
<1>1. Types' BY DEF IInv, Types
<1>2. \A r \in Requests : Key(r)' = Key(r) /\ Payment(r)' = Payment(r) BY DEF Key, Payment
<1>3. \A r \in Requests : Key(r) \in Keys BY KeyTypes DEF IInv
<1>4. \A k \in Keys : seen[k] = "none" => seen'[k] = "none" OBVIOUS
<1>5. UnsettledUnknown' BY <1>2, <1>4 DEF IInv, UnsettledUnknown
<1>6. OneRecorder' BY <1>2, <1>3, <1>4 DEF IInv, OneRecorder
<1>7. OnItsRoute' BY DEF IInv, OnItsRoute
<1>8. EntryCounts' BY DEF IInv, EntryCounts
<1> QED BY <1>1, <1>5, <1>6, <1>7, <1>8 DEF IInv

\* Every step keeps the invariant.
LEMMA StepInv == IInv /\ [ReplayNext]_replayVars => IInv'
<1> SUFFICES ASSUME IInv, [ReplayNext]_replayVars PROVE IInv' OBVIOUS
<1>1. ASSUME NEW q \in Requests, Receive(q) PROVE IInv'
  BY <1>1, MoveInv DEF Receive, Answered, Places
<1>2. ASSUME NEW q \in Requests, LookUp(q) PROVE IInv'
  <2>1. seen[Key(q)] \in {"none", "fresh", "old"} BY KeyTypes DEF IInv, Types
  <2>2. PICK at \in {"settle", "spent", "claim"} : Answered(q, at) BY <1>2, <2>1 DEF LookUp
  <2>3. at \in Places \ {"record"} BY DEF Places, Answers
  <2> QED BY <2>2, <2>3, MoveInv DEF Answered
<1>3. ASSUME NEW q \in Requests, Claim(q) PROVE IInv' BY <1>3, ClaimInv
<1>4. ASSUME NEW q \in Requests, CheckFails(q) PROVE IInv'
  <2>1. "error" \in Places \ {"record"} BY DEF Places, Answers
  <2> QED BY <1>4, <2>1, MoveInv DEF CheckFails
<1>5. ASSUME NEW q \in Requests, Settle(q) PROVE IInv'
  <2>1. "record" \in Places BY DEF Places
  <2> QED BY <1>5, <2>1, SettleInv DEF Settle
<1>6. ASSUME NEW q \in Requests, Refuse(q) PROVE IInv'
  <2>1. "refused" \in Places \ {"record"} BY DEF Places, Answers
  <2> QED BY <1>6, <2>1, MoveInv DEF Refuse, Answered
<1>7. ASSUME NEW q \in Requests, SettleFails(q) PROVE IInv'
  <2>1. "error" \in Places \ {"record"} BY DEF Places, Answers
  <2>2. request' = [request EXCEPT ![q].at = "error"] /\ UNCHANGED <<seen, replays, served>>
    BY <1>7 DEF SettleFails
  <2>3. CASE settledAt' = settledAt BY <2>1, <2>2, <2>3, MoveInv
  <2>4. CASE settledAt' # settledAt
    <3>1. settledAt' = [settledAt EXCEPT ![Payment(q)] =
                          IF settledAt[Payment(q)] = Nowhere THEN Key(q)[2] ELSE settledAt[Payment(q)]]
      BY <1>7, <2>4 DEF SettleFails
    <3>2. settledAt[Payment(q)] = Nowhere BY <2>4, <3>1, KeyTypes DEF IInv, Types
    <3>3. settledAt' = [settledAt EXCEPT ![Payment(q)] = Key(q)[2]] BY <3>1, <3>2
    <3> QED BY <2>1, <2>2, <3>2, <3>3, SettleInv
  <2> QED BY <2>3, <2>4
<1>8. ASSUME NEW q \in Requests, Record(q) PROVE IInv' BY <1>8, RecordInv
<1>9. ASSUME NEW k \in Keys, Age(k) \/ Sweep(k) PROVE IInv'
  BY <1>9, ForgetInv DEF Age, Sweep, IInv, Types
<1>10. ASSUME Restart PROVE IInv'
  <2>1. request' = [q \in Requests |-> [request[q] EXCEPT
                      !.at = IF InFlight(q) THEN "dropped" ELSE request[q].at]]
    BY <1>10 DEF Restart
  <2>2. \A q \in Requests : request'[q] = [request[q] EXCEPT
                              !.at = IF InFlight(q) THEN "dropped" ELSE request[q].at]
    BY <2>1
  <2>3. \A q \in Requests : request[q] \in [at : Places, key : Keys] BY DEF IInv, Types
  <2>4. request' \in [Requests -> [at : Places, key : Keys]] BY <2>1, <2>3 DEF Places
  <2>5. \A q \in Requests : request'[q].key = request[q].key
                         /\ (request'[q].at = "record" => request[q].at = "record")
    BY <2>2, <2>3
  <2>6. /\ seen' \in [Keys -> {"none", "fresh", "old"}] /\ replays' \in [Keys -> Nat]
        /\ \A k \in Keys : seen'[k] # "none" => seen[k] # "none" /\ replays'[k] = replays[k]
    BY <1>10 DEF Restart, IInv, Types
  <2> QED BY <1>10, <2>4, <2>5, <2>6, ForgetInv DEF Restart
<1>11. CASE UNCHANGED replayVars
  BY <1>11 DEF replayVars, IInv, Types, UnsettledUnknown, OneRecorder, OnItsRoute, EntryCounts, Key, Payment
<1> QED BY <1>1, <1>2, <1>3, <1>4, <1>5, <1>6, <1>7, <1>8, <1>9, <1>10, <1>11 DEF ReplayNext, Serve

\* What the invariant counts of a key is what may be served for it.
LEMMA InvServes == IInv => ServedAtMost
<1> SUFFICES ASSUME IInv, NEW k \in Keys
             PROVE served[k] <= IF k[2] = settledAt[k[1]] THEN 1 + MAX_SETTLEMENT_REPLAYS ELSE 0
  BY DEF ServedAtMost
<1> QED BY DEF IInv, Types, OnItsRoute, EntryCounts

\* For every number of payments, routes and requests, both stores and every
\* fault: one payment buys one response and its replays, on one route.
THEOREM PaymentServedAtMost == ReplaySpec => []ServedAtMost
<1> QED BY InitInv, StepInv, InvServes, PTL DEF ReplaySpec

----------------------------------------------------------------------------
\* Whole payments

\* Every step of a payment is one of the client's ledger, or leaves it alone.
LEMMA StepsOfLedger == Next => [LedgerNext]_ledgerVars
<1> SUFFICES ASSUME Next PROVE LedgerNext \/ UNCHANGED ledgerVars OBVIOUS
<1>1. ASSUME NEW c \in Calls, Plan(c) PROVE LedgerNext BY <1>1 DEF Plan, LedgerNext, Bookkeeping
<1>2. ASSUME NEW c \in Calls, Free(c) \/ Unpayable(c) \/ Paid(c) \/ Rejected(c) \/ Unreadable(c)
      PROVE LedgerNext
  BY <1>2 DEF Free, Unpayable, Paid, Rejected, Unreadable, LedgerNext
<1>3. ASSUME NEW c \in Calls, Pay(c) \/ LoseAnswer(c) \/ Retry(c) PROVE UNCHANGED ledgerVars
  BY <1>3 DEF Pay, LoseAnswer, Retry
<1>4. ASSUME NEW q \in Requests, Provide(q) PROVE UNCHANGED ledgerVars BY <1>4 DEF Provide
<1>5. ASSUME NEW q \in Strays, Stray(q) PROVE UNCHANGED ledgerVars BY <1>5 DEF Stray
<1>6. ASSUME NEW k \in Keys, Outdate(k) PROVE UNCHANGED ledgerVars BY <1>6 DEF Outdate
<1> QED BY <1>1, <1>2, <1>3, <1>4, <1>5, <1>6 DEF Next

\* The number of a call's requests is within the attempts.
TriesOK == tries \in [Calls -> 0..MaxAttempts]

\* A call never sends more requests than it may.
LEMMA StepTries == TriesOK /\ [Next]_vars => TriesOK'
<1> SUFFICES ASSUME TriesOK, [Next]_vars PROVE TriesOK' OBVIOUS
<1>1. MaxAttempts \in Nat \ {0} BY PaymentAssumption
<1>2. ASSUME NEW c \in Calls, Pay(c) PROVE TriesOK' BY <1>1, <1>2 DEF Pay, TriesOK
<1>3. ASSUME NEW c \in Calls, Retry(c) PROVE TriesOK' BY <1>1, <1>3 DEF Retry, TriesOK
<1>4. CASE UNCHANGED tries BY <1>4 DEF TriesOK
<1>5. ASSUME NEW c \in Calls,
             Plan(c) \/ Free(c) \/ Unpayable(c) \/ LoseAnswer(c) \/ Paid(c) \/ Rejected(c) \/ Unreadable(c)
      PROVE UNCHANGED tries
  BY <1>5 DEF Plan, Free, Unpayable, LoseAnswer, Paid, Rejected, Unreadable, clientVars
<1>6. ASSUME NEW q \in Requests, Provide(q) PROVE UNCHANGED tries BY <1>6 DEF Provide, clientVars
<1>7. ASSUME NEW q \in Strays, Stray(q) PROVE UNCHANGED tries BY <1>7 DEF Stray, clientVars
<1>8. ASSUME NEW k \in Keys, Outdate(k) PROVE UNCHANGED tries BY <1>8 DEF Outdate, clientVars
<1>9. UNCHANGED vars => UNCHANGED tries BY DEF vars, clientVars
<1>10. UNCHANGED <<replayVars, clientVars>> \/ UNCHANGED <<ledgerVars, clientVars>> => UNCHANGED tries
  BY DEF clientVars
<1> QED BY <1>2, <1>3, <1>4, <1>5, <1>6, <1>7, <1>8, <1>9, <1>10 DEF Next

\* Every step of a payment is one of the provider's routes, or changes nothing of
\* them but the count of faults.
LEMMA StepsOfReplay ==
  TriesOK /\ Next => ReplayNext \/ UNCHANGED <<seen, replays, request, settledAt, served>>
<1> SUFFICES ASSUME TriesOK, Next
             PROVE ReplayNext \/ UNCHANGED <<seen, replays, request, settledAt, served>>
  OBVIOUS
<1>1. ASSUME NEW c \in Calls, Plan(c) \/ Free(c) \/ Unpayable(c) \/ Paid(c) \/ Rejected(c)
      PROVE UNCHANGED <<seen, replays, request, settledAt, served>>
  BY <1>1 DEF Plan, Free, Unpayable, Paid, Rejected, replayVars
<1>2. ASSUME NEW c \in Calls, LoseAnswer(c) \/ Unreadable(c)
      PROVE UNCHANGED <<seen, replays, request, settledAt, served>>
  BY <1>2 DEF LoseAnswer, Unreadable
<1>3. ASSUME NEW c \in Calls, Pay(c) PROVE ReplayNext
  <2>1. <<c, 1>> \in Requests BY PaymentAssumption DEF Attempts
  <2> QED BY <1>3, <2>1 DEF Pay, ReplayNext
<1>4. ASSUME NEW c \in Calls, Retry(c) PROVE ReplayNext
  <2>1. tries[c] + 1 \in Attempts BY <1>4, PaymentAssumption DEF Retry, Attempts, TriesOK
  <2>2. <<c, tries[c] + 1>> \in Requests BY <2>1, PaymentAssumption
  <2> QED BY <1>4, <2>2 DEF Retry, ReplayNext
<1>5. ASSUME NEW q \in Requests, Provide(q) PROVE ReplayNext BY <1>5 DEF Provide, ReplayNext, Serve
<1>6. ASSUME NEW q \in Strays, Stray(q) PROVE ReplayNext
  BY <1>6, PaymentAssumption DEF Stray, ReplayNext
<1>7. ASSUME NEW k \in Keys, Outdate(k) PROVE ReplayNext BY <1>7 DEF Outdate, ReplayNext
<1>8. Restart => ReplayNext BY DEF ReplayNext
<1>9. UNCHANGED <<replayVars, clientVars>> => UNCHANGED <<seen, replays, request, settledAt, served>>
  BY DEF replayVars
<1> QED BY <1>1, <1>2, <1>3, <1>4, <1>5, <1>6, <1>7, <1>8, <1>9 DEF Next

----------------------------------------------------------------------------
\* Every request carries the first payment of a call, and no other payment settles.
SignedOnce ==
  /\ \A q \in Requests : Payment(q)[2] = 1
  /\ \A c \in Calls, n \in Attempts : n # 1 => settledAt[<<c, n>>] = Nowhere

PInv == TriesOK /\ LedgerTypeOK /\ LedgerWithinCaps /\ IInv /\ SignedOnce

\* The invariant of the composition holds at first.
LEMMA InitPInv == Init => PInv
<1> SUFFICES ASSUME Init PROVE PInv OBVIOUS
<1>1. TriesOK BY PaymentAssumption DEF Init, TriesOK
<1>2. LedgerTypeOK /\ IInv BY InitTypes, InitInv DEF Init
<1>3. LedgerWithinCaps BY LedgerAssumption DEF Init, LedgerInit, LedgerWithinCaps, EmptyLedger
<1>4. ASSUME NEW q \in Requests PROVE Payment(q)[2] = 1
  <2>1. CASE q \in Strays BY <2>1 DEF Init, Signed
  <2>2. ASSUME NEW c \in Calls, NEW n \in Attempts, q = <<c, n>> PROVE Payment(q)[2] = 1
    <3>1. request[q].key = <<Signed(c, n), call[c].route>> BY <2>2 DEF Init
    <3> QED BY <3>1 DEF Payment, Key, Signed
  <2> QED BY <2>1, <2>2, PaymentAssumption
<1>5. ASSUME NEW c \in Calls, NEW n \in Attempts PROVE settledAt[<<c, n>>] = Nowhere
  BY PaymentAssumption DEF Init, ReplayInit
<1> QED BY <1>1, <1>2, <1>3, <1>4, <1>5 DEF PInv, SignedOnce

\* A step of the routes changes no request's payment, and settles none but one
\* that a request carries.
LEMMA ReplayKeepsPayments ==
  ASSUME IInv, ReplayNext
  PROVE  /\ \A q \in Requests : Payment(q)' = Payment(q)
         /\ \A p \in Payments : settledAt'[p] = settledAt[p] \/ \E q \in Requests : Payment(q) = p
<1>1. IInv' BY StepInv
<1> DEFINE Same == \A q \in Requests : request'[q].key = request[q].key
           Moved1(q) == settledAt' = settledAt \/ \E path : settledAt' = [settledAt EXCEPT ![Payment(q)] = path]
<1>2. ASSUME NEW q \in Requests, Receive(q) \/ Serve(q) PROVE Same /\ Moved1(q)
  <2>1. \E at : request' = [request EXCEPT ![q].at = at]
    BY <1>2 DEF Serve, Receive, LookUp, Claim, ReplayAnswer, CheckFails, Settle, Refuse, SettleFails, Record, Recorded, Answered
  <2>2. Same BY <2>1 DEF IInv, Types
  <2>3. Moved1(q)
    BY <1>2 DEF Serve, Receive, LookUp, Claim, ReplayAnswer, CheckFails, Settle, Refuse, SettleFails, Record, Recorded, Answered
  <2> QED BY <2>2, <2>3
<1>3. ASSUME NEW k \in Keys, Age(k) \/ Sweep(k) PROVE Same /\ UNCHANGED settledAt
  BY <1>3 DEF Age, Sweep
<1>4. ASSUME Restart PROVE Same /\ UNCHANGED settledAt
  BY <1>4 DEF Restart, IInv, Types
<1>5. Same BY <1>2, <1>3, <1>4 DEF ReplayNext
<1>6. ASSUME NEW p \in Payments, settledAt'[p] # settledAt[p] PROVE \E q \in Requests : Payment(q) = p
  <2>1. PICK q \in Requests : Moved1(q) BY <1>2, <1>3, <1>4, <1>6 DEF ReplayNext
  <2> QED BY <1>6, <2>1 DEF IInv, Types
<1> QED BY <1>5, <1>6 DEF Payment, Key

\* Every step of the composition keeps its invariant.
LEMMA StepPInv == PInv /\ [Next]_vars => PInv'
<1> SUFFICES ASSUME PInv, [Next]_vars PROVE PInv' OBVIOUS
<1>1. TriesOK' BY StepTries DEF PInv
<1>2. [LedgerNext]_ledgerVars BY StepsOfLedger DEF vars
<1>3. LedgerTypeOK' /\ LedgerWithinCaps' BY <1>2, StepTypes, StepCaps DEF PInv
<1>4. ReplayNext \/ UNCHANGED <<seen, replays, request, settledAt, served>>
  BY StepsOfReplay DEF PInv, vars, replayVars
<1>5. CASE ReplayNext
  <2>1. IInv' BY <1>5, StepInv DEF PInv
  <2>2. SignedOnce'
    <3>1. \A q \in Requests : Payment(q)' = Payment(q) BY <1>5, ReplayKeepsPayments DEF PInv
    <3>2. ASSUME NEW c \in Calls, NEW n \in Attempts, n # 1 PROVE settledAt'[<<c, n>>] = Nowhere
      <4>1. <<c, n>> \in Payments BY PaymentAssumption
      <4>2. \A q \in Requests : Payment(q) # <<c, n>> BY <3>2 DEF PInv, SignedOnce
      <4> QED BY <1>5, <3>2, <4>1, <4>2, ReplayKeepsPayments DEF PInv, SignedOnce
    <3> QED BY <3>1, <3>2 DEF PInv, SignedOnce
  <2> QED BY <1>1, <1>3, <2>1, <2>2 DEF PInv
<1>6. CASE UNCHANGED <<seen, replays, request, settledAt, served>>
  <2>1. IInv'
    BY <1>6 DEF PInv, IInv, Types, UnsettledUnknown, OneRecorder, OnItsRoute, EntryCounts, Key, Payment
  <2>2. SignedOnce' BY <1>6 DEF PInv, SignedOnce, Key, Payment
  <2> QED BY <1>1, <1>3, <2>1, <2>2 DEF PInv
<1> QED BY <1>4, <1>5, <1>6

\* For every number of calls, attempts and strays: however often a call retries
\* and whatever was lost, the chain takes one payment of it.
THEOREM CallPaysOnce == Spec => []OnePaymentPerCall
<1>1. PInv => OnePaymentPerCall BY DEF PInv, SignedOnce, OnePaymentPerCall
<1> QED BY InitPInv, StepPInv, <1>1, PTL DEF Spec

\* The caps hold under the payments, retries and refusals that end in a commit
\* or a rollback.
THEOREM PaymentsWithinCaps == Spec => []LedgerWithinCaps
<1>1. PInv => LedgerWithinCaps BY DEF PInv
<1> QED BY InitPInv, StepPInv, <1>1, PTL DEF Spec

\* A payment buys its response and the replays of it on one route, whatever the
\* clients, their retries and the strays present when.
THEOREM PayServedAtMost == Spec => []ServedAtMost
<1>1. PInv => ServedAtMost BY InvServes DEF PInv
<1> QED BY InitPInv, StepPInv, <1>1, PTL DEF Spec

\* Whole payments, with clients, routes, retries and lost answers, do to the spend
\* ledger only what the ledger's own calls do, and so over either kind of store
\* what they do over one with update().
THEOREM PaymentsKeepTheLedger == Spec => LedgerSpec /\ Atomic!LedgerSpec
<1>1. Init => LedgerInit BY DEF Init
<1>2. [Next]_vars => [LedgerNext]_ledgerVars BY StepsOfLedger DEF vars
<1> QED BY <1>1, <1>2, MutexIsAtomic, PTL DEF Spec, LedgerSpec

----------------------------------------------------------------------------
\* It all happens on one day: what is reserved is of today, none is late.
OneDay ==
  /\ day = 0 /\ ledger.date = 0
  /\ \A c \in Calls : call[c].on = 0 /\ call[c].st \notin {"late", "missed"}

\* A call never signs more than it reserved.
AskedIsReserved == asked \in [Calls -> Nat] /\ \A c \in Calls : asked[c] <= Amount(c)

\* The requests of a call carry its one payment.
Carries == \A c \in Calls, n \in Attempts : Payment(<<c, n>>) = <<c, 1>>

\* Only what a call has signed is sent, and of its own requests only its attempts.
SentOnly ==
  \A q \in Requests : request[q].at # "unsent" =>
    Sent(q) /\ (q \in Strays \/ \E c \in Calls, n \in Attempts : q = <<c, n>> /\ n <= tries[c])

\* Each attempt of a call but the last failed by a fault of its own, and so did the
\* last if it went unheard.
FaultPerAttempt(c) ==
  /\ tries[c] = 0 => c \notin lost
  /\ tries[c] > 0 => faults >= tries[c] - 1 /\ (Unheard(c) => faults >= tries[c])

\* Before a call sends its payment nothing settles it; if only its first request
\* ever carried it, that request settled it.
FirstSettles(c) ==
  settledAt[<<c, 1>>] # Nowhere =>
    /\ tries[c] > 0
    /\ tries[c] > 1 \/ Strayed(c) \/ request[<<c, 1>>].at \in {"record", "served", "error", "dropped"}

\* A call that sent its payment gives up only when it is not paid for.
GivesUpUnpaid(c) ==
  tries[c] > 0 =>
    /\ call[c].st \in {"pay", "kept", "release", "released"}
    /\ call[c].st \in {"release", "released"} =>
         \/ Unheard(c) /\ (call[c].mode # "x402" \/ tries[c] = MaxAttempts)
         \/ Answer(c) = "served" /\ faults >= tries[c]
         \/ Answer(c) \in {"spent", "refused"}

CallInv(c) == FaultPerAttempt(c) /\ FirstSettles(c) /\ GivesUpUnpaid(c)

MInv ==
  /\ PInv /\ LedgerInv /\ OneDay /\ AskedIsReserved /\ Carries
  /\ faults \in Nat /\ SentOnly /\ \A c \in Calls : CallInv(c)

\* The one request that counts, as an element of its sets.
LEMMA FirstRequest ==
  ASSUME NEW c \in Calls
  PROVE  1 \in Attempts /\ <<c, 1>> \in Requests /\ <<c, 1>> \in Payments
BY PaymentAssumption DEF Attempts

\* The request that a call waits for.
LEMMA LastRequest ==
  ASSUME TriesOK, NEW c \in Calls
  PROVE  /\ tries[c] \in Nat /\ tries[c] <= MaxAttempts
         /\ tries[c] > 0 => tries[c] \in Attempts /\ <<c, tries[c]>> \in Requests
         /\ tries[c] < MaxAttempts => tries[c] + 1 \in Attempts /\ <<c, tries[c] + 1>> \in Requests
<1>1. tries[c] \in 0..MaxAttempts /\ MaxAttempts \in Nat BY PaymentAssumption DEF TriesOK
<1>2. tries[c] > 0 => tries[c] \in Attempts BY <1>1 DEF Attempts
<1>3. tries[c] < MaxAttempts => tries[c] + 1 \in Attempts BY <1>1 DEF Attempts
<1> QED BY <1>1, <1>2, <1>3, PaymentAssumption

\* The invariant holds at first.
LEMMA InitMInv == Init => MInv
<1> SUFFICES ASSUME Init PROVE MInv OBVIOUS
<1>1. PInv /\ LedgerInv BY InitPInv, InitLedgerInv DEF Init
<1>2. OneDay BY DEF Init, LedgerInit, EmptyLedger, OneDay
<1>3. AskedIsReserved
  <2>1. LedgerTypeOK BY <1>1 DEF LedgerInv
  <2> QED BY <2>1, AmountIsNat DEF Init, AskedIsReserved
<1>4. Carries
  <2>1. ASSUME NEW c \in Calls, NEW n \in Attempts PROVE request[<<c, n>>].key[1] = <<c, 1>>
    <3>1. request[<<c, n>>].key = <<Signed(c, n), call[c].route>> BY DEF Init
    <3> QED BY <3>1 DEF Signed
  <2> QED BY <2>1 DEF Carries, Payment, Key
<1>5. faults \in Nat /\ lost = {} BY DEF Init, ReplayInit
<1>6. SentOnly BY DEF Init, ReplayInit, SentOnly
<1>7. ASSUME NEW c \in Calls PROVE CallInv(c)
  <2>1. tries[c] = 0 /\ settledAt[<<c, 1>>] = Nowhere BY FirstRequest DEF Init, ReplayInit
  <2> QED BY <1>5, <2>1 DEF CallInv, FaultPerAttempt, FirstSettles, GivesUpUnpaid
<1> QED BY <1>1, <1>2, <1>3, <1>4, <1>5, <1>6, <1>7 DEF MInv

\* The day does not end.
LEMMA StepOneDay ==
  ASSUME LedgerTypeOK, LedgerInv', OneDay, Next
  PROVE  OneDay'
<1>1. day' = day
  <2>1. ASSUME NEW c \in Calls, Bookkeeping(c) \/ Commit(c) \/ GiveUp(c) PROVE day' = day
    BY <2>1 DEF Bookkeeping, RefuseEarly, Begin, LockAndRead, Reserve, Release, StoreThrows, Commit, GiveUp
  <2>2. ASSUME NEW c \in Calls,
               Plan(c) \/ Free(c) \/ Unpayable(c) \/ Paid(c) \/ Rejected(c) \/ Unreadable(c)
        PROVE day' = day
    BY <2>1, <2>2 DEF Plan, Free, Unpayable, Paid, Rejected, Unreadable, Bookkeeping
  <2>3. UNCHANGED ledgerVars => day' = day BY DEF ledgerVars
  <2>4. ASSUME NEW c \in Calls, Pay(c) \/ LoseAnswer(c) \/ Retry(c) PROVE day' = day
    BY <2>3, <2>4 DEF Pay, LoseAnswer, Retry
  <2>5. ASSUME NEW q \in Requests, Provide(q) PROVE day' = day BY <2>3, <2>5 DEF Provide
  <2>6. ASSUME NEW q \in Strays, Stray(q) PROVE day' = day BY <2>3, <2>6 DEF Stray
  <2>7. ASSUME NEW k \in Keys, Outdate(k) PROVE day' = day BY <2>3, <2>7 DEF Outdate
  <2> QED BY <2>2, <2>3, <2>4, <2>5, <2>6, <2>7 DEF Next
<1>2. day' = 0 BY <1>1 DEF OneDay
<1>3. ledger'.date \in Nat /\ ledger'.date <= 0
  BY <1>2 DEF LedgerInv, LedgerTypeOK, Ledgers, Dated, Days
<1>4. ledger'.date = 0 BY <1>3
<1>5. ASSUME NEW c \in Calls PROVE call'[c].on = 0 /\ call'[c].st \notin {"late", "missed"}
  <2>1. call[c].on = 0 /\ call[c].st \notin {"late", "missed"} BY DEF OneDay
  <2>2. ASSUME NEW d \in Calls, NEW st, st \notin {"late", "missed"}, Goto(d, st)
        PROVE call'[c].on = 0 /\ call'[c].st \notin {"late", "missed"}
    BY <2>1, <2>2 DEF Goto, LedgerTypeOK
  <2>3. ASSUME NEW d \in Calls, Reserve(d)
        PROVE call'[c].on = 0 /\ call'[c].st \notin {"late", "missed"}
    <3>1. CASE Goto(d, "failed") BY <2>2, <3>1
    <3>2. CASE call' = [call EXCEPT ![d].on = day,
                          ![d].st = IF call[d].mode = "mpp-session" THEN "kept" ELSE "pay"]
      <4> DEFINE st == IF call[d].mode = "mpp-session" THEN "kept" ELSE "pay"
      <4>1. st \notin {"late", "missed"} OBVIOUS
      <4>2. call' = [call EXCEPT ![d].on = day, ![d].st = st] BY <3>2
      <4> HIDE DEF st
      <4> QED BY <2>1, <4>1, <4>2 DEF LedgerTypeOK, OneDay
    <3> QED BY <2>3, <3>1, <3>2 DEF Reserve
  <2>4. ASSUME NEW d \in Calls, Release(d)
        PROVE call'[c].on = 0 /\ call'[c].st \notin {"late", "missed"}
    <3>1. Prev(d) = ledger BY <2>4, PrevIsLedger DEF Release
    <3>2. Goto(d, "released") BY <2>4, <3>1 DEF Release, OneDay
    <3> QED BY <2>2, <3>2
  <2>5. ASSUME NEW d \in Calls, RefuseEarly(d) \/ Begin(d) \/ StoreThrows(d) \/ Commit(d) \/ GiveUp(d)
        PROVE call'[c].on = 0 /\ call'[c].st \notin {"late", "missed"}
    BY <2>2, <2>5 DEF RefuseEarly, Begin, StoreThrows, Commit, GiveUp
  <2>6. CASE UNCHANGED call BY <2>1, <2>6
  <2>7. ASSUME NEW d \in Calls, LockAndRead(d) PROVE UNCHANGED call BY <2>7 DEF LockAndRead
  <2>8. [LedgerNext]_ledgerVars BY StepsOfLedger
  <2> QED BY <2>3, <2>4, <2>5, <2>6, <2>7, <2>8 DEF LedgerNext, Bookkeeping, Midnight, ledgerVars
<1> QED BY <1>2, <1>4, <1>5 DEF OneDay

\* What is signed is within what the manifest says and the ledger reserved.
LEMMA StepAsked ==
  ASSUME LedgerTypeOK, SameCalls, AskedIsReserved, [Next]_vars
  PROVE  AskedIsReserved'
<1>1. \A c \in Calls : Amount(c)' = Amount(c) /\ Amount(c) \in Nat BY AmountIsNat DEF SameCalls, Amount
<1>2. CASE UNCHANGED asked BY <1>1, <1>2 DEF AskedIsReserved
<1>3. ASSUME NEW c \in Calls, Pay(c) PROVE AskedIsReserved'
  <2>1. PICK amount \in 1..Amount(c) : asked' = [asked EXCEPT ![c] = amount] BY <1>3 DEF Pay, Payable
  <2> QED BY <1>1, <2>1 DEF AskedIsReserved
<1>4. UNCHANGED clientVars => UNCHANGED asked BY DEF clientVars
<1>5. ASSUME NEW c \in Calls, \/ Plan(c) \/ Free(c) \/ Unpayable(c) \/ LoseAnswer(c) \/ Retry(c)
                              \/ Paid(c) \/ Rejected(c) \/ Unreadable(c)
      PROVE UNCHANGED asked
  BY <1>4, <1>5 DEF Plan, Free, Unpayable, LoseAnswer, Retry, Paid, Rejected, Unreadable
<1>6. ASSUME NEW q \in Requests, Provide(q) PROVE UNCHANGED asked BY <1>4, <1>6 DEF Provide
<1>7. ASSUME NEW q \in Strays, Stray(q) PROVE UNCHANGED asked BY <1>4, <1>7 DEF Stray
<1>8. ASSUME NEW k \in Keys, Outdate(k) PROVE UNCHANGED asked BY <1>4, <1>8 DEF Outdate
<1>9. UNCHANGED vars => UNCHANGED asked BY DEF vars, clientVars
<1> QED BY <1>2, <1>3, <1>4, <1>5, <1>6, <1>7, <1>8, <1>9 DEF Next

\* No step changes what a request carries.
LEMMA StepPayments ==
  ASSUME PInv, [Next]_vars
  PROVE  \A q \in Requests : Payment(q)' = Payment(q)
<1>1. ReplayNext \/ UNCHANGED <<seen, replays, request, settledAt, served>>
  BY StepsOfReplay DEF PInv, vars, replayVars
<1>2. CASE ReplayNext BY <1>2, ReplayKeepsPayments DEF PInv
<1>3. CASE UNCHANGED <<seen, replays, request, settledAt, served>> BY <1>3 DEF Payment, Key
<1> QED BY <1>1, <1>2, <1>3

\* So a call's requests go on carrying its one payment.
LEMMA StepCarries ==
  ASSUME PInv, Carries, [Next]_vars
  PROVE  Carries'
<1>1. \A c \in Calls, n \in Attempts : <<c, n>> \in Requests BY PaymentAssumption
<1> QED BY <1>1, StepPayments DEF Carries

\* What a step may do to a request: send it, or move it on while it is in flight.
\* Nothing is left of a payment being recorded but to serve or to drop it, and an
\* error or a drop is a fault.
Went(r) ==
  \/ request'[r].at = request[r].at
  \/ request[r].at = "unsent" /\ request'[r].at = "get"
  \/ /\ InFlight(r) /\ request'[r].at # "unsent"
     /\ request[r].at = "record" => request'[r].at \in {"served", "dropped"}
     /\ request'[r].at \in {"error", "dropped"} => faults' >= faults + 1

\* The request that settles a payment goes to record it, or fails.
SettledNow(p) ==
  \E r \in Requests : InFlight(r) /\ Payment(r) = p /\ request'[r].at \in {"record", "error"}

\* A request of the routes moves on alone, and may settle what it carries.
LEMMA RequestMoves ==
  ASSUME Types, faults \in Nat, NEW q \in Requests, Receive(q) \/ Serve(q)
  PROVE  /\ faults' \in {faults, faults + 1}
         /\ Went(q) /\ \A r \in Requests : r # q => request'[r] = request[r]
         /\ \A p \in Payments : settledAt'[p] = settledAt[p] \/ SettledNow(p)
<1> DEFINE To(at) == request' = [request EXCEPT ![q].at = at]
           Goal == /\ faults' \in {faults, faults + 1}
                   /\ Went(q) /\ \A r \in Requests : r # q => request'[r] = request[r]
                   /\ \A p \in Payments : settledAt'[p] = settledAt[p] \/ SettledNow(p)
<1>1. \A at : To(at) => request'[q].at = at /\ \A r \in Requests : r # q => request'[r] = request[r]
  BY DEF Types
<1>2. ASSUME NEW at, To(at), UNCHANGED <<settledAt, faults>>,
             at \notin {"unsent", "error", "dropped"}, request[q].at = "record" => at = "served",
             InFlight(q) \/ (request[q].at = "unsent" /\ at = "get")
      PROVE Goal
  BY <1>1, <1>2 DEF Went
<1>3. CASE Receive(q)
  <2> DEFINE at == "get"
  <2>1. To(at) /\ UNCHANGED <<settledAt, faults>> /\ request[q].at = "unsent"
    BY <1>3 DEF Receive, Answered
  <2>2. at \notin {"unsent", "error", "dropped"} /\ at = "get" OBVIOUS
  <2> HIDE DEF at
  <2> QED BY <1>2, <2>1, <2>2
<1>4. CASE LookUp(q)
  <2>1. /\ request[q].at = "get" /\ UNCHANGED <<settledAt, faults>>
        /\ To(CASE seen[Key(q)] = "none"  -> "settle"
                [] seen[Key(q)] = "old"   -> "spent"
                [] seen[Key(q)] = "fresh" -> "claim")
    BY <1>4 DEF LookUp, Answered
  <2>2. seen[Key(q)] \in {"none", "fresh", "old"} BY KeyTypes DEF Types
  <2>3. PICK at \in {"settle", "spent", "claim"} : To(at) BY <2>1, <2>2
  <2>4. InFlight(q) BY <2>1 DEF InFlight
  <2> QED BY <1>2, <2>1, <2>3, <2>4
<1>5. CASE Claim(q)
  <2>1. /\ request[q].at = "claim" /\ UNCHANGED <<settledAt, faults>> /\ To(ReplayAnswer(Key(q)))
    BY <1>5 DEF Claim
  <2>2. PICK at \in {"served", "spent"} : To(at) BY <2>1 DEF ReplayAnswer
  <2>3. InFlight(q) BY <2>1 DEF InFlight
  <2> QED BY <1>2, <2>1, <2>2, <2>3
<1>6. CASE CheckFails(q) \/ SettleFails(q)
  <2> DEFINE at == "error"
  <2>1. request[q].at \in {"get", "claim", "settle"} /\ faults' = faults + 1 /\ To(at)
    BY <1>6 DEF CheckFails, SettleFails
  <2>2. request'[q].at = "error" /\ \A r \in Requests : r # q => request'[r] = request[r]
    BY <1>1, <2>1
  <2>3. InFlight(q) BY <2>1 DEF InFlight
  <2>4. Went(q) BY <2>1, <2>2, <2>3 DEF Went
  <2>5. \A p \in Payments : p # Payment(q) => settledAt'[p] = settledAt[p]
    BY <1>6, KeyTypes DEF CheckFails, SettleFails, Types
  <2>6. SettledNow(Payment(q)) BY <2>2, <2>3 DEF SettledNow
  <2> QED BY <2>1, <2>2, <2>4, <2>5, <2>6
<1>7. CASE Settle(q)
  <2> DEFINE at == "record"
  <2>1. request[q].at = "settle" /\ faults' = faults /\ To(at) BY <1>7 DEF Settle
  <2>2. request'[q].at = "record" /\ \A r \in Requests : r # q => request'[r] = request[r]
    BY <1>1, <2>1
  <2>3. InFlight(q) BY <2>1 DEF InFlight
  <2>4. Went(q) BY <2>1, <2>2, <2>3 DEF Went
  <2>5. \A p \in Payments : p # Payment(q) => settledAt'[p] = settledAt[p]
    BY <1>7, KeyTypes DEF Settle, Types
  <2>6. SettledNow(Payment(q)) BY <2>2, <2>3 DEF SettledNow
  <2> QED BY <2>1, <2>2, <2>4, <2>5, <2>6
<1>8. CASE Refuse(q)
  <2> DEFINE at == "refused"
  <2>1. To(at) /\ UNCHANGED <<settledAt, faults>> /\ request[q].at = "settle"
    BY <1>8 DEF Refuse, Answered
  <2>2. at \notin {"unsent", "error", "dropped"} /\ InFlight(q) BY <2>1 DEF InFlight
  <2> HIDE DEF at
  <2> QED BY <1>2, <2>1, <2>2
<1>9. CASE Record(q)
  <2> DEFINE at == "served"
  <2>1. To(at) /\ UNCHANGED <<settledAt, faults>> /\ request[q].at = "record" BY <1>9 DEF Record
  <2>2. at \notin {"unsent", "error", "dropped"} /\ at = "served" /\ InFlight(q)
    BY <2>1 DEF InFlight
  <2> HIDE DEF at
  <2> QED BY <1>2, <2>1, <2>2
<1> QED BY <1>3, <1>4, <1>5, <1>6, <1>7, <1>8, <1>9 DEF Serve

\* A request that a step sends: a stray of what was sent, or the next attempt.
SentNow(r) ==
  \/ r \in Strays /\ Sent(r)
  \/ \E c \in Calls : r = <<c, tries'[c]>> /\ tries'[c] > tries[c]

\* What any step does to the requests and to the chain.
LEMMA StepMoves ==
  ASSUME MInv, Next
  PROVE  /\ faults' \in {faults, faults + 1}
         /\ \A r \in Requests :
              Went(r) /\ (request[r].at = "unsent" /\ request'[r].at # "unsent" => SentNow(r))
         /\ \A p \in Payments : settledAt'[p] = settledAt[p] \/ SettledNow(p)
<1> DEFINE Goal == /\ faults' \in {faults, faults + 1}
                   /\ \A r \in Requests :
                        Went(r) /\ (request[r].at = "unsent" /\ request'[r].at # "unsent" => SentNow(r))
                   /\ \A p \in Payments : settledAt'[p] = settledAt[p] \/ SettledNow(p)
<1>1. Types /\ faults \in Nat /\ TriesOK BY DEF MInv, PInv, IInv
<1>2. UNCHANGED <<request, settledAt>> /\ faults' \in {faults, faults + 1} => Goal BY DEF Went
<1>3. ASSUME NEW c \in Calls, Plan(c) \/ Free(c) \/ Unpayable(c) \/ Paid(c) \/ Rejected(c) PROVE Goal
  BY <1>2, <1>3 DEF Plan, Free, Unpayable, Paid, Rejected, replayVars
<1>4. ASSUME NEW c \in Calls, LoseAnswer(c) \/ Unreadable(c) PROVE Goal
  BY <1>2, <1>4 DEF LoseAnswer, Unreadable
<1>5. ASSUME NEW q \in Requests, Receive(q) \/ Serve(q), request[q].at = "unsent" => SentNow(q)
      PROVE Goal
  <2>1. \A r \in Requests : r # q => Went(r) BY <1>1, <1>5, RequestMoves DEF Went
  <2> QED BY <1>1, <1>5, <2>1, RequestMoves
<1>6. ASSUME NEW c \in Calls, Pay(c) PROVE Goal
  <2>1. tries'[c] = 1 /\ tries[c] = 0 BY <1>1, <1>6 DEF Pay, TriesOK
  <2>2. SentNow(<<c, 1>>) BY <2>1 DEF SentNow
  <2> QED BY <1>5, <1>6, <2>2, FirstRequest DEF Pay
<1>7. ASSUME NEW c \in Calls, Retry(c) PROVE Goal
  <2>1. tries'[c] = tries[c] + 1 /\ tries[c] \in Nat BY <1>1, <1>7, LastRequest DEF Retry, TriesOK
  <2>2. SentNow(<<c, tries[c] + 1>>) BY <2>1 DEF SentNow
  <2> QED BY <1>1, <1>5, <1>7, <2>2, LastRequest DEF Retry
<1>8. ASSUME NEW q \in Requests, Provide(q) PROVE Goal
  <2>1. Serve(q) /\ request[q].at # "unsent"
    BY <1>8 DEF Provide, Serve, LookUp, Claim, CheckFails, Settle, Refuse, SettleFails, Record
  <2> QED BY <1>5, <2>1
<1>9. ASSUME NEW q \in Strays, Stray(q) PROVE Goal
  BY <1>5, <1>9, PaymentAssumption DEF Stray, SentNow
<1>10. ASSUME NEW k \in Keys, Outdate(k) PROVE Goal
  BY <1>2, <1>10 DEF Outdate, Age, Sweep
<1>11. CASE Restart
  <2>1. faults' = faults + 1 /\ UNCHANGED settledAt BY <1>11 DEF Restart
  <2>2. ASSUME NEW r \in Requests PROVE request'[r].at = IF InFlight(r) THEN "dropped" ELSE request[r].at
    BY <1>1, <1>11 DEF Restart, Types
  <2>3. ASSUME NEW r \in Requests PROVE Went(r) /\ (request[r].at = "unsent" => request'[r].at = "unsent")
    <3>1. CASE InFlight(r)
      <4>1. request[r].at # "unsent" BY <3>1 DEF InFlight
      <4> QED BY <1>1, <2>1, <2>2, <3>1, <4>1 DEF Went
    <3>2. CASE ~InFlight(r) BY <2>2, <3>2 DEF Went
    <3> QED BY <3>1, <3>2
  <2> QED BY <2>1, <2>3
<1> QED BY <1>3, <1>4, <1>6, <1>7, <1>8, <1>9, <1>10, <1>11 DEF Next

\* What a step may do for a call.
Stays(c) == tries'[c] = tries[c] /\ call'[c] = call[c] /\ (c \in lost' <=> c \in lost)
Sends(c) ==
  /\ call[c].st = "pay" /\ call'[c] = call[c] /\ tries'[c] = tries[c] + 1 /\ c \notin lost'
  /\ tries[c] > 0 => Unheard(c)
  /\ tries'[c] \in Attempts /\ request'[<<c, tries'[c]>>].at = "get"
Loses(c) ==
  tries'[c] = tries[c] /\ tries[c] > 0 /\ call'[c] = call[c] /\ c \in lost' /\ faults' = faults + 1
Ends(c) ==
  /\ tries'[c] = tries[c] /\ (c \in lost' <=> c \in lost) /\ call'[c].mode = call[c].mode
  /\ UNCHANGED request
  /\ \/ tries[c] = 0
     \/ call'[c].st = "kept"
     \/ call[c].st = "release" /\ call'[c].st = "released"
     \/ /\ call'[c].st = "release"
        /\ \/ Unheard(c) /\ (call[c].mode # "x402" \/ tries[c] = MaxAttempts)
           \/ Answer(c) = "served" /\ faults' = faults + 1
           \/ Answer(c) \in {"spent", "refused"}

\* A step of the ledger's client.
LEMMA PlanMoves ==
  ASSUME MInv, OneDay', SameCalls, NEW d \in Calls, Plan(d), NEW c \in Calls
  PROVE  Stays(c) \/ Ends(c)
<1>1. UNCHANGED <<request, tries, lost>> BY DEF Plan, replayVars, clientVars
<1>2. LedgerTypeOK /\ GivesUpUnpaid(d) BY DEF MInv, LedgerInv, CallInv
<1>3. call'[c].mode = call[c].mode BY DEF SameCalls
<1>4. CASE tries[c] = 0 BY <1>1, <1>3, <1>4 DEF Ends
<1>5. CASE tries[c] # 0 /\ c = d
  <2>1. tries[c] > 0
    <3>1. TriesOK BY DEF MInv, PInv
    <3>2. tries[c] \in Nat BY <3>1, LastRequest
    <3> QED BY <1>5, <3>2
  <2>2. call[c].st \in {"pay", "kept", "release", "released"} BY <1>2, <1>5, <2>1 DEF GivesUpUnpaid
  <2>3. CASE LockAndRead(d) BY <1>1, <2>3 DEF LockAndRead, Stays
  <2>4. CASE StoreThrows(d)
    <3>1. call[c].st = "release" BY <1>5, <2>2, <2>4 DEF StoreThrows
    <3>2. call'[c].st = "kept" BY <1>2, <1>5, <2>4, <3>1 DEF StoreThrows, Goto, LedgerTypeOK
    <3> QED BY <1>1, <1>3, <3>2 DEF Ends
  <2>5. CASE Release(d)
    <3>1. call[c].st = "release" /\ call'[c].st \in {"released", "late", "missed"}
      BY <1>2, <1>5, <2>5 DEF Release, Goto, LedgerTypeOK
    <3>2. call'[c].st = "released" BY <3>1 DEF OneDay
    <3> QED BY <1>1, <1>3, <3>1, <3>2 DEF Ends
  <2> QED BY <1>5, <2>2, <2>3, <2>4, <2>5 DEF Plan, RefuseEarly, Begin, Reserve
<1>6. CASE c # d
  <2>1. call'[c] = call[c]
    <3>1. \A st : Goto(d, st) => call'[c] = call[c] BY <1>2, <1>6 DEF Goto, LedgerTypeOK
    <3>2. CASE Reserve(d) BY <1>2, <1>6, <3>1, <3>2 DEF Reserve, LedgerTypeOK
    <3>3. CASE Release(d) BY <1>2, <1>6, <3>1, <3>3 DEF Release, LedgerTypeOK
    <3>4. CASE RefuseEarly(d) \/ Begin(d) \/ StoreThrows(d) \/ LockAndRead(d)
      BY <3>1, <3>4 DEF RefuseEarly, Begin, StoreThrows, LockAndRead
    <3> QED BY <3>2, <3>3, <3>4 DEF Plan
  <2> QED BY <1>1, <2>1 DEF Stays
<1> QED BY <1>4, <1>5, <1>6

\* A step that ends a call's payment.
LEMMA EndMoves ==
  ASSUME MInv, SameCalls, NEW d \in Calls, NEW c \in Calls,
         Free(d) \/ Unpayable(d) \/ Paid(d) \/ Rejected(d) \/ Unreadable(d)
  PROVE  Stays(c) \/ Ends(c)
<1>1. UNCHANGED <<request, tries, lost>>
  BY DEF Free, Unpayable, Paid, Rejected, Unreadable, replayVars, clientVars
<1>2. LedgerTypeOK BY DEF MInv, LedgerInv
<1>3. call'[c].mode = call[c].mode BY DEF SameCalls
<1>4. ASSUME NEW st, Goto(d, st) PROVE call'[d].st = st /\ (c # d => call'[c] = call[c])
  BY <1>2, <1>4 DEF Goto, LedgerTypeOK
<1>5. CASE c # d
  <2>1. call'[c] = call[c]
    BY <1>4, <1>5 DEF Free, Unpayable, Paid, Rejected, Unreadable, Commit, GiveUp
  <2> QED BY <1>1, <2>1 DEF Stays
<1>6. CASE c = d /\ (Free(d) \/ Unpayable(d))
  BY <1>1, <1>3, <1>6 DEF Free, Unpayable, Ends
<1>7. CASE c = d /\ Paid(d)
  <2>1. call'[c].st = "kept" BY <1>4, <1>7 DEF Paid, Commit
  <2> QED BY <1>1, <1>3, <2>1 DEF Ends
<1>8. CASE c = d /\ Rejected(d)
  <2>1. call'[c].st = "release" BY <1>4, <1>8 DEF Rejected, GiveUp
  <2>2. \/ Unheard(c) /\ (call[c].mode # "x402" \/ tries[c] = MaxAttempts)
        \/ Answer(c) \in {"spent", "refused"}
    BY <1>8 DEF Rejected, Unanswered, Unheard
  <2> QED BY <1>1, <1>3, <2>1, <2>2 DEF Ends
<1>9. CASE c = d /\ Unreadable(d)
  <2>1. call'[c].st = "release" BY <1>4, <1>9 DEF Unreadable, GiveUp
  <2>2. Answer(c) = "served" /\ faults' = faults + 1 BY <1>9 DEF Unreadable
  <2> QED BY <1>1, <1>3, <2>1, <2>2 DEF Ends
<1> QED BY <1>5, <1>6, <1>7, <1>8, <1>9

\* What any step does for a call.
LEMMA StepOfCall ==
  ASSUME MInv, OneDay', SameCalls, Next, NEW c \in Calls
  PROVE  Stays(c) \/ Sends(c) \/ Loses(c) \/ Ends(c)
<1>1. Types /\ TriesOK BY DEF MInv, PInv, IInv
<1>2. UNCHANGED <<tries, lost, call>> => Stays(c) BY DEF Stays
<1>3. ASSUME NEW d \in Calls, LoseAnswer(d) PROVE Stays(c) \/ Loses(c)
  <2>1. /\ UNCHANGED <<tries, call>> /\ lost' = lost \cup {d} /\ faults' = faults + 1 /\ tries[d] > 0
    BY <1>3 DEF LoseAnswer, Waiting, ledgerVars
  <2> QED BY <2>1 DEF Stays, Loses
<1>4. ASSUME NEW d \in Calls, Pay(d) PROVE Stays(c) \/ Sends(c)
  <2>1. /\ UNCHANGED <<call, lost>> /\ call[d].st = "pay" /\ tries[d] = 0
        /\ tries' = [tries EXCEPT ![d] = 1] /\ request' = [request EXCEPT ![<<d, 1>>].at = "get"]
    BY <1>4 DEF Pay, Receive, Answered, ledgerVars
  <2>2. CASE c # d
    <3>1. tries'[c] = tries[c] BY <1>1, <2>1, <2>2 DEF TriesOK
    <3> QED BY <2>1, <3>1 DEF Stays
  <2>3. CASE c = d
    <3>1. tries'[c] = 1 BY <1>1, <2>1, <2>3 DEF TriesOK
    <3>2. request'[<<c, 1>>].at = "get" BY <1>1, <2>1, <2>3, FirstRequest DEF Types
    <3>3. c \notin lost BY <2>1, <2>3 DEF MInv, CallInv, FaultPerAttempt
    <3> QED BY <2>1, <2>3, <3>1, <3>2, <3>3, FirstRequest DEF Sends
  <2> QED BY <2>2, <2>3
<1>5. ASSUME NEW d \in Calls, Retry(d) PROVE Stays(c) \/ Sends(c)
  <2>1. /\ UNCHANGED call /\ call[d].st = "pay" /\ lost' = lost \ {d} /\ Unheard(d)
        /\ tries[d] < MaxAttempts /\ tries' = [tries EXCEPT ![d] = tries[d] + 1]
        /\ request' = [request EXCEPT ![<<d, tries[d] + 1>>].at = "get"]
    BY <1>5 DEF Retry, Unanswered, Waiting, Unheard, Receive, Answered, ledgerVars
  <2>2. CASE c # d
    <3>1. tries'[c] = tries[c] BY <1>1, <2>1, <2>2 DEF TriesOK
    <3> QED BY <2>1, <2>2, <3>1 DEF Stays
  <2>3. CASE c = d
    <3>1. tries'[c] = tries[c] + 1 BY <1>1, <2>1, <2>3 DEF TriesOK
    <3>2. tries[c] + 1 \in Attempts /\ <<c, tries[c] + 1>> \in Requests
      BY <1>1, <2>1, <2>3, LastRequest
    <3>3. request'[<<c, tries[c] + 1>>].at = "get" BY <1>1, <2>1, <2>3, <3>2 DEF Types
    <3> QED BY <2>1, <2>3, <3>1, <3>2, <3>3 DEF Sends
  <2> QED BY <2>2, <2>3
<1>6. ASSUME NEW q \in Requests, Provide(q) PROVE Stays(c)
  BY <1>2, <1>6 DEF Provide, ledgerVars, clientVars
<1>7. ASSUME NEW q \in Strays, Stray(q) PROVE Stays(c) BY <1>2, <1>7 DEF Stray, ledgerVars, clientVars
<1>8. ASSUME NEW k \in Keys, Outdate(k) PROVE Stays(c) BY <1>2, <1>8 DEF Outdate, ledgerVars, clientVars
<1>9. UNCHANGED <<ledgerVars, clientVars>> => Stays(c) BY <1>2 DEF ledgerVars, clientVars
<1> QED BY <1>3, <1>4, <1>5, <1>6, <1>7, <1>8, <1>9, PlanMoves, EndMoves DEF Next

\* Requests are still sent only as attempts and strays.
LEMMA StepSentOnly ==
  ASSUME MInv, OneDay', SameCalls, Next
  PROVE  SentOnly'
<1> SUFFICES ASSUME NEW q \in Requests, request'[q].at # "unsent"
             PROVE  /\ Sent(q)'
                    /\ q \in Strays \/ \E c \in Calls, n \in Attempts : q = <<c, n>> /\ n <= tries'[c]
  BY DEF SentOnly
<1>1. \A c \in Calls : tries[c] \in Nat /\ tries'[c] \in Nat /\ tries'[c] >= tries[c]
  <2>1. TriesOK /\ TriesOK' BY StepTries DEF MInv, PInv
  <2> SUFFICES ASSUME NEW c \in Calls PROVE tries[c] \in Nat /\ tries'[c] \in Nat /\ tries'[c] >= tries[c]
    OBVIOUS
  <2>2. tries[c] \in 0..MaxAttempts /\ tries'[c] \in 0..MaxAttempts /\ MaxAttempts \in Nat
    BY <2>1, PaymentAssumption DEF TriesOK
  <2>3. tries'[c] \in {tries[c], tries[c] + 1} BY StepOfCall DEF Stays, Sends, Loses, Ends
  <2> QED BY <2>2, <2>3
<1>2. Payment(q)' = Payment(q) BY StepPayments DEF MInv
<1>3. Sent(q) => Sent(q)' BY <1>1, <1>2 DEF Sent, Signed
<1>4. CASE request[q].at # "unsent"
  <2>1. Sent(q) /\ (q \in Strays \/ \E c \in Calls, n \in Attempts : q = <<c, n>> /\ n <= tries[c])
    BY <1>4 DEF MInv, SentOnly
  <2>2. ASSUME NEW c \in Calls, NEW n \in Attempts, n <= tries[c] PROVE n <= tries'[c]
    <3>1. n \in Nat BY PaymentAssumption DEF Attempts
    <3> QED BY <1>1, <2>2, <3>1
  <2> QED BY <1>3, <2>1, <2>2
<1>5. CASE request[q].at = "unsent"
  <2>1. SentNow(q) BY <1>5, StepMoves
  <2>2. ASSUME NEW c \in Calls, q = <<c, tries'[c]>>, tries'[c] > tries[c]
        PROVE Sent(q)' /\ \E d \in Calls, n \in Attempts : q = <<d, n>> /\ n <= tries'[d]
    <3>1. TriesOK' BY StepTries DEF MInv, PInv
    <3>2. tries'[c] > 0 /\ tries'[c] \in Attempts
      BY <1>1, <2>2, <3>1, PaymentAssumption DEF TriesOK, Attempts
    <3>3. Payment(q) = <<c, 1>> BY <2>2, <3>2 DEF MInv, Carries
    <3>4. Sent(q)' BY <1>2, <3>2, <3>3 DEF Sent, Signed
    <3> QED BY <1>1, <2>2, <3>2, <3>4
  <2> QED BY <1>3, <2>1, <2>2 DEF SentNow
<1> QED BY <1>4, <1>5

\* The call's last request ends where it ended, and its end is heard unless a fault
\* comes between.
LEMMA AnswerStays ==
  ASSUME MInv, Next, NEW c \in Calls, tries'[c] = tries[c], tries[c] > 0,
         \/ c \in lost' <=> c \in lost
         \/ faults' = faults + 1
  PROVE  /\ Answer(c) \in {"served", "spent", "refused"} => Answer(c)' = Answer(c)
         /\ Unheard(c)' => Unheard(c) \/ faults' >= faults + 1
         /\ Unheard(c) /\ (c \in lost => c \in lost') => Unheard(c)'
<1>1. <<c, tries[c]>> \in Requests BY LastRequest DEF MInv, PInv
<1>2. Went(<<c, tries[c]>>) BY <1>1, StepMoves
<1>3. Answer(c)' = request'[<<c, tries[c]>>].at /\ Answer(c) = request[<<c, tries[c]>>].at BY DEF Answer
<1>4. faults \in Nat BY DEF MInv
<1>5. \/ Answer(c)' = Answer(c)
      \/ Answer(c) = "unsent" /\ Answer(c)' = "get"
      \/ Answer(c) \in {"get", "claim", "settle", "record"}
         /\ (Answer(c)' \in {"error", "dropped"} => faults' >= faults + 1)
  BY <1>2, <1>3 DEF Went, InFlight
<1>6. faults' = faults + 1 => faults' >= faults + 1 BY <1>4
<1> HIDE DEF Answer
<1> QED BY <1>5, <1>6 DEF Unheard

\* Every attempt that fails is a fault of its own.
LEMMA StepFaults ==
  ASSUME MInv, OneDay', SameCalls, Next, NEW c \in Calls
  PROVE  FaultPerAttempt(c)'
<1>1. /\ faults \in Nat /\ faults' \in {faults, faults + 1} /\ faults' \in Nat
      /\ tries[c] \in Nat /\ FaultPerAttempt(c)
  <2>1. TriesOK /\ faults \in Nat BY DEF MInv, PInv
  <2>2. faults' \in {faults, faults + 1} BY StepMoves
  <2>3. tries[c] \in Nat BY <2>1, LastRequest
  <2> QED BY <2>1, <2>2, <2>3 DEF MInv, CallInv
<1>2. faults' >= faults BY <1>1
<1>3. CASE Sends(c)
  <2>1. Answer(c)' = "get" BY <1>3 DEF Sends, Answer
  <2>2. ~Unheard(c)' BY <1>3, <2>1 DEF Sends, Unheard
  <2>3. tries'[c] = tries[c] + 1 /\ (tries[c] > 0 => faults >= tries[c])
    BY <1>1, <1>3 DEF Sends, FaultPerAttempt
  <2> QED BY <1>1, <1>2, <2>2, <2>3 DEF FaultPerAttempt
<1>4. CASE tries'[c] = tries[c] /\ tries[c] = 0 /\ (c \in lost' <=> c \in lost)
  BY <1>1, <1>4 DEF FaultPerAttempt
<1>5. CASE tries'[c] = tries[c] /\ tries[c] > 0 /\ ((c \in lost' <=> c \in lost) \/ faults' = faults + 1)
  <2>1. Unheard(c)' => Unheard(c) \/ faults' >= faults + 1 BY <1>5, AnswerStays
  <2>2. faults >= tries[c] - 1 /\ (Unheard(c) => faults >= tries[c]) BY <1>1, <1>5 DEF FaultPerAttempt
  <2>3. Unheard(c)' => faults' >= tries[c] BY <1>1, <1>2, <2>1, <2>2
  <2>4. faults' >= tries[c] - 1 BY <1>1, <1>2, <2>2
  <2> QED BY <1>5, <2>3, <2>4 DEF FaultPerAttempt
<1> QED BY <1>1, <1>3, <1>4, <1>5, StepOfCall DEF Stays, Loses, Ends

\* A stray that was sent stays sent.
LEMMA StepStrayed ==
  ASSUME MInv, Next, NEW c \in Calls, Strayed(c)
  PROVE  Strayed(c)'
<1>1. PICK q \in Strays : request[q].at # "unsent" /\ Payment(q) = <<c, 1>> BY DEF Strayed, Signed
<1>2. q \in Requests BY PaymentAssumption
<1>3. request'[q].at # "unsent" BY <1>1, <1>2, StepMoves DEF Went
<1>4. Payment(q)' = <<c, 1>> BY <1>1, <1>2, StepPayments DEF MInv
<1> QED BY <1>3, <1>4 DEF Strayed, Signed

\* A payment is settled by a request that its call sent, or by a stray of one.
LEMMA StepSettles ==
  ASSUME MInv, OneDay', SameCalls, Next, NEW c \in Calls
  PROVE  FirstSettles(c)'
<1> DEFINE Places1 == {"record", "served", "error", "dropped"}
<1> SUFFICES ASSUME settledAt'[<<c, 1>>] # Nowhere
             PROVE  tries'[c] > 0 /\ (tries'[c] > 1 \/ Strayed(c)' \/ request'[<<c, 1>>].at \in Places1)
  BY DEF FirstSettles
<1>1. tries[c] \in Nat /\ tries'[c] \in {tries[c], tries[c] + 1}
  BY StepOfCall, LastRequest DEF MInv, PInv, Stays, Sends, Loses, Ends
<1>2. CASE settledAt[<<c, 1>>] # Nowhere
  <2>1. tries[c] > 0 /\ (tries[c] > 1 \/ Strayed(c) \/ request[<<c, 1>>].at \in Places1)
    BY <1>2 DEF MInv, CallInv, FirstSettles
  <2>2. Went(<<c, 1>>) BY StepMoves, FirstRequest
  <2>3. request[<<c, 1>>].at \in Places1 => request'[<<c, 1>>].at \in Places1
    BY <2>2 DEF Went, InFlight
  <2> QED BY <1>1, <2>1, <2>3, StepStrayed
<1>3. CASE settledAt[<<c, 1>>] = Nowhere
  <2>1. SettledNow(<<c, 1>>) BY <1>3, StepMoves, FirstRequest
  <2>2. PICK r \in Requests : InFlight(r) /\ Payment(r) = <<c, 1>> /\ request'[r].at \in {"record", "error"}
    BY <2>1 DEF SettledNow
  <2>3. request[r].at # "unsent" BY <2>2 DEF InFlight
  <2>4. Sent(r) /\ (r \in Strays \/ \E d \in Calls, n \in Attempts : r = <<d, n>> /\ n <= tries[d])
    BY <2>3 DEF MInv, SentOnly
  <2>5. tries[c] > 0 BY <2>2, <2>4 DEF Sent, Signed
  <2>6. CASE r \in Strays
    <3>1. Strayed(c) BY <2>2, <2>3, <2>6 DEF Strayed, Signed
    <3> QED BY <1>1, <2>5, <3>1, StepStrayed
  <2>7. ASSUME NEW d \in Calls, NEW n \in Attempts, r = <<d, n>>, n <= tries[d]
        PROVE tries'[c] > 0 /\ (tries'[c] > 1 \/ request'[<<c, 1>>].at \in Places1)
    <3>1. d = c BY <2>2, <2>7 DEF MInv, Carries
    <3>2. n \in Nat /\ n > 0 BY PaymentAssumption DEF Attempts
    <3>3. n = 1 \/ tries[c] > 1 BY <1>1, <2>7, <3>1, <3>2
    <3> QED BY <1>1, <2>2, <2>5, <2>7, <3>1, <3>3
  <2> QED BY <2>4, <2>6, <2>7
<1> QED BY <1>2, <1>3

\* A call gives up only when it has not been paid for.
LEMMA StepGivesUp ==
  ASSUME MInv, OneDay', SameCalls, Next, NEW c \in Calls
  PROVE  GivesUpUnpaid(c)'
<1>1. /\ faults \in Nat /\ faults' \in {faults, faults + 1} /\ faults' \in Nat
      /\ tries[c] \in Nat /\ FaultPerAttempt(c) /\ GivesUpUnpaid(c)
  <2>1. TriesOK /\ faults \in Nat BY DEF MInv, PInv
  <2>2. faults' \in {faults, faults + 1} BY StepMoves
  <2>3. tries[c] \in Nat BY <2>1, LastRequest
  <2> QED BY <2>1, <2>2, <2>3 DEF MInv, CallInv
<1>2. faults' >= faults BY <1>1
<1>3. CASE Sends(c) BY <1>3 DEF Sends, GivesUpUnpaid
<1>4. CASE tries'[c] = tries[c] /\ tries[c] = 0 BY <1>4 DEF GivesUpUnpaid
<1>5. CASE (Stays(c) \/ Loses(c)) /\ tries[c] > 0
  <2>1. tries'[c] = tries[c] /\ call'[c] = call[c] BY <1>5 DEF Stays, Loses
  <2>2. c \in lost => c \in lost' BY <1>5 DEF Stays, Loses
  <2>3. (c \in lost' <=> c \in lost) \/ faults' = faults + 1 BY <1>5 DEF Stays, Loses
  <2>4. /\ Answer(c) \in {"served", "spent", "refused"} => Answer(c)' = Answer(c)
        /\ Unheard(c) => Unheard(c)'
    BY <1>5, <2>1, <2>2, <2>3, AnswerStays
  <2>5. faults >= tries[c] => faults' >= tries[c] BY <1>1, <1>2
  <2> HIDE DEF Answer, Unheard
  <2> QED BY <1>1, <1>5, <2>1, <2>4, <2>5 DEF GivesUpUnpaid
<1>6. CASE Ends(c) /\ tries[c] > 0
  <2>1. /\ tries'[c] = tries[c] /\ (c \in lost' <=> c \in lost) /\ call'[c].mode = call[c].mode
        /\ UNCHANGED request
    BY <1>6 DEF Ends
  <2>2. Answer(c)' = Answer(c) BY <2>1 DEF Answer
  <2>3. Unheard(c)' <=> Unheard(c) BY <2>1, <2>2 DEF Unheard
  <2>4. faults' = faults + 1 => faults' >= tries[c] BY <1>1, <1>6 DEF FaultPerAttempt
  <2>5. faults >= tries[c] => faults' >= tries[c] BY <1>1, <1>2
  <2> HIDE DEF Answer, Unheard
  <2> QED BY <1>1, <1>6, <2>1, <2>2, <2>3, <2>4, <2>5 DEF Ends, GivesUpUnpaid
<1> QED BY <1>1, <1>3, <1>4, <1>5, <1>6, StepOfCall DEF Stays, Loses, Ends

\* Every step keeps the invariant.
LEMMA StepMInv == MInv /\ [Next]_vars => MInv'
<1> SUFFICES ASSUME MInv, [Next]_vars PROVE MInv' OBVIOUS
<1>1. PInv' BY StepPInv DEF MInv
<1>2. [LedgerNext]_ledgerVars BY StepsOfLedger DEF vars
<1>3. LedgerInv' BY <1>2, StepLedgerInv DEF MInv
<1>4. SameCalls BY <1>2, StepSameCalls DEF MInv, LedgerInv
<1>5. AskedIsReserved' BY <1>4, StepAsked DEF MInv, LedgerInv
<1>6. Carries' BY StepCarries DEF MInv
<1>7. CASE Next
  <2>1. OneDay' BY <1>3, <1>7, StepOneDay DEF MInv, LedgerInv
  <2>2. faults' \in Nat BY <1>7, StepMoves DEF MInv
  <2>3. SentOnly' BY <1>4, <1>7, <2>1, StepSentOnly
  <2>4. ASSUME NEW c \in Calls PROVE CallInv(c)'
    BY <1>4, <1>7, <2>1, StepFaults, StepSettles, StepGivesUp DEF CallInv
  <2> QED BY <1>1, <1>3, <1>5, <1>6, <2>1, <2>2, <2>3, <2>4 DEF MInv
<1>8. CASE UNCHANGED vars
  <2>1. UNCHANGED <<day, ledger, call, request, settledAt, faults, tries, lost>>
    BY <1>8 DEF vars, ledgerVars, replayVars, clientVars
  <2>2. OneDay' BY <2>1 DEF MInv, OneDay
  <2>3. SentOnly' BY <2>1 DEF MInv, SentOnly, Sent, Payment, Key
  <2>4. ASSUME NEW c \in Calls PROVE CallInv(c)'
    BY <2>1 DEF MInv, CallInv, FaultPerAttempt, FirstSettles, GivesUpUnpaid, Unheard, Answer,
                Strayed, Payment, Key
  <2> QED BY <1>1, <1>3, <1>5, <1>6, <2>1, <2>2, <2>3, <2>4 DEF MInv
<1> QED BY <1>7, <1>8

\* A call whose payment settled gave its reservation back only if it was disturbed.
LEMMA BackIsDisturbed ==
  ASSUME MInv, NEW c \in Calls, settledAt[<<c, 1>>] # Nowhere, GivenBack(c)
  PROVE  Disturbed(c)
<1>1. /\ tries[c] \in Nat /\ faults \in Nat /\ MaxAttempts \in Nat
      /\ FaultPerAttempt(c) /\ FirstSettles(c) /\ GivesUpUnpaid(c)
  BY LastRequest, PaymentAssumption DEF MInv, PInv, CallInv
<1>2. tries[c] > 0 /\ (tries[c] > 1 \/ Strayed(c) \/ request[<<c, 1>>].at \in {"record", "served", "error", "dropped"})
  BY <1>1 DEF FirstSettles
<1>3. call[c].st \in {"release", "released"} BY DEF GivenBack, MInv, OneDay
<1>4. \/ Unheard(c) /\ (call[c].mode # "x402" \/ tries[c] = MaxAttempts)
      \/ Answer(c) = "served" /\ faults >= tries[c]
      \/ Answer(c) \in {"spent", "refused"}
  BY <1>1, <1>2, <1>3 DEF GivesUpUnpaid
<1>5. CASE Unheard(c) /\ (call[c].mode # "x402" \/ tries[c] = MaxAttempts)
  <2>1. faults >= tries[c] BY <1>1, <1>2, <1>5 DEF FaultPerAttempt
  <2> QED BY <1>5, <2>1 DEF Disturbed
<1>6. CASE Answer(c) = "served" /\ faults >= tries[c] BY <1>6 DEF Disturbed
<1>7. CASE Answer(c) \in {"spent", "refused"}
  <2>1. tries[c] = 1 => Strayed(c) BY <1>2, <1>7 DEF Answer
  <2>2. faults >= tries[c] - 1 BY <1>1, <1>2 DEF FaultPerAttempt
  <2>3. tries[c] = 1 \/ tries[c] > 1 BY <1>1, <1>2
  <2> QED BY <1>7, <2>1, <2>2, <2>3 DEF Disturbed
<1> QED BY <1>4, <1>5, <1>6, <1>7

\* What was moved, of calls that settled and did not give back, was reserved and is
\* counted today.
LEMMA InvMoves == MInv => MovedIsCounted
<1> SUFFICES ASSUME MInv PROVE MovedIsCounted OBVIOUS
<1> DEFINE S == {c \in Calls : Settled(c) /\ ~(GivenBack(c) /\ Disturbed(c))}
<1>1. LedgerTypeOK BY DEF MInv, LedgerInv
<1>2. LateCalls = {} BY DEF MInv, OneDay, LateCalls
<1>3. IsFiniteSet(Stroops(CountedCalls)) BY DEF MInv, LedgerInv, CountsFinite
<1>4. Cardinality(Stroops(CountedCalls)) \in Nat BY <1>3, FS_CardinalityType
<1>5. ledger.total = Cardinality(Stroops(CountedCalls))
  BY <1>2, <1>4, NoStroops DEF MInv, LedgerInv, LedgerIsExact
<1>6. ASSUME NEW c \in S PROVE c \in CountedCalls
  <2>1. settledAt[<<c, 1>>] # Nowhere BY FirstRequest DEF Settled, MInv, PInv, SignedOnce
  <2>2. ~GivenBack(c) BY <2>1, BackIsDisturbed
  <2>3. tries[c] > 0 BY <2>1 DEF MInv, CallInv, FirstSettles
  <2>4. call[c].st \in {"pay", "kept", "release"}
    BY <2>2, <2>3 DEF GivenBack, MInv, CallInv, GivesUpUnpaid
  <2> QED BY <2>4 DEF MInv, OneDay, CountedCalls
<1>7. MovedStroops(S) \in SUBSET Stroops(CountedCalls)
  <2>1. ASSUME NEW c \in Calls PROVE 1..asked[c] \subseteq 1..Amount(c)
    <3>1. asked[c] \in Nat /\ asked[c] <= Amount(c) /\ Amount(c) \in Nat
      BY <1>1, AmountIsNat DEF MInv, AskedIsReserved
    <3> QED BY <3>1
  <2>2. ASSUME NEW s \in MovedStroops(S) PROVE s \in Stroops(CountedCalls)
    <3>1. PICK c \in S : s \in {c} \X (1..asked[c]) BY <2>2 DEF MovedStroops
    <3>2. s \in {c} \X (1..Amount(c)) /\ c \in CountedCalls BY <1>6, <2>1, <3>1
    <3> QED BY <3>2 DEF Stroops
  <2> QED BY <2>2
<1>8. Cardinality(MovedStroops(S)) <= Cardinality(Stroops(CountedCalls)) BY <1>3, <1>7, FS_Subset
<1> QED BY <1>5, <1>8 DEF MovedIsCounted, Moved

\* For every number of calls, attempts and strays, whatever is lost, repeated, evicted
\* or restarted: the ledger counts what the chain moved for the calls, except for one
\* that gave its reservation back after being disturbed itself: by a stray, or by
\* a fault for each attempt that failed.
THEOREM MovedCounted == Spec => []MovedIsCounted
<1> QED BY InitMInv, StepMInv, InvMoves, PTL DEF Spec

\* The ledger is exact under the payments, retries and refusals that end in a
\* commit or a rollback.
THEOREM PaymentsExact == Spec => []LedgerIsExact
<1>1. MInv => LedgerIsExact BY DEF MInv, LedgerInv
<1> QED BY InitMInv, StepMInv, <1>1, PTL DEF Spec
=============================================================================
