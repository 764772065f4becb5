---------------------------- MODULE SpendLedger ----------------------------
(***************************************************************************)
(* The local spend cap of RouteDockClient (client/RouteDockClient.ts): the *)
(* calls of pay() and of the session's spend hook reserve against a daily  *)
(* total, and give the reservation back when the payment fails.            *)
(*                                                                         *)
(* A store with update() applies a call's function in one step; with read  *)
(* and write only, the client's mutex holds over both.  A call is reserved *)
(* for while it is in "pay", "release" or "kept".  A release is "missed"   *)
(* when no record of today is there to give back to, and "late" when the   *)
(* record it gives back to is of a later day than the reservation.         *)
(***************************************************************************)
EXTENDS Integers, FiniteSets

CONSTANTS
  Calls,           \* calls of pay(), and vouchers of openSession()'s spend hook
  Routes,          \* the origins paid, which are the keys of endpointCaps
  NoCap,
  Price,           \* of each mode
  DailyCap,
  EndpointCap,     \* of each route, or NoCap
  Stores,          \* kinds of store: "update" or "read-write"
  MaxDays          \* bound: days that pass

Modes == {"x402", "mpp-charge", "mpp-session"}

ASSUME LedgerAssumption ==
  /\ NoCap \notin Int
  /\ Price \in [Modes -> Nat] /\ DailyCap \in Nat
  /\ EndpointCap \in [Routes -> Nat \cup {NoCap}]
  /\ Stores \subseteq {"update", "read-write"} /\ MaxDays \in Nat

VARIABLES
  store,           \* which kind of store the client has
  day,             \* today
  ledger,          \* the stored DailySpend
  holding,         \* the call in the client's mutex, read-write stores only
  view,            \* what it read there
  call             \* what each call is doing, for which mode and route, reserved when

ledgerVars == <<store, day, ledger, holding, view, call>>

Days == 0..MaxDays
Ledgers == [date : Days, total : Int, endpoints : [Routes -> Int]]
Steps == {"idle", "reserve", "pay", "release", "kept", "released", "late", "missed", "failed"}

EmptyLedger(date) == [date |-> date, total |-> 0, endpoints |-> [r \in Routes |-> 0]]

LedgerInit ==
  /\ store \in Stores /\ day = 0
  /\ ledger = EmptyLedger(0) /\ holding = {} /\ view = [c \in Calls |-> EmptyLedger(0)]
  /\ call \in [Calls -> {[st |-> "idle", mode |-> m, route |-> r, on |-> 0] :
                            m \in Modes, r \in Routes}]

Amount(c) == Price[call[c].mode]
Goto(c, st) == call' = [call EXCEPT ![c].st = st]

----------------------------------------------------------------------------
\* The functions handed to the store

\* reserve: yesterday's record starts from nothing.
Today(prev) == IF prev.date = day THEN prev ELSE EmptyLedger(day)

WithinEndpointCap(c, prev) ==
  LET cap == EndpointCap[call[c].route] IN
  cap # NoCap => Today(prev).endpoints[call[c].route] + Amount(c) <= cap

\* Mutant: only what is already spent is compared.
WithinDailyCapSoFar(c, prev) == Today(prev).total < DailyCap

WithinDailyCap(c, prev) == Today(prev).total + Amount(c) <= DailyCap

Reserved(c, prev) ==
  [Today(prev) EXCEPT
     !.total = @ + Amount(c),
     !.endpoints[call[c].route] = IF EndpointCap[call[c].route] = NoCap THEN @ ELSE @ + Amount(c)]

\* release: whatever day the reservation was made on.
ReleasedFrom(c, prev) ==
  IF prev.date # day THEN prev
  ELSE [prev EXCEPT
          !.total = @ - Amount(c),
          !.endpoints[call[c].route] = IF @ <= Amount(c) THEN 0 ELSE @ - Amount(c)]

----------------------------------------------------------------------------
\* pay() up to the reservation: no cap for the asset, an endpoint or manifest
\* past its sunset, no trustline, a session mode.
RefuseEarly(c) ==
  /\ call[c].st = "idle"
  /\ Goto(c, "failed")
  /\ UNCHANGED <<store, day, ledger, holding, view>>

Begin(c) ==
  /\ call[c].st = "idle"
  /\ Goto(c, "reserve")
  /\ UNCHANGED <<store, day, ledger, holding, view>>

\* Mutant: the client's mutex is not waited for.
ReadAnyway(c) ==
  /\ store = "read-write" /\ c \notin holding
  /\ call[c].st \in {"reserve", "release"}
  /\ holding' = holding \cup {c} /\ view' = [view EXCEPT ![c] = ledger]
  /\ UNCHANGED <<store, day, ledger, call>>

\* _withSpendMutex and the read, for a store without update().
LockAndRead(c) ==
  /\ store = "read-write" /\ holding = {}
  /\ call[c].st \in {"reserve", "release"}
  /\ holding' = {c} /\ view' = [view EXCEPT ![c] = ledger]
  /\ UNCHANGED <<store, day, ledger, call>>

\* The state a call's function is applied to, once it is its turn.
Turn(c) == store = "update" \/ c \in holding
Prev(c) == IF store = "update" THEN ledger ELSE view[c]

Unlock(c) == holding' = holding \ {c} /\ view' = [view EXCEPT ![c] = EmptyLedger(0)]

\* Reserve, check both caps and write; a voucher's reservation is final.
Reserve(c) ==
  /\ call[c].st = "reserve" /\ Turn(c)
  /\ IF WithinEndpointCap(c, Prev(c)) /\ WithinDailyCap(c, Prev(c))
       THEN /\ ledger' = Reserved(c, Prev(c))
            /\ call' = [call EXCEPT ![c].on = day,
                          ![c].st = IF call[c].mode = "mpp-session" THEN "kept" ELSE "pay"]
       ELSE Goto(c, "failed") /\ UNCHANGED ledger
  /\ Unlock(c)
  /\ UNCHANGED <<store, day>>

\* _commitSpend: the reservation stands.
Commit(c) ==
  /\ call[c].st = "pay"
  /\ Goto(c, "kept")
  /\ UNCHANGED <<store, day, ledger, holding, view>>

\* The payment failed, or nothing was paid: _rollbackSpend is next.
GiveUp(c) ==
  /\ call[c].st = "pay"
  /\ Goto(c, "release")
  /\ UNCHANGED <<store, day, ledger, holding, view>>

Release(c) ==
  /\ call[c].st = "release" /\ Turn(c)
  /\ ledger' = ReleasedFrom(c, Prev(c))
  /\ \/ Prev(c).date # day /\ Goto(c, "missed")
     \/ Prev(c).date = day /\ call[c].on = day /\ Goto(c, "released")
     \/ Prev(c).date = day /\ call[c].on # day
        /\ call' = [call EXCEPT ![c].st = "late", ![c].on = day]
  /\ Unlock(c)
  /\ UNCHANGED <<store, day>>

\* A store that throws: nothing is reserved, or nothing is given back and the
\* reservation, no longer pending, stays.
StoreThrows(c) ==
  /\ call[c].st \in {"reserve", "release"} /\ Turn(c)
  /\ Goto(c, IF call[c].st = "reserve" THEN "failed" ELSE "kept")
  /\ Unlock(c)
  /\ UNCHANGED <<store, day, ledger>>

Midnight ==
  /\ day < MaxDays /\ day' = day + 1
  /\ UNCHANGED <<store, ledger, holding, view, call>>

\* Every step but the payment's own, which ends in Commit or GiveUp.
Bookkeeping(c) ==
  RefuseEarly(c) \/ Begin(c) \/ LockAndRead(c) \/ Reserve(c) \/ Release(c) \/ StoreThrows(c)

LedgerNext == Midnight \/ \E c \in Calls : Bookkeeping(c) \/ Commit(c) \/ GiveUp(c)

LedgerSpec == LedgerInit /\ [][LedgerNext]_ledgerVars

----------------------------------------------------------------------------
\* Types; who is in the mutex is alone there and writes over what it read.
LedgerTypeOK ==
  /\ store \in Stores /\ day \in Days
  /\ ledger \in Ledgers /\ view \in [Calls -> Ledgers] /\ holding \subseteq Calls
  /\ call \in [Calls -> [st : Steps, mode : Modes, route : Routes, on : Days]]
  /\ \A c \in holding :
       holding = {c} /\ store = "read-write" /\ call[c].st \in {"reserve", "release"} /\ view[c] = ledger

\* Neither recorded total ever passes its cap.
LedgerWithinCaps ==
  /\ ledger.total <= DailyCap
  /\ \A r \in Routes : EndpointCap[r] # NoCap => ledger.endpoints[r] <= EndpointCap[r]

\* The calls that the recorded day's totals count, and those that were given
\* back out of that day's record though they were reserved on an earlier one.
CountedCalls ==
  {c \in Calls : call[c].st \in {"pay", "release", "kept", "missed"} /\ call[c].on = ledger.date}
LateCalls == {c \in Calls : call[c].st = "late" /\ call[c].on = ledger.date}

OnRoute(S, r) == {c \in S : call[c].route = r}

\* The single stroops that the calls of a set cost: as many as their sum.
Stroops(S) == UNION {{c} \X (1..Amount(c)) : c \in S}

\* The recorded total is what the calls it counts cost, less what was released
\* late; an endpoint's total, which stops at 0, is exact while nothing of its
\* route was.  Concurrent calls miss none and count none twice.
LedgerIsExact ==
  /\ ledger.total = Cardinality(Stroops(CountedCalls)) - Cardinality(Stroops(LateCalls))
  /\ \A r \in Routes : EndpointCap[r] # NoCap /\ OnRoute(LateCalls, r) = {} =>
       ledger.endpoints[r] = Cardinality(Stroops(OnRoute(CountedCalls, r)))

\* The comment over the reservation in pay(): "no path can spend outside the
\* cap".  What is kept of one day's reservations is within that day's cap.
KeptWithinCap ==
  \A d \in Days :
    Cardinality(Stroops({c \in Calls : call[c].st = "kept" /\ call[c].on = d})) <= DailyCap
=============================================================================
