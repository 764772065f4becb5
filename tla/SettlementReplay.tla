-------------------------- MODULE SettlementReplay --------------------------
(***************************************************************************)
(* The provider's paid routes for x402 and mpp-charge                      *)
(* (provider/x402Handler.ts, MppChargeHandler.ts, hono.ts) over the store  *)
(* of settled payments (provider/SeenTxStore.ts and                        *)
(* store/SupabaseSeenTxStore.ts).                                          *)
(*                                                                         *)
(* A payment is what a client signed once; any request may carry it.  The  *)
(* idempotency key hashes the payment with the route it is used on.  The   *)
(* chain is the environment: it takes a payment once, because the nonce of *)
(* its authorisation is consumed, and its answer may be lost.              *)
(***************************************************************************)
EXTENDS Integers, Sequences

CONSTANTS
  Payments, Paths,
  Nowhere,         \* no path
  Requests,
  SeenStores,      \* kinds of store: "memory" or "supabase"
  MaxEntries,      \* of the store in memory
  MAX_SETTLEMENT_REPLAYS,
  MaxFaults        \* bound: lost answers, restarts, and errors of the store before settling

ASSUME ReplayAssumption ==
  /\ Nowhere \notin Paths
  /\ SeenStores \subseteq {"memory", "supabase"}
  /\ MaxEntries \in Nat \ {0} /\ MAX_SETTLEMENT_REPLAYS \in Nat /\ MaxFaults \in Nat

Keys == Payments \X Paths

VARIABLES
  seenStore,       \* which kind of store the routes have
  seen,            \* its entry for each key: "none", "fresh" or, past the window, "old"
  replays,         \* how often each entry was claimed
  order,           \* in memory: the keys in the order they came
  request,         \* where each request is, with which payment and path
  settledAt,       \* the chain: the path each payment was settled for
  served,          \* how often each key was let through to the route
  faults

replayVars == <<seenStore, seen, replays, order, request, settledAt, served, faults>>

Answers == {"served", "spent", "refused", "error"}
Places  == {"unsent", "get", "claim", "settle", "record", "dropped"} \cup Answers

ReplayInit ==
  /\ seenStore \in SeenStores
  /\ seen = [k \in Keys |-> "none"] /\ replays = [k \in Keys |-> 0] /\ order = <<>>
  /\ request \in [Requests -> {[at |-> "unsent", key |-> k] : k \in Keys}]
  /\ settledAt = [p \in Payments |-> Nowhere]
  /\ served = [k \in Keys |-> 0] /\ faults = 0

Key(q) == request[q].key
Payment(q) == Key(q)[1]

Answered(q, answer) ==
  /\ request' = [request EXCEPT ![q].at = answer]
  /\ UNCHANGED <<seenStore, seen, replays, order, settledAt, served, faults>>

----------------------------------------------------------------------------
\* Before settling: has this payment been settled on this route before?

Receive(q) == request[q].at = "unsent" /\ Answered(q, "get")

\* checkSettlementReplay: an entry past its window is spent without a claim.
LookUp(q) ==
  /\ request[q].at = "get"
  /\ Answered(q, CASE seen[Key(q)] = "none"  -> "settle"
                   [] seen[Key(q)] = "old"   -> "spent"
                   [] seen[Key(q)] = "fresh" -> "claim")

\* Mutant: the count before this claim is compared.
WithinReplaysSoFar(key) == seen[key] # "none" /\ replays[key] <= MAX_SETTLEMENT_REPLAYS

\* The count claimReplay() answers; an unknown key is beyond any count.
WithinReplays(key) == seen[key] # "none" /\ replays[key] + 1 <= MAX_SETTLEMENT_REPLAYS

\* A replay gets the recorded headers and the route, a spent payment a 402.
ReplayAnswer(key) == IF WithinReplays(key) THEN "served" ELSE "spent"

Claim(q) ==
  /\ request[q].at = "claim"
  /\ request' = [request EXCEPT ![q].at = ReplayAnswer(Key(q))]
  /\ replays' = IF seen[Key(q)] = "none" THEN replays ELSE [replays EXCEPT ![Key(q)] = @ + 1]
  /\ served' = IF WithinReplays(Key(q)) THEN [served EXCEPT ![Key(q)] = @ + 1] ELSE served
  /\ UNCHANGED <<seenStore, seen, order, settledAt, faults>>

\* A store that throws before the payment is settled: an error, not a 402.
CheckFails(q) ==
  /\ request[q].at \in {"get", "claim"} /\ faults < MaxFaults
  /\ request' = [request EXCEPT ![q].at = "error"] /\ faults' = faults + 1
  /\ UNCHANGED <<seenStore, seen, replays, order, settledAt, served>>

----------------------------------------------------------------------------
\* The facilitator and the chain

Settle(q) ==
  /\ request[q].at = "settle" /\ settledAt[Payment(q)] = Nowhere
  /\ request' = [request EXCEPT ![q].at = "record"]
  /\ settledAt' = [settledAt EXCEPT ![Payment(q)] = Key(q)[2]]
  /\ UNCHANGED <<seenStore, seen, replays, order, served, faults>>

\* Not verified, or not settled: 402 with fresh requirements.
Refuse(q) == request[q].at = "settle" /\ Answered(q, "refused")

\* The facilitator's answer is lost, the payment settled or not: 500.
SettleFails(q) ==
  /\ request[q].at = "settle" /\ faults < MaxFaults
  /\ request' = [request EXCEPT ![q].at = "error"]
  /\ settledAt' \in {settledAt, [settledAt EXCEPT ![Payment(q)] = IF @ = Nowhere THEN Key(q)[2] ELSE @]}
  /\ faults' = faults + 1
  /\ UNCHANGED <<seenStore, seen, replays, order, served>>

----------------------------------------------------------------------------
\* After it: record the settlement and let the request through

\* The oldest entry, when the store in memory is full.
Evicted == IF seenStore = "memory" /\ Len(order) >= MaxEntries THEN {Head(order)} ELSE {}

Stored(key) ==
  IF seen[key] # "none" THEN seen' = [seen EXCEPT ![key] = "fresh"] /\ UNCHANGED <<replays, order>>
  ELSE /\ seen' = [k \in Keys |-> IF k = key THEN "fresh"
                                 ELSE IF k \in Evicted THEN "none" ELSE seen[k]]
       /\ replays' = [k \in Keys |-> IF k \in Evicted \cup {key} THEN 0 ELSE replays[k]]
       /\ order' = IF seenStore # "memory" THEN order
                   ELSE Append(IF Evicted = {} THEN order ELSE Tail(order), key)

\* Mutant: a set that fails fails the request.
RecordOrThrow(q) ==
  /\ request[q].at = "record"
  /\ \/ Stored(Key(q)) /\ request' = [request EXCEPT ![q].at = "served"]
     \/ UNCHANGED <<seen, replays, order>> /\ request' = [request EXCEPT ![q].at = "error"]
  /\ served' = IF request'[q].at = "served" THEN [served EXCEPT ![Key(q)] = @ + 1] ELSE served
  /\ UNCHANGED <<seenStore, settledAt, faults>>

\* recordSettlement never throws: the settlement is stored, or its set() failed and
\* the failure is reported.
Recorded(key) == Stored(key) \/ UNCHANGED <<seen, replays, order>>

\* A paid request is served, recorded or not.
Record(q) ==
  /\ request[q].at = "record"
  /\ Recorded(Key(q))
  /\ request' = [request EXCEPT ![q].at = "served"]
  /\ served' = [served EXCEPT ![Key(q)] = @ + 1]
  /\ UNCHANGED <<seenStore, settledAt, faults>>

----------------------------------------------------------------------------
\* Time and restarts

\* SETTLEMENT_REPLAY_WINDOW_MS pass.
Age(key) ==
  /\ seen[key] = "fresh"
  /\ seen' = [seen EXCEPT ![key] = "old"]
  /\ UNCHANGED <<seenStore, replays, order, request, settledAt, served, faults>>

\* cleanup_stale_settlements, days later.
Sweep(key) ==
  /\ seenStore = "supabase" /\ seen[key] = "old"
  /\ seen' = [seen EXCEPT ![key] = "none"]
  /\ replays' = [replays EXCEPT ![key] = 0]
  /\ UNCHANGED <<seenStore, order, request, settledAt, served, faults>>

InFlight(q) == request[q].at \in {"get", "claim", "settle", "record"}

\* The instance goes down: requests in flight are dropped, and so is memory.
Restart ==
  /\ faults < MaxFaults /\ faults' = faults + 1
  /\ request' = [q \in Requests |-> [request[q] EXCEPT !.at = IF InFlight(q) THEN "dropped" ELSE @]]
  /\ IF seenStore = "memory"
       THEN /\ seen' = [k \in Keys |-> "none"] /\ replays' = [k \in Keys |-> 0] /\ order' = <<>>
       ELSE UNCHANGED <<seen, replays, order>>
  /\ UNCHANGED <<seenStore, settledAt, served>>

\* Every step of the routes but Receive, which a client's step brings about.
Serve(q) ==
  LookUp(q) \/ Claim(q) \/ CheckFails(q) \/ Settle(q) \/ Refuse(q) \/ SettleFails(q) \/ Record(q)

ReplayNext ==
  \/ Restart
  \/ \E k \in Keys : Age(k) \/ Sweep(k)
  \/ \E q \in Requests : Receive(q) \/ Serve(q)

ReplaySpec == ReplayInit /\ [][ReplayNext]_replayVars

----------------------------------------------------------------------------
\* Types, and the bound of the store in memory.
ReplayTypeOK ==
  /\ seenStore \in SeenStores
  /\ seen \in [Keys -> {"none", "fresh", "old"}] /\ replays \in [Keys -> Nat]
  /\ order \in Seq(Keys) /\ (seenStore = "memory" => Len(order) <= MaxEntries)
  /\ request \in [Requests -> [at : Places, key : Keys]]
  /\ settledAt \in [Payments -> Paths \cup {Nowhere}]
  /\ served \in [Keys -> Nat] /\ faults \in 0..MaxFaults

\* One payment buys one response and MAX_SETTLEMENT_REPLAYS replays of it, on
\* one route, however often, where and when it is presented: concurrently,
\* after an eviction, a sweep, a restart or a failing store.
ServedAtMost ==
  \A k \in Keys :
    served[k] <= IF k[2] = settledAt[k[1]] THEN 1 + MAX_SETTLEMENT_REPLAYS ELSE 0
=============================================================================
