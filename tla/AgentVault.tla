----------------------------- MODULE AgentVault -----------------------------
(***************************************************************************)
(* The Soroban smart account src/contracts/agent-vault: an admin governs   *)
(* spend caps, an allowlist, an expiry, a freeze flag, the agent key and a *)
(* timelocked code upgrade; every payment of the agent passes __check_auth.*)
(*                                                                         *)
(* A contract call is atomic and a call that fails changes nothing, so a   *)
(* failing admin call is a stuttering step.  __check_auth walks a batch of *)
(* authorization contexts: it is modelled one context per step in the      *)
(* overlay "auth", during which no other action is enabled, and either     *)
(* commits the overlay or drops it, as the host does with a failed call.   *)
(***************************************************************************)
EXTENDS Integers

CONSTANTS
  Admins, Keys, Payees, Hashes,   \* addresses, agent public keys, Wasm hashes
  NoAdmin,                        \* no admin transfer is pending
  Genesis,                        \* the Wasm the vault is deployed with
  Caps,                           \* the amounts an admin may set as a cap
  Amounts,                        \* the amounts a transfer may carry (i128)
  Expiries,                       \* the ledgers an admin may set as expiry
  MaxI128,                        \* i128::MAX
  MaxU32,                         \* u32::MAX, the last ledger
  DAY,                            \* 17_280 ledgers, one day bucket
  UPGRADE_TIMELOCK_LEDGERS,
  INSTANCE_TTL_THRESHOLD, INSTANCE_TTL_EXTEND_TO,
  RestoreTTL,                     \* ledgers a restored entry lives (network)
  MaxBatch,                       \* bound: contexts in one __check_auth
  MaxPaid                         \* bound: everything the vault ever pays

ASSUME NamesAssumption == NoAdmin \notin Admins /\ Genesis \notin Hashes

ASSUME AmountsAssumption ==
  /\ MaxI128 \in Nat \ {0}
  /\ Caps \subseteq 0..MaxI128
  /\ Amounts \subseteq Int

ASSUME LedgerAssumption ==
  /\ MaxU32 \in Nat
  /\ Expiries \subseteq 0..MaxU32
  /\ DAY \in Nat \ {0}
  /\ UPGRADE_TIMELOCK_LEDGERS \in Nat
  /\ RestoreTTL \in Nat

\* The notice period fits in the lifetime a bump guarantees.
ASSUME InstanceTTLAssumption ==
  /\ INSTANCE_TTL_THRESHOLD \in Nat
  /\ INSTANCE_TTL_EXTEND_TO \in Nat
  /\ UPGRADE_TIMELOCK_LEDGERS <= INSTANCE_TTL_THRESHOLD
  /\ UPGRADE_TIMELOCK_LEDGERS <= INSTANCE_TTL_EXTEND_TO

ASSUME BoundsAssumption == MaxBatch \in Nat /\ MaxPaid \in Nat

Ledgers   == 0..MaxU32
Buckets   == Ledgers              \* a day bucket is sequence \div DAY
NotListed == -1                   \* validate_cap keeps stored caps >= 0
Never     == -1
Idle      == [busy |-> FALSE]
NoUpgrade == [ready |-> -1]

VARIABLES
  sequence,                          \* env.ledger().sequence()
  admin, pendingAdmin, agentKey,     \* instance storage ...
  dailyCap, lifetimeCap, allowlist, expiry, frozen,
  lifetimeSpend, pendingUpgrade,
  wasm,                              \* the code the instance runs
  instanceLive,                      \* live-until ledger of the instance entry
  daySpend, dayLive,                 \* temporary storage, per bucket
  payeeSpend, payeeLive,             \* temporary storage, per bucket and payee
  auth,                              \* the __check_auth call in progress
  paidDay, paidTo, paidEver,         \* payment_authorized events: of the bucket,
                                     \* of the bucket to a payee, of all time
  announcedAt                        \* upgrade_proposed events still standing

clock      == <<sequence>>
roles      == <<admin, pendingAdmin, agentKey>>
policy     == <<dailyCap, lifetimeCap, allowlist, expiry, frozen>>
upgrade    == <<pendingUpgrade, wasm, announcedAt>>
counters   == <<daySpend, dayLive, payeeSpend, payeeLive, lifetimeSpend>>
events     == <<paidDay, paidTo, paidEver>>
vars == <<clock, roles, policy, upgrade, instanceLive, counters, auth, events>>

----------------------------------------------------------------------------
\* Storage and arithmetic

\* Mutant: an addition that wraps at i128.
WrappingAdd(a, b) == IF a + b > MaxI128 THEN a + b - 2 * (MaxI128 + 1) ELSE a + b

SatAdd(a, b) == IF a + b > MaxI128 THEN MaxI128 ELSE a + b

Bucket == sequence \div DAY

\* extend_ttl(threshold, extendTo) on an entry that lives until "live".
Extended(live, threshold, extendTo) ==
  IF live - sequence <= threshold /\ live < sequence + extendTo
    THEN sequence + extendTo ELSE live

\* Mutant: a bump that waits until the entry is about to expire.
BumpExpiring == instanceLive' = Extended(instanceLive, 0, INSTANCE_TTL_EXTEND_TO)

BumpInstance ==
  instanceLive' = Extended(instanceLive, INSTANCE_TTL_THRESHOLD, INSTANCE_TTL_EXTEND_TO)

\* Mutant: a counter left at the minimum lifetime of a temporary entry.
CounterUnextended(live) == IF live < sequence THEN sequence ELSE live

CounterTTL(live) == Extended(live, DAY, 2 * DAY)

\* An archived instance answers no call until somebody restores it.
Callable == auth = Idle /\ sequence <= instanceLive

TransferContexts == Payees \X Amounts

AuthRecords ==
  [busy : {TRUE}, n : 0..MaxBatch, day : 0..MaxI128, lifetime : 0..MaxI128,
   payee : [Payees -> 0..MaxI128], live : [Payees -> Nat],
   total : Nat, sent : [Payees -> Nat]]

----------------------------------------------------------------------------
Init ==
  /\ sequence = 0
  /\ admin \in Admins /\ pendingAdmin = NoAdmin
  /\ agentKey \in Keys
  /\ dailyCap \in Caps /\ lifetimeCap \in Caps
  /\ allowlist \in [Payees -> Caps \cup {NotListed}]
  /\ expiry \in Expiries /\ frozen = FALSE
  /\ pendingUpgrade = NoUpgrade /\ wasm = Genesis
  /\ announcedAt = [h \in Hashes |-> Never]
  /\ instanceLive = INSTANCE_TTL_EXTEND_TO
  /\ daySpend = [b \in Buckets |-> 0] /\ dayLive = [b \in Buckets |-> 0]
  /\ payeeSpend = [b \in Buckets |-> [p \in Payees |-> 0]]
  /\ payeeLive = [b \in Buckets |-> [p \in Payees |-> 0]]
  /\ lifetimeSpend = 0
  /\ auth = Idle
  /\ paidDay = 0 /\ paidTo = [p \in Payees |-> 0] /\ paidEver = 0

----------------------------------------------------------------------------
\* Admin entry points: require_auth of the stored admin, bump, validate, write.

SetDailyCap(cap) ==
  /\ Callable /\ BumpInstance
  /\ dailyCap' = cap
  /\ UNCHANGED <<clock, roles, lifetimeCap, allowlist, expiry, frozen, upgrade,
                 counters, auth, events>>

SetLifetimeCap(cap) ==
  /\ Callable /\ BumpInstance
  /\ lifetimeCap' = cap
  /\ UNCHANGED <<clock, roles, dailyCap, allowlist, expiry, frozen, upgrade,
                 counters, auth, events>>

AddToAllowlist(payee, subCap) ==
  /\ Callable /\ BumpInstance
  /\ allowlist' = [allowlist EXCEPT ![payee] = subCap]
  /\ UNCHANGED <<clock, roles, dailyCap, lifetimeCap, expiry, frozen, upgrade,
                 counters, auth, events>>

RemoveFromAllowlist(payee) ==
  /\ Callable /\ BumpInstance
  /\ allowlist' = [allowlist EXCEPT ![payee] = NotListed]
  /\ UNCHANGED <<clock, roles, dailyCap, lifetimeCap, expiry, frozen, upgrade,
                 counters, auth, events>>

SetExpiry(ledger) ==
  /\ Callable /\ BumpInstance
  /\ expiry' = ledger
  /\ UNCHANGED <<clock, roles, dailyCap, lifetimeCap, allowlist, frozen, upgrade,
                 counters, auth, events>>

\* freeze and unfreeze
SetFrozen(flag) ==
  /\ Callable /\ BumpInstance
  /\ frozen' = flag
  /\ UNCHANGED <<clock, roles, dailyCap, lifetimeCap, allowlist, expiry, upgrade,
                 counters, auth, events>>

SetAgentPubkey(key) ==
  /\ Callable /\ BumpInstance
  /\ agentKey' = key
  /\ UNCHANGED <<clock, admin, pendingAdmin, policy, upgrade, counters, auth, events>>

TransferAdmin(newAdmin) ==
  /\ Callable /\ BumpInstance
  /\ pendingAdmin' = newAdmin
  /\ UNCHANGED <<clock, admin, agentKey, policy, upgrade, counters, auth, events>>

\* Authorised by the pending admin, not by the admin.
AcceptAdmin ==
  /\ Callable /\ BumpInstance
  /\ pendingAdmin # NoAdmin
  /\ admin' = pendingAdmin /\ pendingAdmin' = NoAdmin
  /\ UNCHANGED <<clock, agentKey, policy, upgrade, counters, auth, events>>

----------------------------------------------------------------------------
\* Timelocked upgrade

\* checked_add: a sum past u32::MAX is UpgradeTimelockOverflow.
UpgradeReadyAt == sequence + UPGRADE_TIMELOCK_LEDGERS

\* Mutant: a replacement inherits the ready ledger of the proposal it replaces.
ProposeInherited(hash) ==
  /\ Callable /\ BumpInstance
  /\ UpgradeReadyAt <= MaxU32
  /\ pendingUpgrade' = [hash |-> hash, ready |-> IF pendingUpgrade = NoUpgrade
                                                 THEN UpgradeReadyAt ELSE pendingUpgrade.ready]
  /\ announcedAt' = [h \in Hashes |-> IF h = hash THEN sequence ELSE Never]
  /\ UNCHANGED <<clock, roles, policy, wasm, counters, auth, events>>

\* Only the latest proposal stands: its event supersedes the earlier ones.
ProposeUpgrade(hash) ==
  /\ Callable /\ BumpInstance
  /\ UpgradeReadyAt <= MaxU32
  /\ pendingUpgrade' = [hash |-> hash, ready |-> UpgradeReadyAt]
  /\ announcedAt' = [h \in Hashes |-> IF h = hash THEN sequence ELSE Never]
  /\ UNCHANGED <<clock, roles, policy, wasm, counters, auth, events>>

ExecuteUpgrade ==
  /\ Callable
  /\ pendingUpgrade # NoUpgrade
  /\ sequence >= pendingUpgrade.ready
  /\ wasm' = pendingUpgrade.hash
  /\ pendingUpgrade' = NoUpgrade
  /\ BumpInstance
  /\ UNCHANGED <<clock, roles, policy, announcedAt, counters, auth, events>>

CancelUpgrade ==
  /\ Callable /\ BumpInstance
  /\ pendingUpgrade # NoUpgrade
  /\ pendingUpgrade' = NoUpgrade
  /\ announcedAt' = [h \in Hashes |-> Never]
  /\ UNCHANGED <<clock, roles, policy, wasm, counters, auth, events>>

----------------------------------------------------------------------------
\* __check_auth

\* Mutant: the payee counters are read under the key of the next bucket.
BeginMisread(key) ==
  /\ Callable
  /\ ~frozen
  /\ key = agentKey
  /\ sequence <= expiry
  /\ auth' = [busy |-> TRUE, n |-> 0,
              day |-> daySpend[Bucket], lifetime |-> lifetimeSpend,
              payee |-> payeeSpend[Bucket + 1], live |-> payeeLive[Bucket],
              total |-> 0, sent |-> [p \in Payees |-> 0]]
  /\ UNCHANGED <<clock, roles, policy, upgrade, instanceLive, counters, events>>

\* The checks before the loop and the policy state it loads.
BeginAuth(key) ==
  /\ Callable
  /\ ~frozen
  /\ key = agentKey
  /\ sequence <= expiry
  /\ auth' = [busy |-> TRUE, n |-> 0,
              day |-> daySpend[Bucket], lifetime |-> lifetimeSpend,
              payee |-> payeeSpend[Bucket], live |-> payeeLive[Bucket],
              total |-> 0, sent |-> [p \in Payees |-> 0]]
  /\ UNCHANGED <<clock, roles, policy, upgrade, instanceLive, counters, events>>

\* One well-formed transfer(from, to, amount) context that passes every policy.
AuthContext(to, amount) ==
  LET projected == SatAdd(auth.day, amount)
      payeeProjected == SatAdd(auth.payee[to], amount)
      projectedLifetime == SatAdd(auth.lifetime, amount)
  IN /\ auth.busy /\ auth.n < MaxBatch
     /\ paidEver + auth.total + amount <= MaxPaid
     /\ amount > 0
     /\ allowlist[to] # NotListed
     /\ projected <= dailyCap
     /\ payeeProjected <= allowlist[to]
     /\ lifetimeCap > 0 => projectedLifetime <= lifetimeCap
     /\ auth' = [busy |-> TRUE, n |-> auth.n + 1,
                 day |-> projected, lifetime |-> projectedLifetime,
                 payee |-> [auth.payee EXCEPT ![to] = payeeProjected],
                 live |-> [auth.live EXCEPT ![to] = CounterTTL(@)],
                 total |-> auth.total + amount,
                 sent |-> [auth.sent EXCEPT ![to] = @ + amount]]
     /\ UNCHANGED <<clock, roles, policy, upgrade, instanceLive, counters, events>>

\* A context that is no transfer, is malformed or breaks a policy fails the
\* whole call: the host drops its writes, its events and its TTL extensions.
RejectAuth ==
  /\ auth.busy
  /\ auth' = Idle
  /\ UNCHANGED <<clock, roles, policy, upgrade, instanceLive, counters, events>>

\* After the loop: Ok(()) commits the counters and the events.
CommitAuth ==
  /\ auth.busy
  /\ daySpend' = [daySpend EXCEPT ![Bucket] = auth.day]
  /\ dayLive' = [dayLive EXCEPT ![Bucket] = CounterTTL(@)]
  /\ payeeSpend' = [payeeSpend EXCEPT ![Bucket] = auth.payee]
  /\ payeeLive' = [payeeLive EXCEPT ![Bucket] = auth.live]
  /\ lifetimeSpend' = auth.lifetime
  /\ BumpInstance
  /\ paidDay' = paidDay + auth.total
  /\ paidTo' = [p \in Payees |-> paidTo[p] + auth.sent[p]]
  /\ paidEver' = paidEver + auth.total
  /\ auth' = Idle
  /\ UNCHANGED <<clock, roles, policy, upgrade>>

----------------------------------------------------------------------------
\* The network

\* A ledger closes: temporary entries past their live-until ledger are gone.
CloseLedger ==
  LET s == sequence + 1
  IN /\ auth = Idle
     /\ s <= MaxU32
     /\ sequence' = s
     /\ daySpend' = [b \in Buckets |-> IF s > dayLive[b] THEN 0 ELSE daySpend[b]]
     /\ dayLive' = [b \in Buckets |-> IF s > dayLive[b] THEN 0 ELSE dayLive[b]]
     /\ payeeSpend' = [b \in Buckets |-> [p \in Payees |->
                         IF s > payeeLive[b][p] THEN 0 ELSE payeeSpend[b][p]]]
     /\ payeeLive' = [b \in Buckets |-> [p \in Payees |->
                         IF s > payeeLive[b][p] THEN 0 ELSE payeeLive[b][p]]]
     /\ IF s \div DAY = Bucket
          THEN UNCHANGED <<paidDay, paidTo>>
          ELSE paidDay' = 0 /\ paidTo' = [p \in Payees |-> 0]
     /\ UNCHANGED <<roles, policy, upgrade, instanceLive, lifetimeSpend, auth, paidEver>>

\* Anyone may restore an archived instance entry.
RestoreInstance ==
  /\ auth = Idle
  /\ sequence > instanceLive
  /\ instanceLive' = sequence + RestoreTTL
  /\ UNCHANGED <<clock, roles, policy, upgrade, counters, auth, events>>

----------------------------------------------------------------------------
Next ==
  \/ \E cap \in Caps : SetDailyCap(cap)
  \/ \E cap \in Caps : SetLifetimeCap(cap)
  \/ \E p \in Payees, cap \in Caps : AddToAllowlist(p, cap)
  \/ \E p \in Payees : RemoveFromAllowlist(p)
  \/ \E ledger \in Expiries : SetExpiry(ledger)
  \/ \E flag \in BOOLEAN : SetFrozen(flag)
  \/ \E key \in Keys : SetAgentPubkey(key)
  \/ \E a \in Admins : TransferAdmin(a)
  \/ AcceptAdmin
  \/ \E h \in Hashes : ProposeUpgrade(h)
  \/ ExecuteUpgrade
  \/ CancelUpgrade
  \/ \E key \in Keys : BeginAuth(key)
  \/ \E c \in TransferContexts : AuthContext(c[1], c[2])
  \/ RejectAuth
  \/ CommitAuth
  \/ CloseLedger
  \/ RestoreInstance

Spec == Init /\ [][Next]_vars

----------------------------------------------------------------------------
\* Properties

Upgrades == [hash : Hashes, ready : Ledgers]

\* Every variable has its type; the overlay of __check_auth is idle or a record.
TypeOK ==
  /\ sequence \in Ledgers
  /\ admin \in Admins /\ pendingAdmin \in Admins \cup {NoAdmin} /\ agentKey \in Keys
  /\ dailyCap \in Caps /\ lifetimeCap \in Caps
  /\ allowlist \in [Payees -> Caps \cup {NotListed}]
  /\ expiry \in Expiries /\ frozen \in BOOLEAN
  /\ lifetimeSpend \in 0..MaxI128
  /\ pendingUpgrade \in Upgrades \cup {NoUpgrade}
  /\ wasm \in Hashes \cup {Genesis}
  /\ announcedAt \in [Hashes -> Ledgers \cup {Never}]
  /\ instanceLive \in Nat
  /\ daySpend \in [Buckets -> 0..MaxI128] /\ dayLive \in [Buckets -> Nat]
  /\ payeeSpend \in [Buckets -> [Payees -> 0..MaxI128]]
  /\ payeeLive \in [Buckets -> [Payees -> Nat]]
  /\ auth \in AuthRecords \cup {Idle}
  /\ paidDay \in Nat /\ paidTo \in [Payees -> Nat] /\ paidEver \in Nat

\* Clipped to i128, a counter that saturates.
Clip(x) == IF x > MaxI128 THEN MaxI128 ELSE x

\* The three counters are exactly the payments authorised: the day and payee
\* counters those of this day bucket, in temporary storage that must outlive the
\* bucket, the lifetime counter all of them, across expiries and archival.
CountersAreExact ==
  /\ daySpend[Bucket] = Clip(paidDay)
  /\ \A p \in Payees : payeeSpend[Bucket][p] = Clip(paidTo[p])
  /\ lifetimeSpend = Clip(paidEver)

\* No batch of payments, however split over transfers, calls and ledgers,
\* passes a cap in force when it is authorised: the daily cap, the payee's
\* sub-cap and a lifetime cap that is set (i128::MAX caps nothing: the
\* counters saturate there).
PaymentsWithinCaps ==
  [][/\ paidEver' > paidEver =>
          /\ dailyCap < MaxI128 => paidDay' <= dailyCap
          /\ lifetimeCap \in 1..(MaxI128 - 1) => paidEver' <= lifetimeCap
     /\ \A p \in Payees : paidTo'[p] > paidTo[p] =>
          /\ allowlist[p] # NotListed
          /\ allowlist[p] < MaxI128 => paidTo'[p] <= allowlist[p]]_vars

\* The vault's code changes only to a hash whose latest proposal stood, neither
\* cancelled nor replaced, for the whole notice period.
UpgradeOnlyAfterNotice ==
  [][wasm' # wasm =>
       /\ announcedAt[wasm'] # Never
       /\ sequence >= announcedAt[wasm'] + UPGRADE_TIMELOCK_LEDGERS]_vars

\* A standing proposal cannot be archived before it becomes executable, even if
\* nobody calls the vault again (propose_upgrade's comment on its bump).
NoticeOutlivesArchival ==
  pendingUpgrade # NoUpgrade => instanceLive >= pendingUpgrade.ready
=============================================================================
