-------------------------- MODULE AgentVaultProofs --------------------------
(***************************************************************************)
(* Theorems about AgentVault for every value of its constants: its types,  *)
(* the exactness of the spend counters, the caps, and the upgrade notice.  *)
(***************************************************************************)
EXTENDS AgentVault, TLAPS

\* Two ledgers of one day bucket are less than a day apart.
LEMMA SameBucket ==
  ASSUME NEW s \in Nat, NEW t \in Nat, s \div DAY = t \div DAY
  PROVE  t < s + DAY
BY LedgerAssumption

\* The bucket number is a bucket and never decreases.
LEMMA BucketMonotone ==
  ASSUME NEW s \in Ledgers
  PROVE  s \div DAY \in Buckets /\ s \div DAY <= (s + 1) \div DAY
BY LedgerAssumption DEF Buckets, Ledgers

\* extend_ttl never shortens a life.
LEMMA ExtendedNat ==
  ASSUME sequence \in Nat, NEW live \in Nat, NEW th \in Nat, NEW ext \in Nat
  PROVE  Extended(live, th, ext) \in Nat /\ Extended(live, th, ext) >= live
BY DEF Extended

\* A counter's live-until ledger stays a number.
LEMMA CounterTTLNat ==
  ASSUME sequence \in Nat, NEW live \in Nat
  PROVE  CounterTTL(live) \in Nat
BY LedgerAssumption, 2 * DAY \in Nat, ExtendedNat DEF CounterTTL

\* Saturating addition stays within i128 and agrees with clipping the sum.
LEMMA SatAddClip ==
  ASSUME NEW a \in Nat, NEW b \in Nat
  PROVE  /\ SatAdd(Clip(a), b) = Clip(a + b)
         /\ Clip(a) \in 0..MaxI128
         /\ SatAdd(Clip(a), b) \in 0..MaxI128
BY AmountsAssumption DEF SatAdd, Clip

\* Every admin call leaves these alone.
AdminFrame == UNCHANGED <<clock, counters, auth, events>>

----------------------------------------------------------------------------
\* Type correctness

\* The constructor leaves a well-typed vault.
LEMMA InitTypeOK == Init => TypeOK
<1> SUFFICES ASSUME Init PROVE TypeOK
  OBVIOUS
<1> USE AmountsAssumption, LedgerAssumption, InstanceTTLAssumption
<1>1. sequence \in Ledgers /\ instanceLive \in Nat
  BY DEF Init, Ledgers
<1>2. /\ admin \in Admins /\ pendingAdmin \in Admins \cup {NoAdmin} /\ agentKey \in Keys
      /\ dailyCap \in Caps /\ lifetimeCap \in Caps
      /\ allowlist \in [Payees -> Caps \cup {NotListed}]
      /\ expiry \in Expiries /\ frozen \in BOOLEAN
      /\ pendingUpgrade \in Upgrades \cup {NoUpgrade}
      /\ wasm \in Hashes \cup {Genesis}
      /\ announcedAt \in [Hashes -> Ledgers \cup {Never}]
  BY DEF Init
<1>3. /\ lifetimeSpend \in 0..MaxI128
      /\ daySpend \in [Buckets -> 0..MaxI128] /\ dayLive \in [Buckets -> Nat]
      /\ payeeSpend \in [Buckets -> [Payees -> 0..MaxI128]]
      /\ payeeLive \in [Buckets -> [Payees -> Nat]]
      /\ auth \in AuthRecords \cup {Idle}
      /\ paidDay \in Nat /\ paidTo \in [Payees -> Nat] /\ paidEver \in Nat
  BY DEF Init
<1> QED BY <1>1, <1>2, <1>3 DEF TypeOK

\* bump_instance never shortens the instance's life.
LEMMA BumpNat == ASSUME TypeOK, BumpInstance PROVE instanceLive' \in Nat /\ instanceLive' >= instanceLive
BY ExtendedNat, InstanceTTLAssumption DEF TypeOK, BumpInstance, Ledgers

\* Every call and every ledger close keeps the types.
LEMMA NextTypeOK == TypeOK /\ [Next]_vars => TypeOK'
<1> SUFFICES ASSUME TypeOK, [Next]_vars PROVE TypeOK'
  OBVIOUS
<1> USE AmountsAssumption, LedgerAssumption, InstanceTTLAssumption
<1>0. ASSUME AdminFrame, BumpInstance
      PROVE  /\ sequence' \in Ledgers /\ instanceLive' \in Nat
             /\ lifetimeSpend' \in 0..MaxI128
             /\ daySpend' \in [Buckets -> 0..MaxI128] /\ dayLive' \in [Buckets -> Nat]
             /\ payeeSpend' \in [Buckets -> [Payees -> 0..MaxI128]]
             /\ payeeLive' \in [Buckets -> [Payees -> Nat]]
             /\ auth' \in AuthRecords \cup {Idle}
             /\ paidDay' \in Nat /\ paidTo' \in [Payees -> Nat] /\ paidEver' \in Nat
  BY <1>0, BumpNat DEF TypeOK, AdminFrame, clock, counters, events
<1>1. ASSUME NEW cap \in Caps, SetDailyCap(cap) PROVE TypeOK'
  BY <1>0, <1>1 DEF SetDailyCap, AdminFrame, TypeOK, roles, upgrade
<1>2. ASSUME NEW cap \in Caps, SetLifetimeCap(cap) PROVE TypeOK'
  BY <1>0, <1>2 DEF SetLifetimeCap, AdminFrame, TypeOK, roles, upgrade
<1>3. ASSUME NEW p \in Payees, NEW cap \in Caps, AddToAllowlist(p, cap) PROVE TypeOK'
  BY <1>0, <1>3 DEF AddToAllowlist, AdminFrame, TypeOK, roles, upgrade
<1>4. ASSUME NEW p \in Payees, RemoveFromAllowlist(p) PROVE TypeOK'
  BY <1>0, <1>4 DEF RemoveFromAllowlist, AdminFrame, TypeOK, roles, upgrade
<1>5. ASSUME NEW ledger \in Expiries, SetExpiry(ledger) PROVE TypeOK'
  BY <1>0, <1>5 DEF SetExpiry, AdminFrame, TypeOK, roles, upgrade
<1>6. ASSUME NEW flag \in BOOLEAN, SetFrozen(flag) PROVE TypeOK'
  BY <1>0, <1>6 DEF SetFrozen, AdminFrame, TypeOK, roles, upgrade
<1>7. ASSUME NEW key \in Keys, SetAgentPubkey(key) PROVE TypeOK'
  BY <1>0, <1>7 DEF SetAgentPubkey, AdminFrame, TypeOK, policy, upgrade
<1>8. ASSUME NEW a \in Admins, TransferAdmin(a) PROVE TypeOK'
  BY <1>0, <1>8 DEF TransferAdmin, AdminFrame, TypeOK, policy, upgrade
<1>9. ASSUME AcceptAdmin PROVE TypeOK'
  BY <1>0, <1>9 DEF AcceptAdmin, AdminFrame, TypeOK, policy, upgrade
<1>10. ASSUME NEW h \in Hashes, ProposeUpgrade(h) PROVE TypeOK'
  <2>1. UpgradeReadyAt \in Ledgers
    BY <1>10 DEF ProposeUpgrade, UpgradeReadyAt, TypeOK, Ledgers
  <2>2. pendingUpgrade' \in Upgrades
    BY <1>10, <2>1 DEF ProposeUpgrade, Upgrades
  <2>3. announcedAt' \in [Hashes -> Ledgers \cup {Never}]
    BY <1>10 DEF ProposeUpgrade, TypeOK
  <2> QED BY <1>0, <1>10, <2>2, <2>3 DEF ProposeUpgrade, AdminFrame, TypeOK, roles, policy
<1>11. ASSUME ExecuteUpgrade PROVE TypeOK'
  <2>1. wasm' \in Hashes
    BY <1>11 DEF ExecuteUpgrade, TypeOK, Upgrades
  <2> QED BY <1>0, <1>11, <2>1 DEF ExecuteUpgrade, AdminFrame, TypeOK, roles, policy
<1>12. ASSUME CancelUpgrade PROVE TypeOK'
  BY <1>0, <1>12 DEF CancelUpgrade, AdminFrame, TypeOK, roles, policy
<1>13. ASSUME NEW key \in Keys, BeginAuth(key) PROVE TypeOK'
  <2>1. Bucket \in Buckets
    BY BucketMonotone DEF Bucket, TypeOK
  <2>2. auth' \in AuthRecords
    BY <1>13, <2>1, BoundsAssumption DEF BeginAuth, AuthRecords, TypeOK
  <2> QED BY <1>13, <2>2
      DEF BeginAuth, TypeOK, clock, roles, policy, upgrade, counters, events
<1>14. ASSUME NEW to \in Payees, NEW amount \in Amounts, AuthContext(to, amount) PROVE TypeOK'
  <2>1. auth \in AuthRecords /\ amount \in Nat
    BY <1>14 DEF AuthContext, TypeOK, Idle
  <2>2. /\ SatAdd(auth.day, amount) \in 0..MaxI128
        /\ SatAdd(auth.payee[to], amount) \in 0..MaxI128
        /\ SatAdd(auth.lifetime, amount) \in 0..MaxI128
    BY <2>1 DEF SatAdd, AuthRecords
  <2>3. CounterTTL(auth.live[to]) \in Nat
    BY <2>1, CounterTTLNat DEF AuthRecords, TypeOK, Ledgers
  <2>4. auth.n + 1 \in 0..MaxBatch
    BY <1>14, <2>1, BoundsAssumption DEF AuthContext, AuthRecords
  <2>5. auth' \in AuthRecords
    BY <1>14, <2>1, <2>2, <2>3, <2>4 DEF AuthContext, AuthRecords
  <2> QED BY <1>14, <2>5
      DEF AuthContext, TypeOK, clock, roles, policy, upgrade, counters, events
<1>15. ASSUME RejectAuth PROVE TypeOK'
  BY <1>15 DEF RejectAuth, TypeOK, clock, roles, policy, upgrade, counters, events
<1>16. ASSUME CommitAuth PROVE TypeOK'
  <2>1. auth \in AuthRecords
    BY <1>16 DEF CommitAuth, TypeOK, Idle
  <2>2. Bucket \in Buckets
    BY BucketMonotone DEF Bucket, TypeOK
  <2>3. CounterTTL(dayLive[Bucket]) \in Nat
    BY <2>2, CounterTTLNat DEF TypeOK, Ledgers
  <2>4. /\ daySpend' \in [Buckets -> 0..MaxI128] /\ dayLive' \in [Buckets -> Nat]
        /\ lifetimeSpend' \in 0..MaxI128
    BY <1>16, <2>1, <2>2, <2>3 DEF CommitAuth, TypeOK, AuthRecords
  <2>5. /\ payeeSpend' \in [Buckets -> [Payees -> 0..MaxI128]]
        /\ payeeLive' \in [Buckets -> [Payees -> Nat]]
    BY <1>16, <2>1, <2>2 DEF CommitAuth, TypeOK, AuthRecords
  <2>6. paidDay' \in Nat /\ paidTo' \in [Payees -> Nat] /\ paidEver' \in Nat
    BY <1>16, <2>1 DEF CommitAuth, TypeOK, AuthRecords
  <2>7. instanceLive' \in Nat
    BY <1>16, BumpNat DEF CommitAuth
  <2> QED BY <1>16, <2>4, <2>5, <2>6, <2>7 DEF CommitAuth, TypeOK, clock, roles, policy, upgrade
<1>17. ASSUME CloseLedger PROVE TypeOK'
  <2>1. sequence' \in Ledgers
    BY <1>17 DEF CloseLedger, TypeOK, Ledgers
  <2>2. /\ daySpend' \in [Buckets -> 0..MaxI128] /\ dayLive' \in [Buckets -> Nat]
        /\ payeeSpend' \in [Buckets -> [Payees -> 0..MaxI128]]
        /\ payeeLive' \in [Buckets -> [Payees -> Nat]]
    BY <1>17 DEF CloseLedger, TypeOK
  <2>3. paidDay' \in Nat /\ paidTo' \in [Payees -> Nat]
    BY <1>17 DEF CloseLedger, TypeOK
  <2> QED BY <1>17, <2>1, <2>2, <2>3 DEF CloseLedger, TypeOK, roles, policy, upgrade
<1>18. ASSUME RestoreInstance PROVE TypeOK'
  <2>1. instanceLive' \in Nat
    BY <1>18 DEF RestoreInstance, TypeOK, Ledgers
  <2> QED BY <1>18, <2>1
      DEF RestoreInstance, TypeOK, clock, roles, policy, upgrade, counters, events
<1>19. ASSUME UNCHANGED vars PROVE TypeOK'
  BY <1>19 DEF vars, TypeOK, clock, roles, policy, upgrade, counters, events
<1> QED
  BY <1>1, <1>2, <1>3, <1>4, <1>5, <1>6, <1>7, <1>8, <1>9, <1>10, <1>11, <1>12, <1>13,
     <1>14, <1>15, <1>16, <1>17, <1>18, <1>19 DEF Next, TransferContexts

\* The vault's state always has its type: no counter leaves the i128 range.
THEOREM TypeCorrect == Spec => []TypeOK
BY InitTypeOK, NextTypeOK, PTL DEF Spec

----------------------------------------------------------------------------
\* Exact counters

\* A temporary entry that lives to the end of the current day bucket.
Covers(live) == \A t \in Ledgers : t \div DAY = Bucket => t <= live

\* Counters of the current bucket outlive it.
CountersOutliveBucket ==
  /\ daySpend[Bucket] # 0 => Covers(dayLive[Bucket])
  /\ \A p \in Payees : payeeSpend[Bucket][p] # 0 => Covers(payeeLive[Bucket][p])

\* Later buckets have no counter yet.
LaterBucketsFresh ==
  \A b \in Buckets : b > Bucket =>
     daySpend[b] = 0 /\ \A p \in Payees : payeeSpend[b][p] = 0

\* The overlay of a call in progress already counts its own transfers.
OverlayExact ==
  auth # Idle =>
    /\ auth.day = Clip(paidDay + auth.total)
    /\ auth.lifetime = Clip(paidEver + auth.total)
    /\ \A p \in Payees : /\ auth.payee[p] = Clip(paidTo[p] + auth.sent[p])
                         /\ auth.payee[p] # 0 => Covers(auth.live[p])

ExactInv == CountersAreExact /\ CountersOutliveBucket /\ LaterBucketsFresh /\ OverlayExact

\* The TTL a counter is written with reaches the end of its day bucket.
LEMMA CounterTTLCovers ==
  ASSUME sequence \in Ledgers, NEW live \in Nat
  PROVE  Covers(CounterTTL(live))
<1> SUFFICES ASSUME NEW t \in Ledgers, t \div DAY = Bucket PROVE t <= CounterTTL(live)
  BY DEF Covers
<1> USE LedgerAssumption DEF Ledgers
<1>1. t < sequence + DAY
  BY SameBucket DEF Bucket
<1> QED BY <1>1 DEF CounterTTL, Extended

\* A new vault has authorised nothing and counted nothing.
LEMMA InitExact == Init => ExactInv
<1> SUFFICES ASSUME Init PROVE ExactInv
  OBVIOUS
<1> USE AmountsAssumption, LedgerAssumption
<1>1. Bucket \in Buckets
  BY BucketMonotone DEF Bucket, Init, Ledgers
<1>2. Clip(0) = 0
  BY DEF Clip
<1> QED BY <1>1, <1>2
    DEF Init, ExactInv, CountersAreExact, CountersOutliveBucket, LaterBucketsFresh, OverlayExact

\* A step that leaves clock, counters, overlay and events alone.
LEMMA FrameExact == ExactInv /\ AdminFrame => ExactInv'
<1> SUFFICES ASSUME ExactInv, AdminFrame PROVE ExactInv'
  OBVIOUS
<1>1. Bucket' = Bucket
  BY DEF AdminFrame, Bucket, clock
<1>2. \A live : Covers(live)' <=> Covers(live)
  BY <1>1 DEF Covers
<1> QED BY <1>1, <1>2
    DEF AdminFrame, clock, counters, events, ExactInv, CountersAreExact,
        CountersOutliveBucket, LaterBucketsFresh, OverlayExact, Covers

\* Every step keeps the counters, their lives and the overlay in step with the payments.
LEMMA NextExact == TypeOK /\ ExactInv /\ [Next]_vars => ExactInv'
<1> SUFFICES ASSUME TypeOK, ExactInv, [Next]_vars PROVE ExactInv'
  OBVIOUS
<1> USE AmountsAssumption, LedgerAssumption
<1>b. Bucket \in Buckets
  BY BucketMonotone DEF Bucket, TypeOK
<1>1. ASSUME NEW key \in Keys, BeginAuth(key) PROVE ExactInv'
  <2>1. Bucket' = Bucket /\ UNCHANGED <<counters, events>>
    BY <1>1 DEF BeginAuth, Bucket, clock
  <2>2. OverlayExact'
    BY <1>1, <1>b, <2>1 DEF BeginAuth, ExactInv, CountersAreExact, CountersOutliveBucket,
        OverlayExact, Covers, TypeOK, counters, events
  <2> QED BY <2>1, <2>2 DEF ExactInv, CountersAreExact, CountersOutliveBucket,
        LaterBucketsFresh, Covers, counters, events
<1>2. ASSUME NEW to \in Payees, NEW amount \in Amounts, AuthContext(to, amount) PROVE ExactInv'
  <2>1. Bucket' = Bucket /\ UNCHANGED <<counters, events>>
    BY <1>2 DEF AuthContext, Bucket, clock
  <2>2. auth \in AuthRecords /\ auth # Idle /\ amount \in Nat
    BY <1>2 DEF AuthContext, TypeOK, Idle
  <2>3. auth'.day = Clip(paidDay' + auth'.total)
    BY <1>2, <2>1, <2>2, SatAddClip
       DEF AuthContext, ExactInv, OverlayExact, AuthRecords, TypeOK, events
  <2>4. auth'.lifetime = Clip(paidEver' + auth'.total)
    BY <1>2, <2>1, <2>2, SatAddClip
       DEF AuthContext, ExactInv, OverlayExact, AuthRecords, TypeOK, events
  <2>5. ASSUME NEW p \in Payees
        PROVE  auth'.payee[p] = Clip(paidTo'[p] + auth'.sent[p])
    <3>1. CASE p = to
      <4>1. auth.payee[p] = Clip(paidTo[p] + auth.sent[p])
        BY <2>2 DEF ExactInv, OverlayExact
      <4>2. paidTo[p] + auth.sent[p] \in Nat /\ auth.sent[p] \in Nat /\ paidTo[p] \in Nat
        BY <2>2 DEF TypeOK, AuthRecords
      <4>3. auth'.payee[p] = SatAdd(auth.payee[p], amount)
        BY <1>2, <2>2, <3>1 DEF AuthContext, AuthRecords
      <4>4. auth'.sent[p] = auth.sent[p] + amount
        BY <1>2, <2>2, <3>1 DEF AuthContext, AuthRecords
      <4>5. auth'.payee[p] = Clip((paidTo[p] + auth.sent[p]) + amount)
        BY <2>2, <4>1, <4>2, <4>3, SatAddClip
      <4> QED BY <2>1, <2>2, <4>2, <4>4, <4>5 DEF events
    <3>2. CASE p # to
      BY <3>2, <1>2, <2>1, <2>2
         DEF AuthContext, ExactInv, OverlayExact, AuthRecords, TypeOK, events
    <3> QED BY <3>1, <3>2
  <2>6. ASSUME NEW p \in Payees, auth'.payee[p] # 0
        PROVE  (Covers(auth.live[p]))'
    <3>1. Covers(auth'.live[p])
      <4>1. CASE p = to
        BY <4>1, <1>2, <2>2, CounterTTLCovers DEF AuthContext, AuthRecords, TypeOK
      <4>2. CASE p # to
        BY <4>2, <2>6, <1>2, <2>2 DEF AuthContext, ExactInv, OverlayExact, AuthRecords
      <4> QED BY <4>1, <4>2
    <3> QED BY <3>1, <2>1 DEF Covers
  <2>7. OverlayExact'
    BY <2>3, <2>4, <2>5, <2>6 DEF OverlayExact
  <2> QED BY <2>1, <2>7 DEF ExactInv, CountersAreExact, CountersOutliveBucket,
        LaterBucketsFresh, Covers, counters, events
<1>3. ASSUME RejectAuth PROVE ExactInv'
  <2>1. Bucket' = Bucket /\ UNCHANGED <<counters, events>> /\ auth' = Idle
    BY <1>3 DEF RejectAuth, Bucket, clock
  <2> QED BY <2>1 DEF ExactInv, CountersAreExact, CountersOutliveBucket,
        LaterBucketsFresh, OverlayExact, Covers, counters, events
<1>4. ASSUME CommitAuth PROVE ExactInv'
  <2>1. Bucket' = Bucket /\ auth' = Idle
    BY <1>4 DEF CommitAuth, Bucket, clock
  <2>2. auth \in AuthRecords /\ auth # Idle
    BY <1>4 DEF CommitAuth, TypeOK, Idle
  <2>3. CountersAreExact'
    BY <1>4, <1>b, <2>1, <2>2
       DEF CommitAuth, ExactInv, OverlayExact, CountersAreExact, TypeOK, AuthRecords
  <2>4. Covers(dayLive'[Bucket])
    BY <1>4, <1>b, CounterTTLCovers DEF CommitAuth, TypeOK
  <2>5. ASSUME NEW p \in Payees, payeeSpend'[Bucket][p] # 0
        PROVE  Covers(payeeLive'[Bucket][p])
    BY <1>4, <1>b, <2>2, <2>5 DEF CommitAuth, TypeOK, ExactInv, OverlayExact
  <2>6. CountersOutliveBucket'
    BY <2>1, <2>4, <2>5 DEF CountersOutliveBucket, Covers
  <2>7. LaterBucketsFresh'
    BY <1>4, <1>b, <2>1 DEF CommitAuth, ExactInv, LaterBucketsFresh, TypeOK, Buckets, Ledgers
  <2> QED BY <2>1, <2>3, <2>6, <2>7 DEF ExactInv, OverlayExact
<1>5. ASSUME CloseLedger PROVE ExactInv'
  <2>1. sequence' = sequence + 1 /\ sequence' \in Ledgers /\ auth' = Idle
    BY <1>5 DEF CloseLedger, TypeOK, Ledgers
  <2>2. Bucket' \in Buckets /\ Bucket <= Bucket'
    BY <2>1, BucketMonotone DEF Bucket, TypeOK
  <2>3. \A b \in Buckets : daySpend[b] = 0 => daySpend'[b] = 0
    BY <1>5 DEF CloseLedger
  <2>4. \A b \in Buckets, p \in Payees : payeeSpend[b][p] = 0 => payeeSpend'[b][p] = 0
    BY <1>5 DEF CloseLedger
  <2>5. LaterBucketsFresh'
    BY <2>2, <2>3, <2>4, <1>b DEF ExactInv, LaterBucketsFresh, Buckets, Ledgers
  <2>6. CASE Bucket' = Bucket
    <3>1. UNCHANGED events /\ lifetimeSpend' = lifetimeSpend
      BY <1>5, <2>1, <2>6 DEF CloseLedger, Bucket, events
    <3>2. /\ daySpend'[Bucket] = daySpend[Bucket]
          /\ daySpend[Bucket] # 0 => dayLive'[Bucket] = dayLive[Bucket]
      BY <1>5, <1>b, <2>1, <2>6
         DEF CloseLedger, ExactInv, CountersOutliveBucket, Covers, TypeOK, Bucket, Ledgers
    <3>3. ASSUME NEW p \in Payees
          PROVE  /\ payeeSpend'[Bucket][p] = payeeSpend[Bucket][p]
                 /\ payeeSpend[Bucket][p] # 0 => payeeLive'[Bucket][p] = payeeLive[Bucket][p]
      BY <1>5, <1>b, <2>1, <2>6
         DEF CloseLedger, ExactInv, CountersOutliveBucket, Covers, TypeOK, Bucket, Ledgers
    <3>4. CountersAreExact'
      BY <2>6, <3>1, <3>2, <3>3 DEF ExactInv, CountersAreExact, events
    <3>5. CountersOutliveBucket'
      BY <2>6, <3>2, <3>3 DEF ExactInv, CountersOutliveBucket, Covers
    <3> QED BY <2>1, <2>5, <3>4, <3>5 DEF ExactInv, OverlayExact
  <2>7. CASE Bucket' # Bucket
    <3>1. /\ paidDay' = 0 /\ paidTo' = [p \in Payees |-> 0]
          /\ paidEver' = paidEver /\ lifetimeSpend' = lifetimeSpend
      BY <1>5, <2>1, <2>7 DEF CloseLedger, Bucket
    <3>2. daySpend'[Bucket'] = 0 /\ \A p \in Payees : payeeSpend'[Bucket'][p] = 0
      BY <2>2, <2>3, <2>4, <2>7, <1>b DEF ExactInv, LaterBucketsFresh, Buckets, Ledgers
    <3>3. Clip(0) = 0
      BY DEF Clip
    <3>4. CountersAreExact' /\ CountersOutliveBucket'
      BY <3>1, <3>2, <3>3 DEF ExactInv, CountersAreExact, CountersOutliveBucket
    <3> QED BY <2>1, <2>5, <3>4 DEF ExactInv, OverlayExact
  <2> QED BY <2>6, <2>7
<1>6. ASSUME AdminFrame PROVE ExactInv'
  BY <1>6, FrameExact
<1>7. CASE UNCHANGED vars
  BY <1>6, <1>7 DEF vars, AdminFrame
<1>8. ASSUME Next PROVE ExactInv'
  BY <1>1, <1>2, <1>3, <1>4, <1>5, <1>6, <1>8
     DEF Next, TransferContexts, AdminFrame, SetDailyCap, SetLifetimeCap, AddToAllowlist,
         RemoveFromAllowlist, SetExpiry, SetFrozen, SetAgentPubkey, TransferAdmin, AcceptAdmin,
         ProposeUpgrade, ExecuteUpgrade, CancelUpgrade, RestoreInstance
<1> QED BY <1>7, <1>8

\* The day, payee and lifetime counters of __check_auth equal the payments it
\* authorised, whatever the day length, the caps and the length of the batches.
THEOREM CountersExact == Spec => []CountersAreExact
<1>1. Init => TypeOK /\ ExactInv
  BY InitTypeOK, InitExact
<1>2. TypeOK /\ ExactInv /\ [Next]_vars => (TypeOK /\ ExactInv)'
  BY NextTypeOK, NextExact
<1>3. ExactInv => CountersAreExact
  BY DEF ExactInv
<1> QED BY <1>1, <1>2, <1>3, PTL DEF Spec

----------------------------------------------------------------------------
\* Caps

\* The transfers a call has accepted so far respect the caps it loaded: nothing
\* can change a cap while the call runs.
OverlayWithinCaps ==
  auth # Idle =>
    /\ auth.total > 0 =>
         auth.day <= dailyCap /\ (lifetimeCap > 0 => auth.lifetime <= lifetimeCap)
    /\ \A p \in Payees : auth.sent[p] > 0 =>
         allowlist[p] # NotListed /\ auth.payee[p] <= allowlist[p]

\* No call is in progress in a new vault.
LEMMA InitWithinCaps == Init => OverlayWithinCaps
BY DEF Init, OverlayWithinCaps

\* Every step keeps the transfers of a call in progress within the caps.
LEMMA NextWithinCaps == TypeOK /\ OverlayWithinCaps /\ [Next]_vars => OverlayWithinCaps'
<1> SUFFICES ASSUME TypeOK, OverlayWithinCaps, [Next]_vars PROVE OverlayWithinCaps'
  OBVIOUS
<1>1. ASSUME auth' = Idle PROVE OverlayWithinCaps'
  BY <1>1 DEF OverlayWithinCaps
<1>2. ASSUME NEW key \in Keys, BeginAuth(key) PROVE OverlayWithinCaps'
  BY <1>2 DEF BeginAuth, OverlayWithinCaps
<1>3. ASSUME NEW to \in Payees, NEW amount \in Amounts, AuthContext(to, amount)
      PROVE  OverlayWithinCaps'
  <2>1. auth \in AuthRecords /\ auth # Idle /\ UNCHANGED policy
    BY <1>3 DEF AuthContext, TypeOK, Idle
  <2>2. auth'.day <= dailyCap' /\ (lifetimeCap' > 0 => auth'.lifetime <= lifetimeCap')
    BY <1>3, <2>1 DEF AuthContext, policy
  <2>3. ASSUME NEW p \in Payees, auth'.sent[p] > 0
        PROVE  allowlist'[p] # NotListed /\ auth'.payee[p] <= allowlist'[p]
    <3>1. CASE p = to
      BY <3>1, <1>3, <2>1 DEF AuthContext, policy, AuthRecords
    <3>2. CASE p # to
      BY <3>2, <1>3, <2>1, <2>3 DEF AuthContext, policy, AuthRecords, OverlayWithinCaps
    <3> QED BY <3>1, <3>2
  <2> QED BY <2>2, <2>3 DEF OverlayWithinCaps
<1>4. CASE UNCHANGED vars
  BY <1>4 DEF vars, policy, OverlayWithinCaps
<1>5. ASSUME Next PROVE OverlayWithinCaps'
  BY <1>1, <1>2, <1>3, <1>5
     DEF Next, TransferContexts, Callable, SetDailyCap, SetLifetimeCap, AddToAllowlist,
         RemoveFromAllowlist, SetExpiry, SetFrozen, SetAgentPubkey, TransferAdmin, AcceptAdmin,
         ProposeUpgrade, ExecuteUpgrade, CancelUpgrade, RejectAuth, CommitAuth, CloseLedger,
         RestoreInstance
<1> QED BY <1>4, <1>5

\* What PaymentsWithinCaps says of one step.
PaymentStepWithinCaps ==
  /\ paidEver' > paidEver =>
       /\ dailyCap < MaxI128 => paidDay' <= dailyCap
       /\ lifetimeCap \in 1..(MaxI128 - 1) => paidEver' <= lifetimeCap
  /\ \A p \in Payees : paidTo'[p] > paidTo[p] =>
       /\ allowlist[p] # NotListed
       /\ allowlist[p] < MaxI128 => paidTo'[p] <= allowlist[p]

\* A clipped amount below a cap that is below i128::MAX was not clipped.
LEMMA ClipBelow ==
  ASSUME NEW x \in Nat, NEW cap \in Int, cap < MaxI128, Clip(x) <= cap
  PROVE  x <= cap
BY AmountsAssumption DEF Clip

\* A step that commits payments commits them within the caps.
LEMMA NextPayments ==
  TypeOK /\ ExactInv /\ OverlayWithinCaps /\ [Next]_vars => PaymentStepWithinCaps
<1> SUFFICES ASSUME TypeOK, ExactInv, OverlayWithinCaps, [Next]_vars
             PROVE  PaymentStepWithinCaps
  OBVIOUS
<1>t. /\ paidEver \in Nat /\ paidDay \in Nat /\ paidTo \in [Payees -> Nat]
      /\ dailyCap \in Int /\ lifetimeCap \in Int
      /\ \A p \in Payees : allowlist[p] \in Int
  <2>1. Caps \subseteq Int /\ NotListed \in Int
    BY AmountsAssumption DEF NotListed
  <2>2. \A p \in Payees : allowlist[p] \in Caps \cup {NotListed}
    BY DEF TypeOK
  <2>3. paidEver \in Nat /\ paidDay \in Nat /\ paidTo \in [Payees -> Nat]
        /\ dailyCap \in Caps /\ lifetimeCap \in Caps
    BY DEF TypeOK
  <2> QED BY <2>1, <2>2, <2>3
<1>1. ASSUME UNCHANGED events PROVE PaymentStepWithinCaps
  BY <1>1, <1>t DEF events, PaymentStepWithinCaps
<1>2. ASSUME CommitAuth PROVE PaymentStepWithinCaps
  <2>1. auth \in AuthRecords /\ auth # Idle
    BY <1>2 DEF CommitAuth, TypeOK, Idle
  <2>2. /\ auth.total \in Nat /\ auth.sent \in [Payees -> Nat]
        /\ auth.day = Clip(paidDay + auth.total)
        /\ auth.lifetime = Clip(paidEver + auth.total)
        /\ \A p \in Payees : auth.payee[p] = Clip(paidTo[p] + auth.sent[p])
    BY <2>1 DEF AuthRecords, ExactInv, OverlayExact
  <2>3. /\ paidDay' = paidDay + auth.total
        /\ paidEver' = paidEver + auth.total
        /\ \A p \in Payees : paidTo'[p] = paidTo[p] + auth.sent[p]
    BY <1>2 DEF CommitAuth
  <2>4. ASSUME paidEver' > paidEver
        PROVE  /\ dailyCap < MaxI128 => paidDay' <= dailyCap
               /\ lifetimeCap \in 1..(MaxI128 - 1) => paidEver' <= lifetimeCap
    <3>1. auth.total > 0
      BY <2>2, <2>3, <2>4, <1>t
    <3>2. auth.day <= dailyCap /\ (lifetimeCap > 0 => auth.lifetime <= lifetimeCap)
      BY <2>1, <3>1 DEF OverlayWithinCaps
    <3> QED BY <1>t, <2>2, <2>3, <3>2, ClipBelow, AmountsAssumption
  <2>5. ASSUME NEW p \in Payees, paidTo'[p] > paidTo[p]
        PROVE  /\ allowlist[p] # NotListed
               /\ allowlist[p] < MaxI128 => paidTo'[p] <= allowlist[p]
    <3>1. auth.sent[p] > 0
      BY <2>2, <2>3, <2>5, <1>t
    <3>2. allowlist[p] # NotListed /\ auth.payee[p] <= allowlist[p]
      BY <2>1, <3>1 DEF OverlayWithinCaps
    <3> QED BY <1>t, <2>2, <2>3, <3>2, ClipBelow
  <2> QED BY <2>4, <2>5 DEF PaymentStepWithinCaps
<1>3. ASSUME CloseLedger PROVE PaymentStepWithinCaps
  BY <1>3, <1>t DEF CloseLedger, PaymentStepWithinCaps
<1>4. CASE UNCHANGED vars
  BY <1>1, <1>4 DEF vars
<1>5. ASSUME Next PROVE PaymentStepWithinCaps
  BY <1>1, <1>2, <1>3, <1>5
     DEF Next, TransferContexts, SetDailyCap, SetLifetimeCap, AddToAllowlist,
         RemoveFromAllowlist, SetExpiry, SetFrozen, SetAgentPubkey, TransferAdmin, AcceptAdmin,
         ProposeUpgrade, ExecuteUpgrade, CancelUpgrade, BeginAuth, AuthContext, RejectAuth,
         RestoreInstance
<1> QED BY <1>4, <1>5

\* However payments are split over transfers, calls and ledgers, none passes the
\* daily cap, the payee's sub-cap or the lifetime cap in force.
THEOREM WithinCaps == Spec => PaymentsWithinCaps
<1>1. Init => TypeOK /\ ExactInv /\ OverlayWithinCaps
  BY InitTypeOK, InitExact, InitWithinCaps
<1>2. TypeOK /\ ExactInv /\ OverlayWithinCaps /\ [Next]_vars
        => (TypeOK /\ ExactInv /\ OverlayWithinCaps)'
  BY NextTypeOK, NextExact, NextWithinCaps
<1>3. TypeOK /\ ExactInv /\ OverlayWithinCaps /\ [Next]_vars => [PaymentStepWithinCaps]_vars
  BY NextPayments
<1> QED BY <1>1, <1>2, <1>3, PTL DEF Spec, PaymentsWithinCaps, PaymentStepWithinCaps

----------------------------------------------------------------------------
\* Upgrades

\* The stored proposal is the announced one, due one notice period later.
ProposalAnnounced ==
  pendingUpgrade # NoUpgrade =>
    /\ announcedAt[pendingUpgrade.hash] # Never
    /\ pendingUpgrade.ready = announcedAt[pendingUpgrade.hash] + UPGRADE_TIMELOCK_LEDGERS

UpgradeInv == ProposalAnnounced /\ NoticeOutlivesArchival

UpgradeStepAfterNotice ==
  wasm' # wasm => /\ announcedAt[wasm'] # Never
                  /\ sequence >= announcedAt[wasm'] + UPGRADE_TIMELOCK_LEDGERS

\* A new vault has no proposal.
LEMMA InitUpgrade == Init => UpgradeInv
BY DEF Init, UpgradeInv, ProposalAnnounced, NoticeOutlivesArchival

\* A bump leaves the instance at least a notice period to live.
LEMMA BumpCoversNotice ==
  ASSUME TypeOK, BumpInstance
  PROVE  instanceLive' >= sequence + UPGRADE_TIMELOCK_LEDGERS
BY InstanceTTLAssumption, LedgerAssumption DEF BumpInstance, Extended, TypeOK, Ledgers

\* Every step keeps the proposal announced and live, and executes none early.
LEMMA NextUpgrade == TypeOK /\ UpgradeInv /\ [Next]_vars => UpgradeInv' /\ UpgradeStepAfterNotice
<1> SUFFICES ASSUME TypeOK, UpgradeInv, [Next]_vars PROVE UpgradeInv' /\ UpgradeStepAfterNotice
  OBVIOUS
<1> USE LedgerAssumption
<1>t. pendingUpgrade # NoUpgrade => pendingUpgrade.hash \in Hashes /\ pendingUpgrade.ready \in Nat
  BY DEF TypeOK, Upgrades, Ledgers
<1>1. ASSUME UNCHANGED upgrade, instanceLive' \in Nat, instanceLive' >= instanceLive
      PROVE  UpgradeInv' /\ UpgradeStepAfterNotice
  <2>1. pendingUpgrade' = pendingUpgrade /\ announcedAt' = announcedAt /\ wasm' = wasm
    BY <1>1 DEF upgrade
  <2>2. NoticeOutlivesArchival'
    BY <1>1, <1>t, <2>1 DEF UpgradeInv, NoticeOutlivesArchival, TypeOK
  <2>3. ProposalAnnounced'
    BY <2>1 DEF UpgradeInv, ProposalAnnounced
  <2> QED BY <2>1, <2>2, <2>3 DEF UpgradeInv, UpgradeStepAfterNotice
<1>2. ASSUME UNCHANGED upgrade, BumpInstance PROVE UpgradeInv' /\ UpgradeStepAfterNotice
  BY <1>1, <1>2, BumpNat
<1>3. ASSUME UNCHANGED upgrade, UNCHANGED instanceLive PROVE UpgradeInv' /\ UpgradeStepAfterNotice
  BY <1>1, <1>3 DEF TypeOK
<1>4. ASSUME NEW h \in Hashes, ProposeUpgrade(h) PROVE UpgradeInv' /\ UpgradeStepAfterNotice
  <2>1. pendingUpgrade'.hash = h /\ pendingUpgrade'.ready = sequence + UPGRADE_TIMELOCK_LEDGERS
    BY <1>4 DEF ProposeUpgrade, UpgradeReadyAt
  <2>2. announcedAt'[h] = sequence /\ sequence # Never /\ wasm' = wasm
    BY <1>4 DEF ProposeUpgrade, TypeOK, Never, Ledgers
  <2>3. instanceLive' >= sequence + UPGRADE_TIMELOCK_LEDGERS
    BY <1>4, BumpCoversNotice DEF ProposeUpgrade
  <2> QED BY <2>1, <2>2, <2>3
      DEF UpgradeInv, ProposalAnnounced, NoticeOutlivesArchival, UpgradeStepAfterNotice
<1>5. ASSUME ExecuteUpgrade PROVE UpgradeInv' /\ UpgradeStepAfterNotice
  <2>1. UpgradeInv'
    BY <1>5 DEF ExecuteUpgrade, UpgradeInv, ProposalAnnounced, NoticeOutlivesArchival
  <2>2. UpgradeStepAfterNotice
    BY <1>5, <1>t DEF ExecuteUpgrade, UpgradeInv, ProposalAnnounced, UpgradeStepAfterNotice
  <2> QED BY <2>1, <2>2
<1>6. ASSUME CancelUpgrade PROVE UpgradeInv' /\ UpgradeStepAfterNotice
  BY <1>6 DEF CancelUpgrade, UpgradeInv, ProposalAnnounced, NoticeOutlivesArchival,
        UpgradeStepAfterNotice
<1>7. ASSUME RestoreInstance PROVE UpgradeInv' /\ UpgradeStepAfterNotice
  <2>1. instanceLive' \in Nat /\ instanceLive' >= instanceLive
    BY <1>7 DEF RestoreInstance, TypeOK, Ledgers
  <2> QED BY <1>1, <1>7, <2>1 DEF RestoreInstance
<1>8. CASE UNCHANGED vars
  BY <1>3, <1>8 DEF vars
<1>9. ASSUME Next PROVE UpgradeInv' /\ UpgradeStepAfterNotice
  BY <1>2, <1>3, <1>4, <1>5, <1>6, <1>7, <1>9
     DEF Next, TransferContexts, SetDailyCap, SetLifetimeCap, AddToAllowlist,
         RemoveFromAllowlist, SetExpiry, SetFrozen, SetAgentPubkey, TransferAdmin, AcceptAdmin,
         BeginAuth, AuthContext, RejectAuth, CommitAuth, CloseLedger
<1> QED BY <1>8, <1>9

\* The stored proposal is always the announced one and outlives its notice.
LEMMA UpgradeInvariant == Spec => []UpgradeInv
<1>1. Init => TypeOK /\ UpgradeInv
  BY InitTypeOK, InitUpgrade
<1>2. TypeOK /\ UpgradeInv /\ [Next]_vars => (TypeOK /\ UpgradeInv)'
  BY NextTypeOK, NextUpgrade
<1> QED BY <1>1, <1>2, PTL DEF Spec

\* The code changes only to a hash announced a full notice period earlier and
\* neither cancelled nor replaced since.
THEOREM UpgradeNotice == Spec => UpgradeOnlyAfterNotice
<1>1. TypeOK /\ UpgradeInv /\ [Next]_vars => [UpgradeStepAfterNotice]_vars
  BY NextUpgrade
<1> QED BY <1>1, TypeCorrect, UpgradeInvariant, PTL
        DEF Spec, UpgradeOnlyAfterNotice, UpgradeStepAfterNotice

\* A standing proposal is still live when its notice ends.
THEOREM NoticeLive == Spec => []NoticeOutlivesArchival
<1>1. UpgradeInv => NoticeOutlivesArchival
  BY DEF UpgradeInv
<1> QED BY <1>1, UpgradeInvariant, PTL
=============================================================================
