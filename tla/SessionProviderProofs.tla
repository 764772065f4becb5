------------------------ MODULE SessionProviderProofs ------------------------
(***************************************************************************)
(* Proofs about SessionProvider and SessionRecovery for every number of    *)
(* vouchers, DELETEs, evictions, callbacks, runs and faults.  What a       *)
(* continuation carries was read from a record or an entry that only       *)
(* verified vouchers reach; mppx's entry, which no served voucher exceeds, *)
(* is a floor under every close; and the hash of the close is one token,   *)
(* which the DELETE, the statements it leaves or a reconciler's run hands  *)
(* on until tx_log has it, or it is lost.  From the floor and what rows    *)
(* may name, both implement Channel.                                       *)
(***************************************************************************)
EXTENDS SessionRecovery, TLAPS

\* The calls' records are built of amounts.
LEMMA AmountFacts ==
  /\ 0 \in Amounts /\ Vouchers \subseteq Amounts /\ Vouchers \subseteq Nat /\ Amounts \subseteq Nat
  /\ NoBody \in Closes /\ Bodies \subseteq Closes
  /\ \A v \in Vouchers : v # 0
BY ProviderAssumption DEF Amounts, Vouchers, NoBody, Closes

\* Negation is a Boolean.
LEMMA NegationIsBoolean == ASSUME NEW b \in BOOLEAN PROVE (~b) \in BOOLEAN
OBVIOUS

\* What a load leaves in memory has its type.
LEMMA LoadTypes ==
  ASSUME TypeOK, NEW call, call.val \in Amounts
  PROVE  RecordAfter(call) \in Amounts /\ OpenedAfter(call) \in BOOLEAN
BY DEF TypeOK, RecordAfter, OpenedAfter

\* The store answers with an amount.
LEMMA AnswerTypes == ASSUME NEW entry \in Amounts PROVE Answers(entry) \subseteq Amounts
BY AmountFacts DEF Answers

\* The types hold at first.
LEMMA InitTypeOK == Init => TypeOK
<1> SUFFICES ASSUME Init PROVE TypeOK OBVIOUS
<1>1. commits \in [Vouchers -> [st : CallStates \cup {"unsent", "verified", "put", "emit", "done", "failed"},
                               val : Amounts, opens : BOOLEAN]]
  BY AmountFacts DEF Init, Commit
<1>2. deletes \in [Deletes -> [st : CallStates \cup {"unsent", "body", "floor", "closing",
                                   "closed", "deleting", "done", "answered", "abandoned"},
                              body : Closes, val : Amounts, seen : SUBSET Vouchers]]
  BY AmountFacts DEF Init, Delete
<1>3. orphans \in [Reasons -> [st : CallStates \cup {"off"}, val : Amounts]]
  BY AmountFacts DEF Init
<1>4. evictions \in 0..MaxEvictions BY ProviderAssumption DEF Init
<1> QED BY <1>1, <1>2, <1>3, <1>4, AmountFacts DEF Init, TypeOK

\* Every step of a voucher's request keeps the types.
LEMMA CommitTypeOK ==
  ASSUME TypeOK, NEW v \in Vouchers, Verify(v) \/ CommitStep(v)
  PROVE  TypeOK'
<1> USE AmountFacts DEF TypeOK, CallStates, Commit, memory, store, observed
<1>1. CASE Verify(v) BY <1>1 DEF Verify
<1>2. CASE StartCommit(v) BY <1>2 DEF StartCommit, LoadState
<1>3. CASE StoreAnswersCommit(v) BY <1>3, AnswerTypes DEF StoreAnswersCommit
<1>4. CASE RecordVoucher(v)
  <2>1. RecordAfter(commits[v]) \in Amounts /\ OpenedAfter(commits[v]) \in BOOLEAN BY LoadTypes
  <2>2. \A st \in {"done", "put"}, opens \in BOOLEAN :
          [commits EXCEPT ![v] = Commit(st, 0, opens)]
            \in [Vouchers -> [st : CallStates \cup {"unsent", "verified", "put", "emit", "done", "failed"},
                              val : Amounts, opens : BOOLEAN]]
    OBVIOUS
  <2> HIDE DEF Commit, CallStates
  <2>3. CASE RecordAfter(commits[v]) > v
    <3>1. commits' = [commits EXCEPT ![v] = Commit("done", 0, FALSE)] BY <1>4, <2>3 DEF RecordVoucher
    <3>2. /\ record' = RecordAfter(commits[v]) /\ opened' = OpenedAfter(commits[v])
          /\ served' = served \cup {v} /\ armed' = TRUE /\ listeners' \in {listeners, listeners + 1}
          /\ UNCHANGED <<orphanFlagged, settledCleanly, idle, promised>>
      BY <1>4, <2>3 DEF RecordVoucher, LetThrough
    <3>3. UNCHANGED <<persisted, cumulative, settled, deletes, orphans, posts, evictions>>
      BY <1>4 DEF RecordVoucher
    <3>4. commits' \in [Vouchers -> [st : CallStates \cup {"unsent", "verified", "put", "emit", "done", "failed"},
                                   val : Amounts, opens : BOOLEAN]]
      BY <2>2, <3>1
    <3>5. listeners' \in Nat /\ served' \subseteq Vouchers BY <3>2
    <3> QED BY <2>1, <3>2, <3>3, <3>4, <3>5
  <2>4. CASE ~(RecordAfter(commits[v]) > v)
    <3>1. commits' = [commits EXCEPT ![v] = Commit("put", 0, ~OpenedAfter(commits[v]))]
      BY <1>4, <2>4 DEF RecordVoucher
    <3>2. /\ record' = v /\ opened' = TRUE /\ orphanFlagged' = FALSE /\ settledCleanly' = FALSE
          /\ idle' \in BOOLEAN /\ UNCHANGED <<armed, listeners, served, promised>>
      BY <1>4, <2>4, ProviderAssumption DEF RecordVoucher, ArmIdleTimer
    <3>3. UNCHANGED <<persisted, cumulative, settled, deletes, orphans, posts, evictions>>
      BY <1>4 DEF RecordVoucher
    <3>4. (~OpenedAfter(commits[v])) \in BOOLEAN BY <2>1, NegationIsBoolean
    <3>5. commits' \in [Vouchers -> [st : CallStates \cup {"unsent", "verified", "put", "emit", "done", "failed"},
                              val : Amounts, opens : BOOLEAN]]
      BY <2>2, <3>1, <3>4
    <3> QED BY <3>2, <3>3, <3>5
  <2> QED BY <2>3, <2>4
<1>5. CASE PutResolves(v)
  <2>1. commits' \in [Vouchers -> [st : CallStates \cup {"unsent", "verified", "put", "emit", "done", "failed"},
                                 val : Amounts, opens : BOOLEAN]]
    BY <1>5 DEF PutResolves
  <2>2. /\ armed' \in BOOLEAN /\ listeners' \in Nat /\ served' \subseteq Vouchers
        /\ UNCHANGED promised
    <3>1. CASE record # 0
      <4>1. /\ served' = served \cup {v} /\ armed' = TRUE /\ listeners' \in {listeners, listeners + 1}
            /\ UNCHANGED promised
        BY <1>5, <3>1 DEF PutResolves, LetThrough
      <4> QED BY <4>1
    <3>2. CASE record = 0 BY <1>5, <3>2 DEF PutResolves
    <3> QED BY <3>1, <3>2
  <2>3. /\ persisted' = v
        /\ UNCHANGED <<record, opened, orphanFlagged, settledCleanly, idle, cumulative, settled,
                      deletes, orphans, posts, evictions>>
    BY <1>5 DEF PutResolves
  <2> QED BY <2>1, <2>2, <2>3
<1>6. CASE PutFails(v) BY <1>6 DEF PutFails
<1>7. CASE EmitCallbacks(v)
  <2>1. posts' \subseteq Posts
    BY <1>7 DEF EmitCallbacks, Post, Posts
  <2> QED BY <1>7, <2>1 DEF EmitCallbacks
<1> QED BY <1>1, <1>2, <1>3, <1>4, <1>5, <1>6, <1>7 DEF CommitStep

\* Every step of the orphan guard keeps the types.
LEMMA OrphanTypeOK ==
  ASSUME TypeOK, NEW r \in Reasons, Trigger(r) \/ OrphanStep(r)
  PROVE  TypeOK'
<1> USE AmountFacts DEF TypeOK, CallStates, memory, store, observed
<1>1. CASE Trigger(r)
  <2>1. orphans' = [orphans EXCEPT ![r] = [st |-> LoadState, val |-> 0]]
    BY <1>1 DEF Trigger
  <2>2. LoadState \in CallStates BY DEF LoadState
  <2>3. orphans' \in [Reasons -> [st : CallStates \cup {"off"}, val : Amounts]] BY <2>1, <2>2
  <2>4. idle' \in BOOLEAN /\ listeners' \in Nat
    <3>1. CASE r = "idle-timeout"
      <4>1. idle' = FALSE /\ listeners' = listeners BY <1>1, <3>1 DEF Trigger
      <4> QED BY <4>1
    <3>2. CASE r # "idle-timeout"
      <4>1. idle' = idle /\ listeners > 0 /\ listeners' = listeners - 1 BY <1>1, <3>2 DEF Trigger
      <4> QED BY <4>1
    <3> QED BY <3>1, <3>2
  <2>5. UNCHANGED <<record, opened, orphanFlagged, settledCleanly, armed, persisted, cumulative, settled,
                    commits, deletes, posts, evictions, served, promised>>
    BY <1>1 DEF Trigger
  <2> QED BY <2>3, <2>4, <2>5
<1>2. CASE StoreAnswersOrphan(r) BY <1>2, AnswerTypes DEF StoreAnswersOrphan
<1>3. CASE FlagOrphan(r)
  <2>1. RecordAfter(orphans[r]) \in Amounts /\ OpenedAfter(orphans[r]) \in BOOLEAN BY LoadTypes
  <2>2. posts' \subseteq Posts
    BY <1>3, <2>1 DEF FlagOrphan, Post, Posts
  <2> QED BY <1>3, <2>1, <2>2 DEF FlagOrphan
<1> QED BY <1>1, <1>2, <1>3 DEF OrphanStep

\* Every step of a DELETE keeps the types.
LEMMA DeleteTypeOK ==
  ASSUME TypeOK, NEW d \in Deletes, (\E body \in Bodies : ReceiveDelete(d, body)) \/ DeleteStep(d)
  PROVE  TypeOK'
<1> USE AmountFacts DEF TypeOK, CallStates, Delete, memory, store, observed
<1>1. ASSUME NEW body \in Bodies, ReceiveDelete(d, body) PROVE TypeOK'
  BY <1>1 DEF ReceiveDelete, LoadState
<1>2. CASE StoreAnswersDelete(d) BY <1>2, AnswerTypes DEF StoreAnswersDelete
<1>3. CASE ParseDelete(d)
  <2>1. RecordAfter(deletes[d]) \in Amounts /\ OpenedAfter(deletes[d]) \in BOOLEAN BY LoadTypes
  <2> QED BY <1>3, <2>1 DEF ParseDelete
<1>4. CASE ChooseClose(d)
  <2>1. deletes[d].body \in Closes OBVIOUS
  <2>2. CloseAmount(deletes[d].body) \in Amounts /\ CloseSig(deletes[d].body) \in Amounts
    BY <2>1 DEF CloseAmount, CloseSig, Closes
  <2>3. [amount |-> CloseAmount(deletes[d].body), sig |-> CloseSig(deletes[d].body)] \in Closes
    BY <2>2 DEF Closes
  <2> QED BY <1>4, <2>3 DEF ChooseClose
<1>5. CASE CheckFloor(d) BY <1>5 DEF CheckFloor, StoredCumulative
<1>6. CASE ChainCloses(d)
  <2>1. deletes[d].body.amount \in Amounts BY DEF Closes
  <2> QED BY <1>6, <2>1 DEF ChainCloses
<1>7. CASE ChainFails(d) BY <1>7 DEF ChainFails
<1>8. CASE FinishClose(d)
  <2>1. deletes[d].body.amount \in Amounts BY DEF Closes
  <2>2. posts' \subseteq Posts
    BY <1>8, <2>1 DEF FinishClose, Post, Posts
  <2> QED BY <1>8, <2>2 DEF FinishClose
<1>9. CASE RecordDeleted(d) BY <1>9 DEF RecordDeleted
<1>10. CASE RecordNotDeleted(d) BY <1>10 DEF RecordNotDeleted
<1> QED BY <1>1, <1>2, <1>3, <1>4, <1>5, <1>6, <1>7, <1>8, <1>9, <1>10 DEF DeleteStep

\* Every step keeps the types.
LEMMA NextTypeOK == TypeOK /\ [Next]_vars => TypeOK'
<1> SUFFICES ASSUME TypeOK, [Next]_vars PROVE TypeOK' OBVIOUS
<1>1. CASE Evict
  <2>1. LateWrites \subseteq Amounts BY AmountFacts DEF LateWrites
  <2>2. commits' \in [Vouchers -> [st : CallStates \cup {"unsent", "verified", "put", "emit", "done", "failed"},
                                   val : Amounts, opens : BOOLEAN]]
    BY <1>1, AmountFacts DEF Evict, TypeOK, Commit, CallStates
  <2>3. deletes' \in [Deletes -> [st : CallStates \cup {"unsent", "body", "floor", "closing",
                                   "closed", "deleting", "done", "answered", "abandoned"},
                                  body : Closes, val : Amounts, seen : SUBSET Vouchers]]
    BY <1>1, AmountFacts DEF Evict, TypeOK, Delete, CallStates
  <2>4. orphans' \in [Reasons -> [st : CallStates \cup {"off"}, val : Amounts]]
    BY <1>1, AmountFacts DEF Evict
  <2>5. persisted' \in Amounts /\ evictions' \in 0..MaxEvictions
    BY <1>1, <2>1, ProviderAssumption DEF Evict, TypeOK
  <2>6. /\ record' = 0 /\ opened' = FALSE /\ orphanFlagged' = FALSE /\ settledCleanly' = FALSE
        /\ idle' = FALSE /\ armed' = FALSE /\ listeners' = 0
    BY <1>1 DEF Evict, FreshMemory
  <2>7. UNCHANGED <<cumulative, settled, posts, served, promised>> BY <1>1 DEF Evict, observed
  <2> QED BY <2>2, <2>3, <2>4, <2>5, <2>6, <2>7, AmountFacts DEF TypeOK
<1>2. CASE UNCHANGED vars
  BY <1>2 DEF vars, memory, store, calls, observed, TypeOK
<1> QED BY <1>1, <1>2, CommitTypeOK, OrphanTypeOK, DeleteTypeOK DEF Next

\* The types hold always.
THEOREM TypeCorrect == Spec => []TypeOK
BY InitTypeOK, NextTypeOK, PTL DEF Spec

----------------------------------------------------------------------------
\* What was verified, and what is carried: the amounts in the record, its entry,
\* the loads between their read and their continuation, and the callbacks.
VerifiedAmounts == {0} \cup {v \in Vouchers : commits[v].st # "unsent"}

Carried(K) ==
  /\ record \in K /\ persisted \in K
  /\ \A v \in Vouchers : commits[v].val \in K
  /\ \A d \in Deletes : deletes[d].val \in K
  /\ \A r \in Reasons : orphans[r].val \in K
  /\ \A p \in posts : p.kind \in {"voucher", "orphan"} => p.amount \in K /\ p.sig \in K

Provenance == Carried(VerifiedAmounts)

\* A step of a voucher's request, the only ones that move it, leaves it verified.
LEMMA CommitMoves ==
  ASSUME TypeOK, NEW v \in Vouchers, Verify(v) \/ CommitStep(v)
  PROVE  \E c : c.st # "unsent" /\ commits' = [commits EXCEPT ![v] = c]
<1> USE DEF TypeOK, Commit
<1>1. CASE Verify(v) BY <1>1 DEF Verify
<1>2. CASE StartCommit(v) BY <1>2 DEF StartCommit, LoadState
<1>3. CASE StoreAnswersCommit(v) BY <1>3 DEF StoreAnswersCommit
<1>4. CASE RecordVoucher(v)
  <2>1. CASE RecordAfter(commits[v]) > v
    <3>1. commits' = [commits EXCEPT ![v] = Commit("done", 0, FALSE)] BY <1>4, <2>1 DEF RecordVoucher
    <3>2. Commit("done", 0, FALSE).st # "unsent" OBVIOUS
    <3> HIDE DEF Commit
    <3> QED BY <3>1, <3>2
  <2>2. CASE ~(RecordAfter(commits[v]) > v)
    <3>1. commits' = [commits EXCEPT ![v] = Commit("put", 0, ~OpenedAfter(commits[v]))]
      BY <1>4, <2>2 DEF RecordVoucher
    <3>2. Commit("put", 0, ~OpenedAfter(commits[v])).st # "unsent" OBVIOUS
    <3> HIDE DEF Commit
    <3> QED BY <3>1, <3>2
  <2> QED BY <2>1, <2>2
<1>5. CASE PutResolves(v) BY <1>5 DEF PutResolves
<1>6. CASE PutFails(v) BY <1>6 DEF PutFails
<1>7. CASE EmitCallbacks(v) BY <1>7 DEF EmitCallbacks
<1> QED BY <1>1, <1>2, <1>3, <1>4, <1>5, <1>6, <1>7 DEF CommitStep

\* The orphan guard and the DELETEs move no voucher's request.
LEMMA OthersKeepCommits ==
  /\ \A r \in Reasons : Trigger(r) \/ OrphanStep(r) => UNCHANGED commits
  /\ \A d \in Deletes : (\E body \in Bodies : ReceiveDelete(d, body)) \/ DeleteStep(d) => UNCHANGED commits
BY DEF Trigger, OrphanStep, StoreAnswersOrphan, FlagOrphan, ReceiveDelete, DeleteStep,
       StoreAnswersDelete, ParseDelete, ChooseClose, CheckFloor, StoredCumulative, ChainCloses, ChainFails,
       FinishClose, RecordDeleted, RecordNotDeleted

\* No step takes back a verification.
LEMMA VerifiedForever ==
  ASSUME TypeOK, [Next]_vars
  PROVE  VerifiedAmounts \subseteq VerifiedAmounts'
<1> USE DEF VerifiedAmounts
<1>1. ASSUME NEW v \in Vouchers, Verify(v) \/ CommitStep(v)
      PROVE VerifiedAmounts \subseteq VerifiedAmounts'
  <2>1. PICK c : c.st # "unsent" /\ commits' = [commits EXCEPT ![v] = c] BY <1>1, CommitMoves
  <2> QED BY <2>1 DEF TypeOK
<1>2. CASE Evict
  <2>1. commits' = [v \in Vouchers |-> IF commits[v].st = "unsent" THEN commits[v] ELSE Commit("done", 0, FALSE)]
    BY <1>2 DEF Evict
  <2> QED BY <2>1 DEF Commit
<1>3. UNCHANGED commits => VerifiedAmounts \subseteq VerifiedAmounts' OBVIOUS
<1>4. UNCHANGED vars => UNCHANGED commits BY DEF vars, calls
<1> QED BY <1>1, <1>2, <1>3, <1>4, OthersKeepCommits DEF Next

\* The load's continuation assigns what is carried.
LEMMA LoadCarries ==
  ASSUME NEW K, Carried(K), NEW call, call.val \in K
  PROVE  RecordAfter(call) \in K
BY DEF Carried, RecordAfter

\* The store answers with the entry or with nothing.
LEMMA AnswersCarry == ASSUME NEW K, 0 \in K, NEW entry \in K PROVE Answers(entry) \subseteq K
BY DEF Answers

\* Every step of a voucher's request carries only what is verified.
LEMMA CommitCarries ==
  ASSUME TypeOK, NEW K, K = VerifiedAmounts, Carried(K),
         NEW v \in Vouchers, Verify(v) \/ CommitStep(v)
  PROVE  Carried(K)'
<1> USE DEF Carried, TypeOK, Commit, memory, store, observed
<1>0. 0 \in K /\ (commits[v].st # "unsent" => v \in K) BY DEF VerifiedAmounts
<1>1. CASE Verify(v) BY <1>0, <1>1 DEF Verify
<1>2. CASE StartCommit(v) BY <1>0, <1>2 DEF StartCommit
<1>3. CASE StoreAnswersCommit(v) BY <1>0, <1>3, AnswersCarry DEF StoreAnswersCommit
<1>4. CASE RecordVoucher(v)
  <2>1. RecordAfter(commits[v]) \in K BY LoadCarries
  <2>2. v \in K BY <1>0, <1>4 DEF RecordVoucher, Loaded
  <2>3. record' \in K
    <3>1. CASE RecordAfter(commits[v]) > v BY <1>4, <2>1, <3>1 DEF RecordVoucher
    <3>2. CASE ~(RecordAfter(commits[v]) > v) BY <1>4, <2>2, <3>2 DEF RecordVoucher
    <3> QED BY <3>1, <3>2
  <2>4. \A w \in Vouchers : commits'[w].val \in K
    <3>1. CASE RecordAfter(commits[v]) > v
      <4>1. commits' = [commits EXCEPT ![v] = Commit("done", 0, FALSE)] BY <1>4, <3>1 DEF RecordVoucher
      <4> QED BY <1>0, <4>1
    <3>2. CASE ~(RecordAfter(commits[v]) > v)
      <4>1. commits' = [commits EXCEPT ![v] = Commit("put", 0, ~OpenedAfter(commits[v]))]
        BY <1>4, <3>2 DEF RecordVoucher
      <4>2. Commit("put", 0, ~OpenedAfter(commits[v])).val = 0 OBVIOUS
      <4> HIDE DEF Commit
      <4> QED BY <1>0, <4>1, <4>2
    <3> QED BY <3>1, <3>2
  <2>5. UNCHANGED <<persisted, deletes, orphans, posts>> BY <1>4 DEF RecordVoucher
  <2> QED BY <2>3, <2>4, <2>5
<1>5. CASE PutResolves(v) BY <1>0, <1>5 DEF PutResolves
<1>6. CASE PutFails(v) BY <1>0, <1>6 DEF PutFails
<1>7. CASE EmitCallbacks(v)
  <2>1. \A p \in posts' : p.kind \in {"voucher", "orphan"} => p.amount \in K /\ p.sig \in K
    BY <1>7 DEF EmitCallbacks, Post
  <2> QED BY <1>0, <1>7, <2>1 DEF EmitCallbacks
<1> QED BY <1>1, <1>2, <1>3, <1>4, <1>5, <1>6, <1>7 DEF CommitStep

\* So does every step of the orphan guard.
LEMMA OrphanCarries ==
  ASSUME TypeOK, NEW K, 0 \in K, Carried(K), NEW r \in Reasons, Trigger(r) \/ OrphanStep(r)
  PROVE  Carried(K)'
<1> USE DEF Carried, TypeOK, memory, store, observed
<1>1. CASE Trigger(r)
  <2>1. orphans' = [orphans EXCEPT ![r] = [st |-> LoadState, val |-> 0]] BY <1>1 DEF Trigger
  <2> QED BY <1>1, <2>1 DEF Trigger
<1>2. CASE StoreAnswersOrphan(r) BY <1>2, AnswersCarry DEF StoreAnswersOrphan
<1>3. CASE FlagOrphan(r)
  <2>1. RecordAfter(orphans[r]) \in K BY LoadCarries
  <2>2. \A p \in posts' : p.kind \in {"voucher", "orphan"} => p.amount \in K /\ p.sig \in K
    BY <1>3, <2>1 DEF FlagOrphan, Post
  <2> QED BY <1>3, <2>1, <2>2 DEF FlagOrphan
<1> QED BY <1>1, <1>2, <1>3 DEF OrphanStep

\* And every step of a DELETE, whatever its body names.
LEMMA DeleteCarries ==
  ASSUME TypeOK, NEW K, 0 \in K, Carried(K),
         NEW d \in Deletes, (\E body \in Bodies : ReceiveDelete(d, body)) \/ DeleteStep(d)
  PROVE  Carried(K)'
<1> USE DEF Carried, TypeOK, Delete, memory, store, observed
<1>1. ASSUME NEW body \in Bodies, ReceiveDelete(d, body) PROVE Carried(K)' BY <1>1 DEF ReceiveDelete
<1>2. CASE StoreAnswersDelete(d) BY <1>2, AnswersCarry DEF StoreAnswersDelete
<1>3. CASE ParseDelete(d)
  <2>1. RecordAfter(deletes[d]) \in K BY LoadCarries
  <2> QED BY <1>3, <2>1 DEF ParseDelete
<1>4. CASE ChooseClose(d) BY <1>4 DEF ChooseClose
<1>5. CASE CheckFloor(d) BY <1>5 DEF CheckFloor, StoredCumulative
<1>6. CASE ChainCloses(d) BY <1>6 DEF ChainCloses
<1>7. CASE ChainFails(d) BY <1>7 DEF ChainFails
<1>8. CASE FinishClose(d)
  <2>1. \A p \in posts' : p.kind \in {"voucher", "orphan"} => p.amount \in K /\ p.sig \in K
    BY <1>8 DEF FinishClose, Post
  <2> QED BY <1>8, <2>1 DEF FinishClose
<1>9. CASE RecordDeleted(d) BY <1>9 DEF RecordDeleted
<1>10. CASE RecordNotDeleted(d) BY <1>10 DEF RecordNotDeleted
<1> QED BY <1>1, <1>2, <1>3, <1>4, <1>5, <1>6, <1>7, <1>8, <1>9, <1>10 DEF DeleteStep

\* An eviction keeps no memory, and the writes that arrive late were verified.
LEMMA EvictCarries ==
  ASSUME TypeOK, NEW K, K = VerifiedAmounts, Carried(K), Evict
  PROVE  Carried(K)'
<1>1. LateWrites \subseteq K BY DEF LateWrites, VerifiedAmounts
<1>2. 0 \in K BY DEF VerifiedAmounts
<1>3. record' \in K /\ persisted' \in K BY <1>1, <1>2 DEF Evict, FreshMemory, Carried
<1>4. \A v \in Vouchers : commits'[v].val \in K BY <1>2 DEF Evict, Commit, Carried
<1>5. \A d \in Deletes : deletes'[d].val \in K BY <1>2 DEF Evict, Delete, Carried
<1>6. \A r \in Reasons : orphans'[r].val \in K BY <1>2 DEF Evict
<1>7. UNCHANGED posts BY DEF Evict
<1> QED BY <1>3, <1>4, <1>5, <1>6, <1>7 DEF Carried

\* Every step keeps the provenance.
LEMMA NextProvenance == TypeOK /\ Provenance /\ [Next]_vars => Provenance'
<1> SUFFICES ASSUME TypeOK, Provenance, [Next]_vars PROVE Provenance' OBVIOUS
<1>1. PICK K : K = VerifiedAmounts OBVIOUS
<1>2. 0 \in K /\ Carried(K) BY <1>1 DEF VerifiedAmounts, Provenance
<1>3. Carried(K)'
  <2>1. CASE UNCHANGED vars BY <1>2, <2>1 DEF vars, memory, store, calls, observed, Carried
  <2> QED BY <1>1, <1>2, <2>1, CommitCarries, OrphanCarries, DeleteCarries, EvictCarries DEF Next
<1>4. K \subseteq VerifiedAmounts' BY <1>1, VerifiedForever
<1> QED BY <1>3, <1>4 DEF Provenance, Carried

\* Nothing but verified vouchers reaches the record, its entry and the callbacks.
THEOREM OnlyVerifiedReported == Spec => []ReportsAreVerified
<1>1. Init => Provenance
  BY DEF Init, Provenance, Carried, VerifiedAmounts, Commit, Delete, NoBody
<1>2. Provenance => ReportsAreVerified
  BY DEF Provenance, Carried, VerifiedAmounts, ReportsAreVerified, Verified
<1> QED BY <1>1, <1>2, InitTypeOK, NextTypeOK, NextProvenance, PTL DEF Spec

----------------------------------------------------------------------------
\* With a store that can be read, mppx's entry is a floor: no verified voucher is
\* above it, so none that a DELETE found served is, and no close on its way is below
\* the vouchers it found.
Floor ==
  /\ \A v \in Vouchers : commits[v].st # "unsent" => v <= cumulative
  /\ \A v \in served : v <= cumulative
  /\ \A d \in Deletes : \A v \in deletes[d].seen :
       /\ v <= cumulative
       /\ deletes[d].st \in {"closing", "abandoned"} => v <= deletes[d].body.amount
  /\ SettlementCoversServed

\* A step of a voucher's request keeps the floor: only Verify moves it, upwards.
LEMMA CommitFloor ==
  ASSUME TypeOK, Floor, NEW v \in Vouchers, Verify(v) \/ CommitStep(v)
  PROVE  Floor'
<1> USE DEF TypeOK
<1>1. v \in Nat /\ Vouchers \subseteq Nat /\ cumulative \in Nat BY AmountFacts
<1>2. UNCHANGED <<deletes, settled, promised>>
  BY DEF Verify, CommitStep, StartCommit, StoreAnswersCommit, RecordVoucher, LetThrough, PutResolves,
         PutFails, EmitCallbacks, observed
<1>3. PICK c : c.st # "unsent" /\ commits' = [commits EXCEPT ![v] = c] BY CommitMoves
<1>4. CASE Verify(v)
  <2>1. cumulative' = v /\ v > cumulative /\ served' = served BY <1>4 DEF Verify, observed
  <2>2. \A w \in Vouchers : w <= cumulative => w <= cumulative' BY <1>1, <2>1
  <2>3. v <= cumulative' BY <1>1, <2>1
  <2>4. \A w \in Vouchers : commits'[w].st # "unsent" => w <= cumulative'
    BY <1>3, <2>2, <2>3 DEF Floor
  <2>5. \A w \in served' : w <= cumulative' BY <2>1, <2>2 DEF Floor
  <2>6. \A d \in Deletes : \A w \in deletes[d].seen : w \in Vouchers OBVIOUS
  <2> QED BY <1>2, <2>2, <2>4, <2>5, <2>6 DEF Floor, SettlementCoversServed
<1>5. CASE CommitStep(v)
  <2>1. commits[v].st # "unsent" /\ cumulative' = cumulative /\ served' \subseteq served \cup {v}
    BY <1>5 DEF CommitStep, StartCommit, StoreAnswersCommit, RecordVoucher, Loaded, LetThrough,
                PutResolves, PutFails, EmitCallbacks, observed, store
  <2>2. v <= cumulative BY <2>1 DEF Floor
  <2>3. \A w \in Vouchers : commits'[w].st # "unsent" => w <= cumulative
    BY <1>3, <2>2 DEF Floor
  <2>4. \A w \in served' : w <= cumulative BY <2>1, <2>2 DEF Floor
  <2> QED BY <1>2, <2>1, <2>3, <2>4 DEF Floor, SettlementCoversServed
<1> QED BY <1>4, <1>5

\* The steps of a DELETE that leave what it found served or forget it.
LEMMA DeleteFloor ==
  ASSUME TypeOK, Floor, "read" \notin StoreFailures,
         NEW d \in Deletes, (\E body \in Bodies : ReceiveDelete(d, body)) \/ DeleteStep(d)
  PROVE  Floor'
<1> USE DEF TypeOK
<1>1. ASSUME NEW x, deletes' = [deletes EXCEPT ![d] = x], x.seen \subseteq deletes[d].seen,
             x.st \in {"closing", "abandoned"} => \A v \in x.seen : v <= x.body.amount,
             UNCHANGED <<commits, served, cumulative, settled, promised>>
      PROVE Floor'
  BY <1>1 DEF Floor, SettlementCoversServed
<1>2. ASSUME NEW body \in Bodies, ReceiveDelete(d, body) PROVE Floor'
  <2>1. deletes' = [deletes EXCEPT ![d] = Delete(LoadState, body, 0, served)] BY <1>2 DEF ReceiveDelete
  <2>2. LoadState \notin {"closing", "abandoned"} BY DEF LoadState
  <2>3. UNCHANGED <<commits, served, cumulative, settled, promised>>
    BY <1>2 DEF ReceiveDelete, observed, store
  <2> QED BY <2>1, <2>2, <2>3 DEF Floor, Delete, SettlementCoversServed
<1>3. CASE StoreAnswersDelete(d)
  BY <1>1, <1>3 DEF StoreAnswersDelete, Delete, store, observed
<1>4. CASE ParseDelete(d) BY <1>1, <1>4 DEF ParseDelete, Delete, store, observed
<1>5. CASE ChooseClose(d) BY <1>1, <1>5 DEF ChooseClose, Delete, store, observed
<1>6. CASE CheckFloor(d)
  <2>1. Answers(cumulative) = {cumulative} BY DEF Answers
  <2>2. deletes[d].body.amount \in Nat /\ cumulative \in Nat /\ Vouchers \subseteq Nat
        /\ deletes[d].seen \subseteq Vouchers
    BY AmountFacts DEF Closes
  <2>3. UNCHANGED <<commits, served, cumulative, settled, promised>>
    BY <1>6 DEF CheckFloor, StoredCumulative, store, observed
  <2>4. CASE deletes[d].body.amount < cumulative
    <3>1. deletes' = [deletes EXCEPT ![d] = Delete("answered", NoBody, 0, {})]
      BY <1>6, <2>1, <2>4 DEF CheckFloor, StoredCumulative
    <3> QED BY <1>1, <2>3, <3>1 DEF Delete
  <2>5. CASE ~(deletes[d].body.amount < cumulative)
    <3>1. deletes' = [deletes EXCEPT ![d] = Delete("closing", deletes[d].body, 0, deletes[d].seen)]
      BY <1>6, <2>1, <2>5 DEF CheckFloor, StoredCumulative
    <3>2. \A v \in deletes[d].seen : v <= cumulative BY DEF Floor
    <3>3. \A v \in deletes[d].seen : v <= deletes[d].body.amount BY <2>2, <2>5, <3>2
    <3> QED BY <1>1, <2>3, <3>1, <3>3 DEF Delete
  <2> QED BY <2>4, <2>5
<1>7. CASE ChainCloses(d)
  <2>1. /\ settled' = deletes[d].body.amount /\ promised' = deletes[d].seen
        /\ deletes[d].st \in {"closing", "abandoned"}
        /\ UNCHANGED <<commits, served, cumulative>>
    BY <1>7 DEF ChainCloses, store
  <2>2. SettlementCoversServed' BY <2>1 DEF Floor, SettlementCoversServed
  <2>3. deletes'[d].seen = {} BY <1>7 DEF ChainCloses, Delete
  <2>4. \A e \in Deletes \ {d} : deletes'[e] = deletes[e] BY <1>7 DEF ChainCloses
  <2> QED BY <2>1, <2>2, <2>3, <2>4 DEF Floor
<1>8. CASE ChainFails(d) BY <1>1, <1>8 DEF ChainFails, Delete, store, observed
<1>9. CASE FinishClose(d) BY <1>1, <1>9 DEF FinishClose, Delete, store, observed
<1>10. CASE RecordDeleted(d) BY <1>1, <1>10 DEF RecordDeleted, Delete, observed
<1>11. CASE RecordNotDeleted(d) BY <1>1, <1>11 DEF RecordNotDeleted, Delete, observed
<1> QED BY <1>2, <1>3, <1>4, <1>5, <1>6, <1>7, <1>8, <1>9, <1>10, <1>11 DEF DeleteStep

\* Every step keeps the floor.
LEMMA NextFloor ==
  ASSUME "read" \notin StoreFailures
  PROVE  TypeOK /\ Floor /\ [Next]_vars => Floor'
<1> SUFFICES ASSUME TypeOK, Floor, [Next]_vars PROVE Floor' OBVIOUS
<1>1. UNCHANGED <<commits, served, cumulative, deletes, settled, promised>> => Floor'
  BY DEF Floor, SettlementCoversServed
<1>2. CASE UNCHANGED vars BY <1>1, <1>2 DEF vars, calls, store, observed
<1>3. ASSUME NEW r \in Reasons, Trigger(r) \/ OrphanStep(r) PROVE Floor'
  BY <1>1, <1>3 DEF Trigger, OrphanStep, StoreAnswersOrphan, FlagOrphan, store, observed
<1>4. CASE Evict
  <2>1. UNCHANGED <<cumulative, settled, served, promised>> BY <1>4 DEF Evict, observed
  <2>2. \A v \in Vouchers : commits'[v].st # "unsent" => commits[v].st # "unsent"
    BY <1>4 DEF Evict
  <2>3. \A d \in Deletes :
          /\ deletes'[d].seen \subseteq deletes[d].seen
          /\ deletes'[d].st \in {"closing", "abandoned"} =>
               /\ deletes[d].st \in {"closing", "abandoned"}
               /\ deletes'[d].body = deletes[d].body
    BY <1>4 DEF Evict, Delete
  <2> QED BY <2>1, <2>2, <2>3 DEF Floor, SettlementCoversServed
<1> QED BY <1>2, <1>3, <1>4, CommitFloor, DeleteFloor DEF Next

\* With a store that can be read, a close pays whatever its DELETE found served.
THEOREM ServedIsSettled ==
  ASSUME "read" \notin StoreFailures
  PROVE  Spec => []SettlementCoversServed
<1>1. Init => Floor
  BY DEF Init, Floor, SettlementCoversServed, Commit, Delete
<1>2. Floor => SettlementCoversServed BY DEF Floor
<1> QED BY <1>1, <1>2, InitTypeOK, NextTypeOK, NextFloor, PTL DEF Spec

----------------------------------------------------------------------------
\* The channel as Channel promises it: what was verified and what was asked.
VerifiedVouchers == {v \in Vouchers : commits[v].st # "unsent"}
Asks == [d \in Deletes |-> AskOf(deletes[d])]
Over == [st |-> "over", covers |-> {}]

\* Whoever may close names an amount, and nothing is promised before a close.
ClosesNamed ==
  \A d \in Deletes : deletes[d].st \in {"floor", "closing", "abandoned"} => deletes[d].body.amount > 0
NonePromised == settled = 0 => promised = {}

ChannelInv == TypeOK /\ Floor /\ ClosesNamed /\ NonePromised

\* A DELETE's step takes it, and no other, further.
LEMMA DeleteKeepsNames ==
  ASSUME TypeOK, ClosesNamed, NEW d \in Deletes,
         (\E body \in Bodies : ReceiveDelete(d, body)) \/ DeleteStep(d)
  PROVE  ClosesNamed'
<1>1. ASSUME NEW x, deletes' = [deletes EXCEPT ![d] = x],
             x.st \in {"floor", "closing", "abandoned"} => x.body.amount > 0
      PROVE ClosesNamed'
  BY <1>1 DEF ClosesNamed, TypeOK
<1> USE DEF Delete
<1>2. ASSUME NEW body \in Bodies, ReceiveDelete(d, body) PROVE ClosesNamed'
  <2>1. LoadState \notin {"floor", "closing", "abandoned"} BY DEF LoadState
  <2> QED BY <1>1, <1>2, <2>1 DEF ReceiveDelete
<1>3. CASE StoreAnswersDelete(d) BY <1>1, <1>3 DEF StoreAnswersDelete
<1>4. CASE ParseDelete(d) BY <1>1, <1>4 DEF ParseDelete
<1>5. CASE ChooseClose(d) BY <1>1, <1>5 DEF ChooseClose
<1>6. CASE CheckFloor(d) BY <1>1, <1>6 DEF CheckFloor, StoredCumulative, ClosesNamed
<1>7. CASE ChainCloses(d)
  <2>1. \/ deletes' = [deletes EXCEPT ![d] = Delete("closed", deletes[d].body, 0, {})]
        \/ deletes' = [deletes EXCEPT ![d] = Delete("answered", NoBody, 0, {})]
    BY <1>7 DEF ChainCloses
  <2> QED BY <1>1, <2>1
<1>8. CASE ChainFails(d) BY <1>1, <1>8 DEF ChainFails
<1>9. CASE FinishClose(d) BY <1>1, <1>9 DEF FinishClose
<1>10. CASE RecordDeleted(d) BY <1>1, <1>10 DEF RecordDeleted
<1>11. CASE RecordNotDeleted(d) BY <1>1, <1>11 DEF RecordNotDeleted
<1> QED BY <1>2, <1>3, <1>4, <1>5, <1>6, <1>7, <1>8, <1>9, <1>10, <1>11 DEF DeleteStep

\* Only a close settles, and it promises what its DELETE found.
LEMMA OnlyClosesSettle ==
  ASSUME Next, \A d \in Deletes : ~ChainCloses(d)
  PROVE  UNCHANGED <<settled, promised>>
<1>1. ASSUME NEW v \in Vouchers, Verify(v) \/ CommitStep(v) PROVE UNCHANGED <<settled, promised>>
  BY <1>1 DEF Verify, CommitStep, StartCommit, StoreAnswersCommit, RecordVoucher, LetThrough,
              PutResolves, PutFails, EmitCallbacks, observed
<1>2. ASSUME NEW r \in Reasons, Trigger(r) \/ OrphanStep(r) PROVE UNCHANGED <<settled, promised>>
  BY <1>2 DEF Trigger, OrphanStep, StoreAnswersOrphan, FlagOrphan, observed
<1>3. ASSUME NEW d \in Deletes, (\E body \in Bodies : ReceiveDelete(d, body)) \/ DeleteStep(d)
      PROVE UNCHANGED <<settled, promised>>
  BY <1>3 DEF ReceiveDelete, DeleteStep, StoreAnswersDelete, ParseDelete, ChooseClose, CheckFloor,
              ChainFails, FinishClose, RecordDeleted, RecordNotDeleted, observed
<1> QED BY <1>1, <1>2, <1>3 DEF Next, Evict, observed

\* Every step of the handler keeps the invariant.
LEMMA NextChannelInv ==
  ASSUME "read" \notin StoreFailures
  PROVE  ChannelInv /\ [Next]_vars => ChannelInv'
<1> SUFFICES ASSUME ChannelInv, [Next]_vars PROVE ChannelInv' OBVIOUS
<1>1. TypeOK' /\ Floor' BY NextTypeOK, NextFloor DEF ChannelInv
<1>2. ClosesNamed'
  <2>1. UNCHANGED deletes => ClosesNamed' BY DEF ClosesNamed, ChannelInv
  <2>2. CASE UNCHANGED vars BY <2>1, <2>2 DEF vars, calls
  <2>3. ASSUME NEW v \in Vouchers, Verify(v) \/ CommitStep(v) PROVE ClosesNamed'
    BY <2>1, <2>3 DEF Verify, CommitStep, StartCommit, StoreAnswersCommit, RecordVoucher, PutResolves,
                      PutFails, EmitCallbacks
  <2>4. ASSUME NEW r \in Reasons, Trigger(r) \/ OrphanStep(r) PROVE ClosesNamed'
    BY <2>1, <2>4 DEF Trigger, OrphanStep, StoreAnswersOrphan, FlagOrphan
  <2>5. CASE Evict BY <2>5 DEF Evict, ClosesNamed, ChannelInv, Delete
  <2> QED BY <2>2, <2>3, <2>4, <2>5, DeleteKeepsNames DEF Next, ChannelInv
<1>3. NonePromised'
  <2>1. UNCHANGED <<settled, promised>> => NonePromised' BY DEF NonePromised, ChannelInv
  <2>2. ASSUME NEW d \in Deletes, ChainCloses(d) PROVE NonePromised'
    <3>1. settled' # 0 BY <2>2 DEF ChainCloses, ChannelInv, ClosesNamed
    <3> QED BY <3>1 DEF NonePromised
  <2>3. CASE UNCHANGED vars BY <2>1, <2>3 DEF vars, observed
  <2> QED BY <2>1, <2>2, <2>3, OnlyClosesSettle
<1> QED BY <1>1, <1>2, <1>3 DEF ChannelInv

\* Moving one DELETE moves what it asks for, and no other.
LEMMA AskMoves ==
  ASSUME TypeOK, NEW d \in Deletes, NEW call, deletes' = [deletes EXCEPT ![d] = call]
  PROVE  /\ Asks' = [Asks EXCEPT ![d] = AskOf(call)]
         /\ \A e \in Deletes : AskOf(deletes'[e]) = IF e = d THEN AskOf(call) ELSE AskOf(deletes[e])
<1>1. \A e \in Deletes : deletes'[e] = IF e = d THEN call ELSE deletes[e] BY DEF TypeOK
<1>2. \A e \in Deletes : AskOf(deletes'[e]) = IF e = d THEN AskOf(call) ELSE AskOf(deletes[e]) BY <1>1
<1>3. Asks' = [e \in Deletes |-> IF e = d THEN AskOf(call) ELSE Asks[e]] BY <1>2 DEF Asks
<1>4. [Asks EXCEPT ![d] = AskOf(call)] = [e \in Deletes |-> IF e = d THEN AskOf(call) ELSE Asks[e]]
  BY DEF Asks
<1> QED BY <1>2, <1>3, <1>4

\* A step after which some DELETEs are over, and nothing else has changed.
LEMMA GivesUp ==
  ASSUME UNCHANGED <<VerifiedVouchers, served, settled>>,
         \A d \in Deletes : AskOf(deletes'[d]) \in {AskOf(deletes[d]), Over}
  PROVE  Promise!Next
<1> DEFINE ended == {d \in Deletes : AskOf(deletes[d]).st # "over" /\ AskOf(deletes'[d]) = Over}
<1>1. \A d \in Deletes : AskOf(deletes[d]).st = "over" => AskOf(deletes[d]) = Over
  BY DEF AskOf, Over, Awaiting, CallStates
<1>2. \A d \in Deletes : AskOf(deletes'[d]) = IF d \in ended THEN Over ELSE AskOf(deletes[d])
  BY <1>1
<1>3. \A d \in ended : Asks[d].st # "over" BY DEF Asks
<1>4. Asks' = [d \in Deletes |-> IF d \in ended THEN Over ELSE Asks[d]] BY <1>2 DEF Asks
<1>5. ended \in SUBSET Deletes OBVIOUS
<1> HIDE DEF ended
<1>6. Promise!GiveUp(ended) BY <1>3, <1>4 DEF Promise!GiveUp, Promise!Ask, Asks, Over, VerifiedVouchers
<1> QED BY <1>5, <1>6 DEF Promise!Next

\* A voucher's request is a step of the channel when it is verified, and when it
\* is let through.
LEMMA RequestsAreChannelSteps ==
  ASSUME ChannelInv, NEW v \in Vouchers, Verify(v) \/ CommitStep(v)
  PROVE  Promise!Next
<1>1. TypeOK /\ Floor BY DEF ChannelInv
<1>2. UNCHANGED <<deletes, settled>>
  BY DEF Verify, CommitStep, StartCommit, StoreAnswersCommit, RecordVoucher, PutResolves, PutFails,
         EmitCallbacks
<1>3. PICK c : c.st # "unsent" /\ commits' = [commits EXCEPT ![v] = c] BY <1>1, CommitMoves
<1>4. VerifiedVouchers' = VerifiedVouchers \cup {v} BY <1>1, <1>3 DEF VerifiedVouchers, TypeOK
<1>5. Asks' = Asks BY <1>2 DEF Asks
<1>6. CASE Verify(v)
  <2>1. settled = 0 /\ v > cumulative /\ served' = served BY <1>6 DEF Verify, observed
  <2>2. \A w \in VerifiedVouchers : w \in Nat /\ w <= cumulative
    BY <1>1, AmountFacts DEF Floor, VerifiedVouchers
  <2>3. v \in Nat /\ cumulative \in Nat BY <1>1, AmountFacts DEF TypeOK
  <2>4. \A w \in VerifiedVouchers : w < v BY <2>1, <2>2, <2>3
  <2>5. Promise!Verify(v)
    BY <1>2, <1>4, <1>5, <2>1, <2>4 DEF Promise!Verify, VerifiedVouchers, Asks
  <2> QED BY <2>5 DEF Promise!Next
<1>7. CASE CommitStep(v)
  <2>1. commits[v].st # "unsent" /\ (served' = served \/ served' = served \cup {v})
    BY <1>7 DEF CommitStep, StartCommit, StoreAnswersCommit, RecordVoucher, Loaded, LetThrough,
                PutResolves, PutFails, EmitCallbacks, observed
  <2>2. VerifiedVouchers' = VerifiedVouchers /\ v \in VerifiedVouchers
    BY <1>4, <2>1 DEF VerifiedVouchers
  <2>3. CASE served' = served
    BY <1>2, <2>2, <2>3, GivesUp
  <2>4. CASE served' = served \cup {v}
    <3>1. Promise!Serve(v) BY <1>2, <1>5, <2>2, <2>4 DEF Promise!Serve, VerifiedVouchers, Asks
    <3> QED BY <3>1 DEF Promise!Next
  <2> QED BY <2>1, <2>3, <2>4
<1> QED BY <1>6, <1>7

\* A DELETE is a step of the channel when it arrives, when it closes and when it
\* is over without.
LEMMA DeletesAreChannelSteps ==
  ASSUME ChannelInv, NEW d \in Deletes,
         (\E body \in Bodies : ReceiveDelete(d, body)) \/ DeleteStep(d)
  PROVE  Promise!Next
<1>1. TypeOK /\ Floor /\ ClosesNamed BY DEF ChannelInv
<1>2. UNCHANGED <<VerifiedVouchers, served>>
  BY DEF ReceiveDelete, DeleteStep, StoreAnswersDelete, ParseDelete, ChooseClose, CheckFloor,
         ChainCloses, ChainFails, FinishClose, RecordDeleted, RecordNotDeleted, observed, VerifiedVouchers
<1>3. ASSUME NEW x, deletes' = [deletes EXCEPT ![d] = x], UNCHANGED settled,
             AskOf(x) \in {AskOf(deletes[d]), Over}
      PROVE  Promise!Next
  <2>1. \A e \in Deletes : AskOf(deletes'[e]) \in {AskOf(deletes[e]), Over} BY <1>1, <1>3, AskMoves
  <2> QED BY <1>2, <1>3, <2>1, GivesUp
<1>4. ASSUME NEW st \in {"deleting", "done", "answered"}, NEW body, NEW val, NEW seen,
             deletes' = [deletes EXCEPT ![d] = Delete(st, body, val, seen)], UNCHANGED settled
      PROVE  Promise!Next
  <2>1. AskOf(Delete(st, body, val, seen)) = Over BY DEF AskOf, Over, Awaiting, CallStates, Delete
  <2> QED BY <1>3, <1>4, <2>1
<1>5. ASSUME NEW st \in Awaiting, NEW body, NEW val, deletes[d].st \in Awaiting,
             deletes' = [deletes EXCEPT ![d] = Delete(st, body, val, deletes[d].seen)], UNCHANGED settled
      PROVE  Promise!Next
  <2>1. AskOf(Delete(st, body, val, deletes[d].seen)) = AskOf(deletes[d])
    BY <1>5 DEF AskOf, Awaiting, CallStates, Delete
  <2> QED BY <1>3, <1>5, <2>1
<1>6. {"got", "body", "floor", "closing"} \subseteq Awaiting BY DEF Awaiting, CallStates
<1>7. ASSUME NEW body \in Bodies, ReceiveDelete(d, body) PROVE Promise!Next
  <2>1. /\ deletes[d].st = "unsent" /\ UNCHANGED settled
        /\ deletes' = [deletes EXCEPT ![d] = Delete(LoadState, body, 0, served)]
    BY <1>7 DEF ReceiveDelete
  <2>2. AskOf(Delete(LoadState, body, 0, served)) = [st |-> "open", covers |-> served]
    BY DEF AskOf, Awaiting, CallStates, Delete, LoadState
  <2> DEFINE call == Delete(LoadState, body, 0, served)
  <2>6. deletes' = [deletes EXCEPT ![d] = call] /\ AskOf(call) = [st |-> "open", covers |-> served]
    BY <2>1, <2>2
  <2> HIDE DEF call
  <2>7. Asks' = [Asks EXCEPT ![d] = AskOf(call)] BY <1>1, <2>6, AskMoves
  <2>3. Asks' = [Asks EXCEPT ![d] = [st |-> "open", covers |-> served]] BY <2>6, <2>7
  <2>4. Asks[d].st = "not yet" BY <2>1 DEF Asks, AskOf
  <2>5. Promise!AskToClose(d)
    BY <1>2, <2>1, <2>3, <2>4 DEF Promise!AskToClose, Promise!Ask, Asks, VerifiedVouchers
  <2> QED BY <2>5 DEF Promise!Next
<1>8. CASE ChainCloses(d)
  <2>1. /\ deletes[d].st \in {"closing", "abandoned"} /\ settled = 0
        /\ settled' = deletes[d].body.amount
    BY <1>8 DEF ChainCloses
  <2>2. PICK x : AskOf(x) = Over /\ deletes' = [deletes EXCEPT ![d] = x]
    <3>1. \A st \in {"closed", "answered"} : \A body : AskOf(Delete(st, body, 0, {})) = Over
      BY DEF AskOf, Over, Awaiting, CallStates, Delete
    <3>2. \/ deletes' = [deletes EXCEPT ![d] = Delete("closed", deletes[d].body, 0, {})]
          \/ deletes' = [deletes EXCEPT ![d] = Delete("answered", NoBody, 0, {})]
      BY <1>8 DEF ChainCloses
    <3> QED BY <3>1, <3>2
  <2>3. Asks' = [Asks EXCEPT ![d] = Over] BY <1>1, <2>2, AskMoves
  <2>4. Asks[d] = [st |-> "open", covers |-> deletes[d].seen]
    BY <2>1 DEF Asks, AskOf, Awaiting, CallStates
  <2>5. \A v \in deletes[d].seen : v <= deletes[d].body.amount BY <1>1, <2>1 DEF Floor
  <2>6. deletes[d].body.amount \in Vouchers
    <3>1. deletes[d].body.amount \in Amounts /\ deletes[d].body.amount > 0
      BY <1>1, <2>1 DEF TypeOK, Closes, ClosesNamed
    <3> QED BY <3>1, ProviderAssumption DEF Amounts, Vouchers
  <2>7. Promise!Close(d, deletes[d].body.amount)
    BY <1>2, <2>1, <2>3, <2>4, <2>5 DEF Promise!Close, Promise!Ask, Asks, Over, VerifiedVouchers
  <2> QED BY <2>6, <2>7 DEF Promise!Next
<1>9. CASE StoreAnswersDelete(d)
  <2>1. deletes[d].st \in Awaiting BY <1>9 DEF StoreAnswersDelete, Awaiting, CallStates
  <2> QED BY <1>5, <1>6, <1>9, <2>1 DEF StoreAnswersDelete
<1>10. CASE ParseDelete(d)
  <2>1. deletes[d].st \in Awaiting BY <1>10 DEF ParseDelete, Loaded, Awaiting, CallStates
  <2> QED BY <1>5, <1>6, <1>10, <2>1 DEF ParseDelete
<1>11. CASE ChooseClose(d)
  <2>1. deletes[d].st \in Awaiting /\ UNCHANGED settled BY <1>11 DEF ChooseClose, Awaiting
  <2>2. \/ \E body : deletes' = [deletes EXCEPT ![d] = Delete("floor", body, 0, deletes[d].seen)]
        \/ deletes' = [deletes EXCEPT ![d] = Delete("answered", NoBody, 0, {})]
    BY <1>11 DEF ChooseClose
  <2> QED BY <1>4, <1>5, <1>6, <2>1, <2>2
<1>12. CASE CheckFloor(d)
  <2>1. deletes[d].st \in Awaiting /\ UNCHANGED settled BY <1>12 DEF CheckFloor, Awaiting
  <2>2. \/ deletes' = [deletes EXCEPT ![d] = Delete("closing", deletes[d].body, 0, deletes[d].seen)]
        \/ deletes' = [deletes EXCEPT ![d] = Delete("answered", NoBody, 0, {})]
    BY <1>12 DEF CheckFloor
  <2> QED BY <1>4, <1>5, <1>6, <2>1, <2>2
<1>13. CASE ChainFails(d) BY <1>4, <1>13 DEF ChainFails
<1>14. CASE FinishClose(d) BY <1>4, <1>14 DEF FinishClose
<1>15. CASE RecordDeleted(d) BY <1>4, <1>15 DEF RecordDeleted
<1>16. CASE RecordNotDeleted(d) BY <1>4, <1>16 DEF RecordNotDeleted
<1> QED BY <1>7, <1>8, <1>9, <1>10, <1>11, <1>12, <1>13, <1>14, <1>15, <1>16 DEF DeleteStep

\* Every step of the handler is one of the channel.
LEMMA HandlerStepsAreChannelSteps ==
  ASSUME ChannelInv, Next
  PROVE  Promise!Next
<1>1. ASSUME NEW r \in Reasons, Trigger(r) \/ OrphanStep(r) PROVE Promise!Next
  <2>1. UNCHANGED <<deletes, VerifiedVouchers, served, settled>>
    BY <1>1 DEF Trigger, OrphanStep, StoreAnswersOrphan, FlagOrphan, observed, VerifiedVouchers
  <2> QED BY <2>1, GivesUp
<1>2. CASE Evict
  <2>1. UNCHANGED <<served, settled>> BY <1>2 DEF Evict, observed
  <2>2. \A v \in Vouchers : commits'[v].st = "unsent" <=> commits[v].st = "unsent"
    BY <1>2 DEF Evict, Commit
  <2>3. VerifiedVouchers' = VerifiedVouchers BY <2>2 DEF VerifiedVouchers
  <2>4. ASSUME NEW d \in Deletes PROVE AskOf(deletes'[d]) \in {AskOf(deletes[d]), Over}
    <3>1. CASE deletes'[d] = deletes[d] BY <3>1
    <3>2. CASE deletes[d].st = "closing"
      <4>1. deletes'[d] = Delete("abandoned", deletes[d].body, 0, deletes[d].seen)
        BY <1>2, <3>2 DEF Evict
      <4> QED BY <3>2, <4>1 DEF AskOf, Awaiting, Delete
    <3>3. CASE deletes'[d] = Delete("answered", NoBody, 0, {})
      BY <3>3 DEF AskOf, Over, Awaiting, CallStates, Delete
    <3> QED BY <1>2, <3>1, <3>2, <3>3 DEF Evict
  <2> QED BY <2>1, <2>3, <2>4, GivesUp
<1> QED BY <1>1, <1>2, RequestsAreChannelSteps, DeletesAreChannelSteps DEF Next

\* At first the invariant holds and nothing was verified, served or asked.
LEMMA InitChannel == Init => ChannelInv /\ Promise!Init
<1> SUFFICES ASSUME Init PROVE ChannelInv /\ Promise!Init OBVIOUS
<1>1. Floor /\ ClosesNamed /\ NonePromised
  BY DEF Init, Floor, SettlementCoversServed, ClosesNamed, NonePromised, Commit, Delete
<1>2. VerifiedVouchers = {} BY DEF Init, VerifiedVouchers, Commit
<1>3. \A d \in Deletes : AskOf(deletes[d]) = [st |-> "not yet", covers |-> {}]
  BY DEF Init, AskOf, Awaiting, CallStates, Delete
<1>4. Promise!Init BY <1>2, <1>3 DEF Init, Promise!Init, Promise!Ask, VerifiedVouchers
<1> QED BY <1>1, <1>4, InitTypeOK DEF ChannelInv

\* With a store that can be read, the handler implements the channel: it serves
\* verified vouchers only, in the order of their amounts if not of their answers,
\* and closes once, for what was served when the DELETE arrived.
THEOREM HandlerKeepsPromise ==
  ASSUME "read" \notin StoreFailures
  PROVE  Spec => ImplementsChannel
<1>1. ChannelInv /\ [Next]_vars => [Promise!Next]_(Promise!channel)
  <2> SUFFICES ASSUME ChannelInv, [Next]_vars PROVE Promise!Next \/ UNCHANGED Promise!channel OBVIOUS
  <2>1. CASE UNCHANGED vars BY <2>1 DEF vars, calls, observed, Promise!channel
  <2> QED BY <2>1, HandlerStepsAreChannelSteps
<1> QED BY <1>1, InitChannel, NextChannelInv, PTL DEF Spec, ImplementsChannel, Promise!Spec
----------------------------------------------------------------------------
\* Whoever has the hash of the close and has yet to see it in tx_log: the DELETE,
\* the reconciler's run, the statements onSettled left.
Closers  == {d \in Deletes : deletes[d].st = "closed"}
Settlers == {r \in Reconcilers : job[r].st \in {"closed", "recovered"}}
Reports  == {p \in posts : p.kind \in {"settled", "log"}}

\* There is nothing to record before the close, one entry to write after it and
\* nobody to write another.
OneEntry ==
  /\ tx_log \in {<<>>, <<settled>>}
  /\ settled = 0 \/ tx_log # <<>> => Closers = {} /\ Settlers = {} /\ Reports = {}
  /\ settled = 0 => tx_log = <<>>
  /\ \A d, e \in Closers : d = e
  /\ \A r, s \in Settlers : r = s
  /\ \A p, q \in Reports : p = q
  /\ Closers = {} \/ Settlers = {}
  /\ Closers = {} \/ Reports = {}
  /\ Settlers = {} \/ Reports = {}

\* Whoever closes names an amount, and whoever has closed the one settled for.
ClosersAgree ==
  /\ DOMAIN deletes = Deletes
  /\ \A d \in Deletes :
       /\ deletes[d].st \in {"floor", "closing", "abandoned"} => deletes[d].body.amount > 0
       /\ deletes[d].st = "closed" => deletes[d].body.amount = settled

RunsAgree ==
  /\ DOMAIN job = Reconcilers
  /\ \A r \in Reconcilers :
       /\ job[r].st = "closing" => job[r].row.sig # 0
       /\ job[r].st \in {"closed", "already", "recovered"} => settled # 0

TablesAgree ==
  /\ \A p \in Reports : p = Post(p.kind, settled, 0)
  /\ row.status = "closed" => settled # 0
  /\ row.hash # 0 => row.hash = settled

RecordInv == OneEntry /\ ClosersAgree /\ RunsAgree /\ TablesAgree

\* A step after which nobody has a hash it did not have.
LEMMA NoNewClaim ==
  ASSUME OneEntry, UNCHANGED <<settled, tx_log>>,
         Closers' \subseteq Closers, Settlers' \subseteq Settlers, Reports' \subseteq Reports
  PROVE  OneEntry'
BY DEF OneEntry

\* A step of the handler that closes nothing and hears of no close: the DELETEs
\* that wait for one keep their bodies, and no run gains anything.
LEMMA HandlerQuiet ==
  ASSUME RecordInv, UNCHANGED <<settled, row, tx_log>>,
         DOMAIN deletes' = Deletes, DOMAIN job' = Reconcilers,
         \A d \in Deletes :
           \/ deletes'[d] = deletes[d]
           \/ deletes'[d].st \notin {"floor", "closing", "abandoned", "closed"}
           \/ deletes'[d].st \in {"floor", "closing", "abandoned"} /\ deletes'[d].body.amount > 0,
         \A r \in Reconcilers : job'[r] \in {job[r], NoJob},
         Reports' \subseteq Reports
  PROVE  RecordInv'
<1>1. Closers' \subseteq Closers /\ Settlers' \subseteq Settlers
  BY DEF Closers, Settlers, NoJob, Job
<1>2. OneEntry' BY <1>1, NoNewClaim DEF RecordInv
<1>3. ClosersAgree' BY DEF RecordInv, ClosersAgree
<1>4. RunsAgree' BY DEF RecordInv, RunsAgree, NoJob, Job
<1>5. TablesAgree' BY DEF RecordInv, TablesAgree
<1> QED BY <1>2, <1>3, <1>4, <1>5 DEF RecordInv

\* The runs that survive a step of the handler are as they were.
LEMMA RunsSurvive ==
  ASSUME ProviderStep
  PROVE  /\ DOMAIN job' = Reconcilers /\ \A r \in Reconcilers : job'[r] \in {job[r], NoJob}
         /\ UNCHANGED <<row, tx_log>>
BY DEF ProviderStep

\* A step that leaves a DELETE alone, or takes it where it waits for no close.
LEMMA DeleteMoves ==
  ASSUME RecordInv, NEW d \in Deletes, NEW call, deletes' = [deletes EXCEPT ![d] = call]
  PROVE  /\ DOMAIN deletes' = Deletes /\ deletes'[d] = call
         /\ \A e \in Deletes \ {d} : deletes'[e] = deletes[e]
BY DEF RecordInv, ClosersAgree

\* Nothing the handler does but a close, and what follows it, touches the record.
LEMMA HandlerKeepsRecord ==
  ASSUME RecordInv, ProviderStep, UNCHANGED settled,
         \A d \in Deletes : ~FinishClose(d)
  PROVE  RecordInv'
<1> USE DEF Delete, NoBody, Closers, Reports, Post
<1>1. DOMAIN deletes = Deletes BY DEF RecordInv, ClosersAgree
<1>2. \A d \in Deletes : deletes[d].st \in {"floor", "closing", "abandoned"} => deletes[d].body.amount > 0
  BY DEF RecordInv, ClosersAgree
<1>3. ASSUME UNCHANGED deletes, Reports' \subseteq Reports PROVE RecordInv'
  BY <1>1, <1>3, RunsSurvive, HandlerQuiet
<1>4. ASSUME NEW d \in Deletes, NEW call, deletes' = [deletes EXCEPT ![d] = call], UNCHANGED posts,
             \/ call.st \notin {"floor", "closing", "abandoned", "closed"}
             \/ call.st \in {"floor", "closing", "abandoned"} /\ call.body.amount > 0
      PROVE  RecordInv'
  BY <1>4, DeleteMoves, RunsSurvive, HandlerQuiet
<1>5. ASSUME NEW v \in Vouchers, Verify(v) \/ CommitStep(v) PROVE RecordInv'
  <2>1. UNCHANGED deletes
    BY <1>5 DEF Verify, CommitStep, StartCommit, StoreAnswersCommit, RecordVoucher, PutResolves,
                PutFails, EmitCallbacks
  <2>2. \/ UNCHANGED posts
        \/ \E p, q \in {Post("open", 0, 0)} \cup {Post("voucher", commits[v].val, record)} :
             posts' \subseteq posts \cup {p, q}
    BY <1>5 DEF Verify, CommitStep, StartCommit, StoreAnswersCommit, RecordVoucher, PutResolves,
                PutFails, EmitCallbacks
  <2>3. Reports' \subseteq Reports BY <2>2
  <2> QED BY <1>3, <2>1, <2>3
<1>6. ASSUME NEW r \in Reasons, Trigger(r) \/ OrphanStep(r) PROVE RecordInv'
  <2>1. UNCHANGED deletes BY <1>6 DEF Trigger, OrphanStep, StoreAnswersOrphan, FlagOrphan
  <2>2. Reports' \subseteq Reports BY <1>6 DEF Trigger, OrphanStep, StoreAnswersOrphan, FlagOrphan
  <2> QED BY <1>3, <2>1, <2>2
<1>7. ASSUME NEW d \in Deletes, NEW body \in Bodies, ReceiveDelete(d, body) PROVE RecordInv'
  BY <1>4, <1>7 DEF ReceiveDelete, LoadState
<1>8. ASSUME NEW d \in Deletes, DeleteStep(d) PROVE RecordInv'
  <2>1. CASE StoreAnswersDelete(d)
    <3>1. PICK a \in Answers(persisted) :
            deletes' = [deletes EXCEPT ![d] = Delete("got", deletes[d].body, a, deletes[d].seen)]
      BY <1>1, <2>1 DEF StoreAnswersDelete
    <3> QED BY <1>4, <2>1, <3>1 DEF StoreAnswersDelete
  <2>2. CASE ParseDelete(d)
    <3>1. deletes' = [deletes EXCEPT ![d] = Delete("body", deletes[d].body, 0, deletes[d].seen)]
      BY <1>1, <2>2 DEF ParseDelete
    <3> QED BY <1>4, <2>2, <3>1 DEF ParseDelete
  <2>3. CASE ChooseClose(d)
    <3>1. \/ /\ CloseAmount(deletes[d].body) > 0
             /\ deletes' = [deletes EXCEPT ![d] =
                  Delete("floor", [amount |-> CloseAmount(deletes[d].body),
                                   sig |-> CloseSig(deletes[d].body)], 0, deletes[d].seen)]
          \/ deletes' = [deletes EXCEPT ![d] = Delete("answered", NoBody, 0, {})]
      BY <1>1, <2>3 DEF ChooseClose
    <3> QED BY <1>4, <2>3, <3>1 DEF ChooseClose
  <2>4. CASE CheckFloor(d)
    <3>1. \/ deletes' = [deletes EXCEPT ![d] = Delete("answered", NoBody, 0, {})]
          \/ deletes' = [deletes EXCEPT ![d] = Delete("closing", deletes[d].body, 0, deletes[d].seen)]
      BY <1>1, <2>4 DEF CheckFloor
    <3>2. deletes[d].body.amount > 0 BY <1>2, <2>4 DEF CheckFloor
    <3> QED BY <1>4, <2>4, <3>1, <3>2 DEF CheckFloor
  <2>5. CASE ChainCloses(d)
    <3>1. settled' = settled /\ settled = 0 /\ deletes[d].body.amount > 0 /\ settled' = deletes[d].body.amount
      BY <1>2, <2>5 DEF ChainCloses
    <3> QED BY <3>1
  <2>6. CASE ChainFails(d) BY <1>4, <2>6 DEF ChainFails
  <2>7. CASE RecordDeleted(d) BY <1>4, <2>7 DEF RecordDeleted
  <2>8. CASE RecordNotDeleted(d) BY <1>4, <2>8 DEF RecordNotDeleted
  <2> QED BY <1>8, <2>1, <2>2, <2>3, <2>4, <2>5, <2>6, <2>7, <2>8 DEF DeleteStep
<1>9. CASE Evict
  <2>1. /\ DOMAIN deletes' = Deletes /\ UNCHANGED posts
        /\ \A d \in Deletes :
             \/ deletes'[d] = deletes[d]
             \/ deletes'[d].st = "answered"
             \/ deletes[d].st = "closing" /\ deletes'[d].st = "abandoned"
                /\ deletes'[d].body = deletes[d].body
    BY <1>9 DEF Evict
  <2> QED BY <1>2, <2>1, RunsSurvive, HandlerQuiet
<1> QED BY <1>5, <1>6, <1>7, <1>8, <1>9 DEF ProviderStep, Next

\* The contract takes a DELETE's close: nobody had closed before.
LEMMA DeleteSettles ==
  ASSUME RecordInv, ProviderStep, NEW d \in Deletes, ChainCloses(d)
  PROVE  RecordInv'
<1>1. settled = 0 /\ settled' = deletes[d].body.amount /\ deletes[d].body.amount > 0 /\ UNCHANGED posts
  BY DEF ChainCloses, RecordInv, ClosersAgree
<1>2. settled' # 0 BY <1>1
<1> DEFINE call == IF deletes[d].st = "closing" THEN Delete("closed", deletes[d].body, 0, {})
                                               ELSE Delete("answered", NoBody, 0, {})
<1>0. deletes' = [deletes EXCEPT ![d] = call] BY DEF ChainCloses, RecordInv, ClosersAgree
<1>3. \/ call.st = "closed" /\ call.body = deletes[d].body
      \/ call.st = "answered"
  BY DEF Delete
<1> HIDE DEF call
<1>4. /\ DOMAIN deletes' = Deletes /\ deletes'[d] = call
      /\ \A e \in Deletes \ {d} : deletes'[e] = deletes[e]
  BY <1>0, DeleteMoves
<1>5. Closers = {} /\ Settlers = {} /\ Reports = {} /\ tx_log = <<>>
  BY <1>1 DEF RecordInv, OneEntry
<1>6. Closers' \subseteq {d} BY <1>4, <1>5 DEF Closers
<1>7. Settlers' = {} BY <1>5, RunsSurvive DEF Settlers, NoJob, Job
<1>8. Reports' = {} /\ tx_log' = <<>> BY <1>1, <1>5, RunsSurvive DEF Reports
<1>9. OneEntry' BY <1>2, <1>6, <1>7, <1>8 DEF OneEntry
<1>10. ClosersAgree' BY <1>1, <1>3, <1>4, <1>5 DEF ClosersAgree, RecordInv, Closers
<1>11. RunsAgree' BY <1>2, RunsSurvive DEF RunsAgree, RecordInv, NoJob, Job
<1>12. TablesAgree' BY <1>1, <1>2, <1>8, RunsSurvive DEF TablesAgree, RecordInv
<1> QED BY <1>9, <1>10, <1>11, <1>12 DEF RecordInv

\* The DELETE that closed hands its hash to onSettled.
LEMMA DeleteReports ==
  ASSUME RecordInv, ProviderStep, NEW d \in Deletes, FinishClose(d)
  PROVE  RecordInv'
<1>1. d \in Closers /\ deletes[d].body.amount = settled /\ UNCHANGED settled
  BY DEF FinishClose, Closers, RecordInv, ClosersAgree
<1>2. /\ DOMAIN deletes' = Deletes /\ deletes'[d] = Delete("deleting", NoBody, 0, {})
      /\ \A e \in Deletes \ {d} : deletes'[e] = deletes[e]
  BY DeleteMoves DEF FinishClose
<1>3. settled # 0 /\ tx_log = <<>> /\ Settlers = {} /\ Reports = {} /\ \A e \in Closers : e = d
  BY <1>1 DEF RecordInv, OneEntry
<1>4. Closers' = {} BY <1>2, <1>3 DEF Closers, Delete
<1>5. Settlers' = {} BY <1>3, RunsSurvive DEF Settlers, NoJob, Job
<1>6. Reports' = {Post("settled", settled, 0)} BY <1>1, <1>3 DEF Reports, FinishClose, Post
<1>7. OneEntry' BY <1>1, <1>3, <1>4, <1>5, <1>6, RunsSurvive DEF OneEntry
<1>8. ClosersAgree' BY <1>1, <1>2 DEF ClosersAgree, RecordInv, Delete
<1>9. RunsAgree' BY <1>1, RunsSurvive DEF RunsAgree, RecordInv, NoJob, Job
<1>10. TablesAgree' BY <1>1, <1>6, RunsSurvive DEF TablesAgree, RecordInv, Post
<1> QED BY <1>7, <1>8, <1>9, <1>10 DEF RecordInv

\* The statements left to run are those of sessionWrites.ts.
StatementsKnown ==
  \A p \in posts : p.kind \in {"open", "voucher", "orphan", "advance", "settled", "log"}

\* And every step leaves none but those.
LEMMA NextStatements == StatementsKnown /\ [RecoveryNext]_allVars => StatementsKnown'
<1> SUFFICES ASSUME StatementsKnown, [RecoveryNext]_allVars PROVE StatementsKnown' OBVIOUS
<1> USE DEF StatementsKnown, Post
<1>1. ASSUME NEW v \in Vouchers, Verify(v) \/ CommitStep(v) PROVE StatementsKnown'
  <2>1. CASE EmitCallbacks(v) BY <2>1 DEF EmitCallbacks
  <2> QED BY <1>1, <2>1 DEF Verify, CommitStep, StartCommit, StoreAnswersCommit, RecordVoucher,
                            PutResolves, PutFails
<1>2. ASSUME NEW r \in Reasons, Trigger(r) \/ OrphanStep(r) PROVE StatementsKnown'
  <2>1. CASE FlagOrphan(r) BY <2>1 DEF FlagOrphan
  <2> QED BY <1>2, <2>1 DEF Trigger, OrphanStep, StoreAnswersOrphan
<1>3. ASSUME NEW d \in Deletes, (\E body \in Bodies : ReceiveDelete(d, body)) \/ DeleteStep(d)
      PROVE  StatementsKnown'
  <2>1. CASE FinishClose(d) BY <2>1 DEF FinishClose
  <2> QED BY <1>3, <2>1 DEF ReceiveDelete, DeleteStep, StoreAnswersDelete, ParseDelete, ChooseClose,
                            CheckFloor, ChainCloses, ChainFails, RecordDeleted, RecordNotDeleted
<1>4. ASSUME NEW p \in posts, RunPost(p) PROVE StatementsKnown'
  BY <1>4 DEF RunPost, Following
<1>5. ASSUME NEW r, SelectRow(r) PROVE StatementsKnown' BY <1>5 DEF SelectRow, vars
<1>6. ASSUME NEW r \in Reconcilers, RunStep(r) PROVE StatementsKnown'
  BY <1>6 DEF RunStep, ReconcilerCloses, CloseRefused, MarkRecovered, OnRecovered,
              MarkAlreadyClosed, RecordFailure, vars
<1>7. CASE UNCHANGED allVars BY <1>7 DEF allVars, vars
<1> QED BY <1>1, <1>2, <1>3, <1>4, <1>5, <1>6, <1>7
        DEF RecoveryNext, ProviderStep, Next, Evict, Scheduled, ToolStarted

\* A statement of a callback takes effect, or is lost: onSettled's entry follows
\* its update, and comes once.
LEMMA StatementsAgree ==
  ASSUME RecordInv, StatementsKnown, NEW p \in posts, RunPost(p)
  PROVE  RecordInv'
<1> USE DEF RecordInv
<1>1. UNCHANGED <<settled, deletes, job>> BY DEF RunPost, calls
<1>2. posts' = (posts \ {p}) \cup Following(p) BY DEF RunPost
<1>3. ClosersAgree' /\ RunsAgree' BY <1>1 DEF ClosersAgree, RunsAgree
<1>4. UNCHANGED <<Closers, Settlers>> BY <1>1 DEF Closers, Settlers
<1>5. p \in Reports => p = Post(p.kind, settled, 0) /\ settled # 0 BY DEF TablesAgree, OneEntry
<1>6. \/ p.kind = "settled" /\ p \in Reports /\ Following(p) = {Post("log", settled, 0)}
      \/ p.kind = "log" /\ p \in Reports /\ Following(p) = {}
      \/ p \notin Reports /\ \A q \in Following(p) : q.kind = "advance"
  BY <1>5 DEF Following, Reports, Post
<1>7. Reports' \subseteq (Reports \ {p}) \cup {q \in Following(p) : q.kind = "log"}
  BY <1>2, <1>6 DEF Reports, Post
<1>8. \/ tx_log' = tx_log
      \/ p.kind = "log" /\ p \in Reports /\ tx_log' = Append(tx_log, settled)
  <2>1. CASE p.kind = "log"
    <3>1. p \in Reports /\ p.amount = settled BY <1>5, <2>1 DEF Reports, Post
    <3>2. tx_log' = tx_log \/ tx_log' = Append(tx_log, p.amount) BY <2>1 DEF RunPost, Logged
    <3> QED BY <2>1, <3>1, <3>2
  <2>2. CASE p.kind # "log" BY <2>2 DEF RunPost, Logged
  <2> QED BY <2>1, <2>2
<1>9. OneEntry'
  <2>1. CASE p \notin Reports
    <3>1. Reports' \subseteq Reports /\ UNCHANGED tx_log BY <1>6, <1>7, <1>8, <2>1
    <3> QED BY <1>1, <1>4, <3>1, NoNewClaim
  <2>2. CASE p \in Reports /\ p.kind = "settled"
    <3>1. Reports' \subseteq {Post("log", settled, 0)} /\ UNCHANGED tx_log
      BY <1>6, <1>7, <1>8, <2>2 DEF OneEntry
    <3>2. tx_log = <<>> /\ settled # 0 /\ Closers = {} /\ Settlers = {} BY <2>2 DEF OneEntry
    <3> QED BY <1>1, <1>4, <3>1, <3>2 DEF OneEntry
  <2>3. CASE p \in Reports /\ p.kind = "log"
    <3>1. Reports' = {} BY <1>6, <1>7, <2>3 DEF OneEntry
    <3>2. tx_log = <<>> /\ settled # 0 /\ Closers = {} /\ Settlers = {} BY <2>3 DEF OneEntry
    <3>3. tx_log' \in {<<>>, <<settled>>} BY <1>8, <3>2
    <3> QED BY <1>1, <1>4, <3>1, <3>2, <3>3 DEF OneEntry
  <2> QED BY <1>6, <2>1, <2>2, <2>3
<1>10. TablesAgree'
  <2>1. \A q \in Reports' : q = Post(q.kind, settled, 0)
    BY <1>6, <1>7 DEF TablesAgree, Post
  <2>2. row' = row \/ row' = Written(p) BY DEF RunPost
  <2>6. p.kind \in {"open", "voucher", "orphan", "advance", "settled", "log"} BY DEF StatementsKnown
  <2>3. row'.status = "closed" => row.status = "closed" \/ (p.kind = "settled" /\ p \in Reports)
    BY <2>2, <2>6 DEF Written, Advanced, Row, Reports
  <2>4. row'.hash # 0 => row'.hash = row.hash \/ (p \in Reports /\ row'.hash = p.amount)
    BY <2>2, <2>6 DEF Written, Advanced, Row, Reports
  <2>5. p \in Reports => p.amount = settled BY <1>5 DEF Post
  <2> QED BY <1>1, <1>5, <2>1, <2>3, <2>4, <2>5 DEF TablesAgree
<1> QED BY <1>3, <1>9, <1>10

\* A step of a run that neither closes nor touches the tables.
LEMMA RunQuiet ==
  ASSUME RecordInv, NEW r \in Reconcilers, NEW st, NEW selected, NEW seen,
         UNCHANGED <<settled, deletes, posts, tx_log>>,
         job' = [job EXCEPT ![r] = Job(st, selected, seen)],
         st = "closing" => selected.sig # 0,
         st \in {"closed", "recovered"} => r \in Settlers,
         st = "already" => settled # 0,
         row'.status = "closed" => settled # 0,
         row'.hash # 0 => row'.hash = settled
  PROVE  RecordInv'
<1>1. /\ DOMAIN job' = Reconcilers /\ job'[r] = Job(st, selected, seen)
      /\ \A q \in Reconcilers \ {r} : job'[q] = job[q]
  BY DEF RecordInv, RunsAgree
<1>2. Settlers' \subseteq Settlers BY <1>1 DEF Settlers, Job
<1>3. UNCHANGED <<Closers, Reports>> BY DEF Closers, Reports
<1>4. OneEntry' BY <1>2, <1>3, NoNewClaim DEF RecordInv
<1>5. r \in Settlers => settled # 0 BY DEF RecordInv, OneEntry
<1>6. RunsAgree' BY <1>1, <1>5 DEF RunsAgree, RecordInv, Job
<1>7. ClosersAgree' BY DEF ClosersAgree, RecordInv
<1>8. TablesAgree' BY <1>3 DEF TablesAgree, RecordInv
<1> QED BY <1>4, <1>6, <1>7, <1>8 DEF RecordInv

\* A run selects the row as it is.
LEMMA SelectionAgrees ==
  ASSUME RecordInv, NEW r, SelectRow(r) PROVE RecordInv'
<1>1. r \in Reconcilers /\ row.sig # 0 /\ job' = [job EXCEPT ![r] = Job("closing", row, served)]
  BY DEF SelectRow, Orphaned
<1>2. UNCHANGED <<settled, deletes, posts, tx_log, row>> BY DEF SelectRow, vars, calls
<1> QED BY <1>1, <1>2, RunQuiet DEF RecordInv, TablesAgree

\* The contract takes a run's close: nobody had closed before.
LEMMA RunSettles ==
  ASSUME RecordInv, NEW r \in Reconcilers, ReconcilerCloses(r) PROVE RecordInv'
<1>1. settled = 0 /\ settled' = job[r].row.sig /\ job[r].row.sig # 0
  BY DEF ReconcilerCloses, At, RecordInv, RunsAgree
<1>2. UNCHANGED <<deletes, posts, tx_log, row>> BY DEF ReconcilerCloses, calls
<1>3. PICK st \in {"closed", "error"} : job' = [job EXCEPT ![r] = Job(st, job[r].row, {})]
  BY DEF ReconcilerCloses, Goes
<1>4. /\ DOMAIN job' = Reconcilers /\ job'[r] = Job(st, job[r].row, {})
      /\ \A q \in Reconcilers \ {r} : job'[q] = job[q]
  BY <1>3 DEF RecordInv, RunsAgree
<1>5. Closers = {} /\ Settlers = {} /\ Reports = {} /\ tx_log = <<>>
  BY <1>1 DEF RecordInv, OneEntry
<1>6. Closers' = {} /\ Reports' = {} BY <1>2, <1>5 DEF Closers, Reports
<1>7. Settlers' \subseteq {r} BY <1>4, <1>5 DEF Settlers
<1>8. OneEntry' BY <1>1, <1>2, <1>5, <1>6, <1>7 DEF OneEntry
<1>9. ClosersAgree' BY <1>2, <1>5 DEF ClosersAgree, RecordInv, Closers
<1>10. RunsAgree' BY <1>1, <1>4 DEF RunsAgree, RecordInv, Job
<1>11. TablesAgree' BY <1>1, <1>2, <1>6 DEF TablesAgree, RecordInv
<1> QED BY <1>8, <1>9, <1>10, <1>11 DEF RecordInv

\* The hook of a run that recovered writes the entry nobody else has to write.
LEMMA HookLogsOnce ==
  ASSUME RecordInv, NEW r \in Reconcilers, OnRecovered(r) PROVE RecordInv'
<1>1. UNCHANGED <<settled, deletes, posts, row>> BY DEF OnRecovered, vars, calls
<1>2. r \in Settlers BY DEF OnRecovered, At, Settlers
<1>3. settled # 0 /\ tx_log = <<>> /\ Closers = {} /\ Reports = {} /\ \A q \in Settlers : q = r
  BY <1>2 DEF RecordInv, OneEntry
<1>4. tx_log' \in {<<>>, <<settled>>} BY <1>3 DEF OnRecovered, RecoveryLogged
<1>5. PICK to : to.st \in {"off", "error"} /\ job' = [job EXCEPT ![r] = to]
  <2>1. job' = [job EXCEPT ![r] = NoJob] \/ job' = [job EXCEPT ![r] = Job("error", job[r].row, {})]
    BY DEF OnRecovered, Ends, Goes
  <2>2. NoJob.st = "off" /\ Job("error", job[r].row, {}).st = "error" BY DEF NoJob, Job
  <2> QED BY <2>1, <2>2
<1>6. /\ DOMAIN job' = Reconcilers /\ job'[r] = to
      /\ \A q \in Reconcilers \ {r} : job'[q] = job[q]
  BY <1>5 DEF RecordInv, RunsAgree
<1>7. Closers' = {} /\ Reports' = {} BY <1>1, <1>3 DEF Closers, Reports
<1>8. Settlers' = {} BY <1>3, <1>5, <1>6 DEF Settlers
<1>9. OneEntry' BY <1>1, <1>3, <1>4, <1>7, <1>8 DEF OneEntry
<1>10. ClosersAgree' BY <1>1 DEF ClosersAgree, RecordInv
<1>11. RunsAgree' BY <1>1, <1>5, <1>6 DEF RunsAgree, RecordInv
<1>12. TablesAgree' BY <1>1, <1>7 DEF TablesAgree, RecordInv
<1> QED BY <1>9, <1>10, <1>11, <1>12 DEF RecordInv

\* The other steps of a run mark the row with the hash of the close, or without
\* one as closed when the contract said so.
LEMMA RunAgrees ==
  ASSUME RecordInv, NEW r \in Reconcilers, RunStep(r) PROVE RecordInv'
<1> USE DEF At, Goes, Ends, NoJob, vars, calls
<1>1. (row.status = "closed" => settled # 0) /\ (row.hash # 0 => row.hash = settled)
  BY DEF RecordInv, TablesAgree
<1>2. job[r].st \in {"closed", "already", "recovered"} => settled # 0 BY DEF RecordInv, RunsAgree
<1>3. CASE CloseRefused(r)
  <2>1. UNCHANGED <<settled, deletes, posts, tx_log, row>> BY <1>3 DEF CloseRefused
  <2>2. \/ settled # 0 /\ job' = [job EXCEPT ![r] = Job("already", job[r].row, {})]
        \/ job' = [job EXCEPT ![r] = Job("error", job[r].row, {})]
    BY <1>3 DEF CloseRefused
  <2> QED BY <1>1, <2>1, <2>2, RunQuiet
<1>4. CASE MarkRecovered(r)
  <2>1. UNCHANGED <<settled, deletes, posts, tx_log>> /\ r \in Settlers /\ settled # 0
    BY <1>2, <1>4 DEF MarkRecovered, Settlers
  <2>2. row' = row \/ (row'.status = "closed" /\ row'.hash = settled)
    BY <1>4 DEF MarkRecovered, Row
  <2>3. \/ job' = [job EXCEPT ![r] = Job("recovered", job[r].row, {})]
        \/ job' = [job EXCEPT ![r] = Job("error", job[r].row, {})]
    BY <1>4 DEF MarkRecovered
  <2> QED BY <1>1, <2>1, <2>2, <2>3, RunQuiet
<1>5. CASE MarkAlreadyClosed(r)
  <2>1. UNCHANGED <<settled, deletes, posts, tx_log>> /\ settled # 0
    BY <1>2, <1>5 DEF MarkAlreadyClosed
  <2>2. row'.hash = row.hash BY <1>5 DEF MarkAlreadyClosed, Row
  <2>3. \/ job' = [job EXCEPT ![r] = Job("off", NoRow, {})]
        \/ job' = [job EXCEPT ![r] = Job("error", job[r].row, {})]
    BY <1>5 DEF MarkAlreadyClosed
  <2> QED BY <1>1, <2>1, <2>2, <2>3, RunQuiet
<1>6. CASE RecordFailure(r)
  <2>1. UNCHANGED <<settled, deletes, posts, tx_log>> BY <1>6 DEF RecordFailure
  <2>2. row'.hash = row.hash /\ row'.status \in {row.status, "failed"}
    BY <1>6 DEF RecordFailure, Attempted, Row
  <2>3. job' = [job EXCEPT ![r] = Job("off", NoRow, {})] BY <1>6 DEF RecordFailure
  <2> QED BY <1>1, <2>1, <2>2, <2>3, RunQuiet
<1> QED BY <1>3, <1>4, <1>5, <1>6, RunSettles, HookLogsOnce DEF RunStep

\* Every step keeps the invariant.
LEMMA NextRecord == RecordInv /\ StatementsKnown /\ [RecoveryNext]_allVars => RecordInv'
<1> SUFFICES ASSUME RecordInv, StatementsKnown, [RecoveryNext]_allVars PROVE RecordInv' OBVIOUS
<1>1. CASE ProviderStep
  <2>1. CASE \E d \in Deletes : ChainCloses(d) BY <1>1, <2>1, DeleteSettles
  <2>2. CASE \E d \in Deletes : FinishClose(d) BY <1>1, <2>2, DeleteReports
  <2>3. CASE \A d \in Deletes : ~ChainCloses(d) /\ ~FinishClose(d)
    <3>1. Next BY <1>1 DEF ProviderStep
    <3>2. UNCHANGED settled
      <4>1. ASSUME NEW v \in Vouchers, Verify(v) \/ CommitStep(v) PROVE UNCHANGED settled
        BY <4>1 DEF Verify, CommitStep, StartCommit, StoreAnswersCommit, RecordVoucher,
                    PutResolves, PutFails, EmitCallbacks
      <4>2. ASSUME NEW r \in Reasons, Trigger(r) \/ OrphanStep(r) PROVE UNCHANGED settled
        BY <4>2 DEF Trigger, OrphanStep, StoreAnswersOrphan, FlagOrphan
      <4>3. ASSUME NEW d \in Deletes, (\E body \in Bodies : ReceiveDelete(d, body)) \/ DeleteStep(d)
            PROVE UNCHANGED settled
        BY <2>3, <4>3 DEF ReceiveDelete, DeleteStep, StoreAnswersDelete, ParseDelete, ChooseClose,
                          CheckFloor, ChainFails, RecordDeleted, RecordNotDeleted
      <4> QED BY <3>1, <4>1, <4>2, <4>3 DEF Next, Evict
    <3> QED BY <1>1, <2>3, <3>2, HandlerKeepsRecord
  <2> QED BY <2>1, <2>2, <2>3
<1>2. CASE \E p \in posts : RunPost(p) BY <1>2, StatementsAgree
<1>3. CASE Scheduled \/ ToolStarted BY <1>3, SelectionAgrees DEF Scheduled, ToolStarted
<1>4. CASE \E r \in Reconcilers : RunStep(r) BY <1>4, RunAgrees
<1>5. CASE UNCHANGED allVars
  BY <1>5 DEF allVars, vars, calls, recovery, RecordInv, OneEntry, ClosersAgree, RunsAgree,
              TablesAgree, Closers, Settlers, Reports
<1> QED BY <1>1, <1>2, <1>3, <1>4, <1>5 DEF RecoveryNext

\* The tables tell the truth of every settlement, with every number of DELETEs,
\* callbacks, runs and evictions, and whatever statements, closes and hooks fail.
THEOREM TablesTellTheTruth == RecoverySpec => []RecordedSettlementsAreReal
<1>1. RecoveryInit => RecordInv
  <2> SUFFICES ASSUME RecoveryInit PROVE RecordInv OBVIOUS
  <2>1. Closers = {} BY DEF RecoveryInit, Init, Closers, Delete
  <2>2. Settlers = {} BY DEF RecoveryInit, Settlers, NoJob, Job
  <2>3. Reports = {} BY DEF RecoveryInit, Init, Reports
  <2>4. OneEntry BY <2>1, <2>2, <2>3 DEF RecoveryInit, Init, OneEntry
  <2>5. ClosersAgree BY DEF RecoveryInit, Init, ClosersAgree, Delete
  <2>6. RunsAgree BY DEF RecoveryInit, RunsAgree, NoJob, Job
  <2>7. TablesAgree BY <2>3 DEF RecoveryInit, TablesAgree, NoRow, Row
  <2> QED BY <2>4, <2>5, <2>6, <2>7 DEF RecordInv
<1>2. RecordInv => RecordedSettlementsAreReal
  BY DEF RecordInv, OneEntry, TablesAgree, RecordedSettlementsAreReal
<1>3. RecoveryInit => StatementsKnown BY DEF RecoveryInit, Init, StatementsKnown
<1> QED BY <1>1, <1>2, <1>3, NextRecord, NextStatements, PTL DEF RecoverySpec

----------------------------------------------------------------------------
\* The channel with reconcilers. They close for what the row says, so the row, what
\* a run selected of it and the statements still to come name verified vouchers.
RowsVerified(K) ==
  /\ row.amount \in K
  /\ \A r \in Reconcilers : job[r].row.amount \in K
  /\ \A p \in posts : p.kind = "advance" => p.amount \in K

RunsSigned == \A r \in Reconcilers : job[r].st = "closing" => job[r].row.sig # 0

RecoveryInv ==
  /\ ChannelInv /\ RecoveryTypeOK /\ RunsSigned
  /\ Provenance /\ RowsVerified(VerifiedAmounts)

\* A row is built of what its columns take.
LEMMA RowTypes ==
  /\ \A status \in {"none", "open", "closing", "closed", "failed"} :
     \A amount, sig, hash \in Amounts : \A attempts \in Nat :
       Row(status, amount, sig, hash, attempts) \in Rows
  /\ NoRow \in Rows
<1>1. \A status \in {"none", "open", "closing", "closed", "failed"} :
      \A amount, sig, hash \in Amounts : \A attempts \in Nat :
        Row(status, amount, sig, hash, attempts) \in Rows
  BY DEF Row, Rows
<1>2. NoRow \in Rows BY AmountFacts DEF NoRow, Row, Rows
<1> QED BY <1>1, <1>2

\* A statement makes a row of a row.
LEMMA WrittenTypes ==
  ASSUME row \in Rows, NEW p \in Posts
  PROVE  Written(p) \in Rows
<1>1. /\ row.status \in {"none", "open", "closing", "closed", "failed"} /\ row.amount \in Amounts
      /\ row.sig \in Amounts /\ row.hash \in Amounts /\ row.attempts \in Nat /\ 0 \in Nat
  BY DEF Rows
<1>2. p.amount \in Amounts /\ p.sig \in Amounts BY DEF Posts
<1>3. Advanced(p.amount, p.sig) \in Rows BY <1>1, <1>2, RowTypes DEF Advanced
<1>4. p.kind \in {"open", "voucher", "orphan", "settled", "advance", "log"} BY DEF Posts
<1>5. CASE p.kind = "open" BY <1>1, <1>5, RowTypes, AmountFacts DEF Written
<1>6. CASE p.kind \in {"voucher", "advance"} BY <1>3, <1>6 DEF Written
<1>7. CASE p.kind = "orphan" BY <1>1, <1>7, RowTypes DEF Written
<1>8. CASE p.kind = "log" BY <1>8 DEF Written
<1>9. CASE p.kind = "settled" BY <1>1, <1>2, <1>9, RowTypes DEF Written
<1> QED BY <1>4, <1>5, <1>6, <1>7, <1>8, <1>9

\* A statement, and the run of a reconciler, keep the types.
LEMMA RecoveryTypeSteps ==
  ASSUME TypeOK, RecoveryTypeOK,
         \/ \E p \in posts : RunPost(p)
         \/ \E r \in Reconcilers : SelectRow(r) \/ RunStep(r)
  PROVE  TypeOK' /\ RecoveryTypeOK'
<1>1. /\ row.status \in {"none", "open", "closing", "closed", "failed"} /\ row.amount \in Amounts
      /\ row.sig \in Amounts /\ row.hash \in Amounts /\ row.attempts \in Nat
  BY DEF Rows, RecoveryTypeOK
<1>2. faults \in Nat /\ MaxFaults \in Nat /\ (Fault => faults' \in 0..MaxFaults)
  BY RecoveryAssumption DEF RecoveryTypeOK, Fault
<1>3. ASSUME NEW p \in posts, RunPost(p) PROVE TypeOK' /\ RecoveryTypeOK'
  <2>1. p \in Posts BY DEF TypeOK
  <2>2. Following(p) \subseteq Posts BY <2>1, AmountFacts DEF Following, Post, Posts
  <2>3. posts' \subseteq Posts BY <1>3, <2>2 DEF RunPost, TypeOK
  <2>4. TypeOK' BY <1>3, <2>3 DEF RunPost, TypeOK, memory, store, calls, observed
  <2>5. row' \in Rows BY <1>3, <2>1, WrittenTypes DEF RunPost, RecoveryTypeOK
  <2>6. tx_log' \in Seq(Amounts) BY <1>3, <2>1 DEF RunPost, Logged, RecoveryTypeOK, Posts
  <2>7. faults' \in 0..MaxFaults BY <1>2, <1>3 DEF RunPost, RecoveryTypeOK
  <2> QED BY <1>3, <2>4, <2>5, <2>6, <2>7 DEF RunPost, RecoveryTypeOK
<1>4. ASSUME NEW r \in Reconcilers, SelectRow(r) \/ RunStep(r) PROVE TypeOK' /\ RecoveryTypeOK'
  <2> DEFINE JobStates == {"off", "closing", "closed", "already", "recovered", "error"}
  <2>1. job[r].row \in Rows /\ job[r].row.amount \in Amounts /\ job[r].row.attempts \in Nat
    BY DEF RecoveryTypeOK, Rows
  <2>2. settled \in Amounts /\ settled' \in Amounts
    BY <1>4, <2>1 DEF TypeOK, SelectRow, RunStep, ReconcilerCloses, CloseRefused, MarkRecovered, OnRecovered,
                      MarkAlreadyClosed, RecordFailure, vars
  <2>3. TypeOK'
    <3>1. UNCHANGED <<memory, store, calls, posts, evictions, observed>>
      BY <1>4 DEF SelectRow, RunStep, ReconcilerCloses, CloseRefused, MarkRecovered, OnRecovered,
                  MarkAlreadyClosed, RecordFailure, vars
    <3> QED BY <2>2, <3>1 DEF TypeOK, memory, store, calls, observed
  <2>4. row' \in Rows
    <3>1. CASE MarkRecovered(r) BY <1>1, <2>2, <3>1, RowTypes DEF MarkRecovered, RecoveryTypeOK
    <3>2. CASE MarkAlreadyClosed(r) BY <1>1, <3>2, RowTypes DEF MarkAlreadyClosed, RecoveryTypeOK
    <3>3. CASE RecordFailure(r)
      <4>1. job[r].row.attempts + 1 \in Nat BY <2>1
      <4>2. Attempted(r) \in Rows BY <1>1, <4>1, RowTypes DEF Attempted
      <4> QED BY <3>3, <4>2 DEF RecordFailure, RecoveryTypeOK
    <3> QED BY <1>4, <3>1, <3>2, <3>3
            DEF SelectRow, RunStep, ReconcilerCloses, CloseRefused, OnRecovered, RecoveryTypeOK
  <2>5. tx_log' \in Seq(Amounts)
    <3>1. CASE OnRecovered(r) BY <2>2, <3>1 DEF OnRecovered, RecoveryLogged, RecoveryTypeOK
    <3> QED BY <1>4, <3>1 DEF SelectRow, RunStep, ReconcilerCloses, CloseRefused, MarkRecovered,
                              MarkAlreadyClosed, RecordFailure, RecoveryTypeOK
  <2>6. faults' \in 0..MaxFaults
    BY <1>2, <1>4 DEF SelectRow, RunStep, ReconcilerCloses, CloseRefused, MarkRecovered, OnRecovered,
                      MarkAlreadyClosed, RecordFailure, RecoveryTypeOK
  <2>7. abandoned' \subseteq Vouchers
    BY <1>4 DEF SelectRow, RunStep, ReconcilerCloses, CloseRefused, MarkRecovered, OnRecovered,
                MarkAlreadyClosed, RecordFailure, RecoveryTypeOK
  <2>8. PICK to : /\ job' = [job EXCEPT ![r] = to] /\ to.st \in JobStates
                  /\ to.row \in Rows /\ to.seen \subseteq Vouchers
    <3>1. \A st \in JobStates, selected \in Rows, seen \in SUBSET Vouchers :
            /\ Job(st, selected, seen).st \in JobStates /\ Job(st, selected, seen).row \in Rows
            /\ Job(st, selected, seen).seen \subseteq Vouchers
      BY DEF Job
    <3>2. row \in Rows /\ served \in SUBSET Vouchers /\ {} \in SUBSET Vouchers /\ NoRow \in Rows
      BY RowTypes DEF TypeOK, RecoveryTypeOK
    <3>3. \/ job' = [job EXCEPT ![r] = Job("closing", row, served)]
          \/ \E st \in JobStates : job' = [job EXCEPT ![r] = Job(st, job[r].row, {})]
          \/ job' = [job EXCEPT ![r] = Job("off", NoRow, {})]
      BY <1>4 DEF SelectRow, RunStep, ReconcilerCloses, CloseRefused, MarkRecovered, OnRecovered,
                  MarkAlreadyClosed, RecordFailure, Goes, Ends, NoJob
    <3> HIDE DEF JobStates
    <3>4. "closing" \in JobStates /\ "off" \in JobStates BY DEF JobStates
    <3> QED BY <2>1, <3>1, <3>2, <3>3, <3>4
  <2>9. \A q \in Reconcilers : job'[q].st \in JobStates /\ job'[q].row \in Rows /\ job'[q].seen \subseteq Vouchers
    <3>1. DOMAIN job' = DOMAIN job BY <2>8
    <3> QED BY <2>8, <3>1 DEF RecoveryTypeOK
  <2> QED BY <2>3, <2>4, <2>5, <2>6, <2>7, <2>9 DEF RecoveryTypeOK
<1> QED BY <1>3, <1>4

\* What a row takes from another row, or from a statement, is verified if that is.
LEMMA WrittenVerified ==
  ASSUME NEW K, 0 \in K, row.amount \in K, NEW p,
         p.kind \in {"voucher", "advance"} => p.amount \in K,
         p.kind \in {"open", "voucher", "orphan", "settled", "advance", "log"}
  PROVE  Written(p).amount \in K
<1> USE DEF Row
<1>1. CASE p.kind = "open" BY <1>1 DEF Written
<1>2. CASE p.kind \in {"voucher", "advance"} BY <1>2 DEF Written, Advanced
<1>3. CASE p.kind = "orphan" BY <1>3 DEF Written
<1>4. CASE p.kind = "log" BY <1>4 DEF Written
<1>5. CASE p.kind = "settled" BY <1>5 DEF Written
<1> QED BY <1>1, <1>2, <1>3, <1>4, <1>5

\* The handler leaves no second statements.
LEMMA HandlerAdvancesNothing ==
  ASSUME Next
  PROVE  \A p \in posts' : p.kind = "advance" => p \in posts
<1> USE DEF Post
<1>1. ASSUME NEW v \in Vouchers, Verify(v) \/ CommitStep(v) PROVE \A p \in posts' : p.kind = "advance" => p \in posts
  <2>1. CASE EmitCallbacks(v) BY <2>1 DEF EmitCallbacks
  <2> QED BY <1>1, <2>1 DEF Verify, CommitStep, StartCommit, StoreAnswersCommit, RecordVoucher,
                            PutResolves, PutFails
<1>2. ASSUME NEW r \in Reasons, Trigger(r) \/ OrphanStep(r)
      PROVE \A p \in posts' : p.kind = "advance" => p \in posts
  <2>1. CASE FlagOrphan(r) BY <2>1 DEF FlagOrphan
  <2> QED BY <1>2, <2>1 DEF Trigger, OrphanStep, StoreAnswersOrphan
<1>3. ASSUME NEW d \in Deletes, (\E body \in Bodies : ReceiveDelete(d, body)) \/ DeleteStep(d)
      PROVE \A p \in posts' : p.kind = "advance" => p \in posts
  <2>1. CASE FinishClose(d) BY <2>1 DEF FinishClose
  <2> QED BY <1>3, <2>1 DEF ReceiveDelete, DeleteStep, StoreAnswersDelete, ParseDelete, ChooseClose,
                            CheckFloor, ChainCloses, ChainFails, RecordDeleted, RecordNotDeleted
<1> QED BY <1>1, <1>2, <1>3 DEF Next, Evict

\* The handler's steps keep the invariant, with the runs an eviction ends.
LEMMA HandlerKeepsRecoveryInv ==
  ASSUME "read" \notin StoreFailures, RecoveryInv, ProviderStep
  PROVE  RecoveryInv'
<1>1. /\ Next /\ UNCHANGED <<row, tx_log, faults, abandoned>>
      /\ job' = [r \in Reconcilers |-> IF r = "cron" /\ evictions' # evictions THEN NoJob ELSE job[r]]
  BY DEF ProviderStep
<1>2. ChannelInv' BY <1>1, NextChannelInv DEF RecoveryInv
<1>3. Provenance' /\ VerifiedAmounts \subseteq VerifiedAmounts' /\ 0 \in VerifiedAmounts
  BY <1>1, NextProvenance, VerifiedForever DEF RecoveryInv, ChannelInv, VerifiedAmounts
<1>4. /\ NoJob.st = "off" /\ NoJob.row \in Rows /\ NoJob.row.amount = 0 /\ NoJob.seen = {}
  BY RowTypes DEF NoJob, Job, NoRow, Row
<1>5. \A r \in Reconcilers : job'[r] = NoJob \/ job'[r] = job[r] BY <1>1
<1>6. RecoveryTypeOK' BY <1>1, <1>4, <1>5 DEF RecoveryInv, RecoveryTypeOK
<1>7. RunsSigned' BY <1>4, <1>5 DEF RecoveryInv, RunsSigned
<1>8. RowsVerified(VerifiedAmounts)'
  <2>1. row'.amount \in VerifiedAmounts' BY <1>1, <1>3 DEF RecoveryInv, RowsVerified
  <2>2. \A r \in Reconcilers : job'[r].row.amount \in VerifiedAmounts'
    BY <1>3, <1>4, <1>5 DEF RecoveryInv, RowsVerified
  <2>3. \A p \in posts' : p.kind = "advance" => p.amount \in VerifiedAmounts'
    BY <1>1, <1>3, HandlerAdvancesNothing DEF RecoveryInv, RowsVerified
  <2> QED BY <2>1, <2>2, <2>3 DEF RowsVerified
<1> QED BY <1>2, <1>3, <1>6, <1>7, <1>8 DEF RecoveryInv

\* So do the statements.
LEMMA StatementsKeepRecoveryInv ==
  ASSUME RecoveryInv, NEW p \in posts, RunPost(p)
  PROVE  RecoveryInv'
<1>1. /\ posts' = (posts \ {p}) \cup Following(p) /\ row' \in {row, Written(p)}
      /\ UNCHANGED <<record, persisted, cumulative, settled, commits, deletes, orphans, served,
                     promised, job>>
  BY DEF RunPost, memory, store, calls, observed
<1>2. TypeOK' /\ RecoveryTypeOK' BY RecoveryTypeSteps DEF RecoveryInv, ChannelInv
<1>3. ChannelInv'
  BY <1>1, <1>2 DEF RecoveryInv, ChannelInv, Floor, SettlementCoversServed, ClosesNamed, NonePromised
<1>4. RunsSigned' BY <1>1 DEF RecoveryInv, RunsSigned
<1>5. UNCHANGED VerifiedAmounts /\ 0 \in VerifiedAmounts BY <1>1 DEF VerifiedAmounts
<1>6. \A q \in Following(p) : q.kind \in {"advance", "log"} /\ (q.kind = "advance" => p.kind = "orphan" /\ q.amount = p.amount)
  BY DEF Following, Post
<1>7. p.kind \in {"open", "voucher", "orphan", "settled", "advance", "log"}
  BY DEF RecoveryInv, ChannelInv, TypeOK, Posts
<1>8. p.kind \in {"voucher", "orphan", "advance"} => p.amount \in VerifiedAmounts
  BY DEF RecoveryInv, Provenance, Carried, RowsVerified
<1>9. Provenance' BY <1>1, <1>5, <1>6 DEF RecoveryInv, Provenance, Carried
<1>10. row'.amount \in VerifiedAmounts
  BY <1>1, <1>5, <1>7, <1>8, WrittenVerified DEF RecoveryInv, RowsVerified
<1>11. \A q \in posts' : q.kind = "advance" => q.amount \in VerifiedAmounts
  BY <1>1, <1>6, <1>8 DEF RecoveryInv, RowsVerified
<1>12. RowsVerified(VerifiedAmounts)' BY <1>1, <1>5, <1>10, <1>11 DEF RecoveryInv, RowsVerified
<1> QED BY <1>2, <1>3, <1>4, <1>9, <1>12 DEF RecoveryInv

\* And the runs, which change what is settled only while the channel is open.
LEMMA RunsKeepRecoveryInv ==
  ASSUME RecoveryInv, NEW r \in Reconcilers, SelectRow(r) \/ RunStep(r)
  PROVE  RecoveryInv'
<1>1. /\ UNCHANGED <<record, persisted, cumulative, commits, deletes, orphans, posts, served, promised>>
      /\ settled = 0 \/ settled' = settled
  BY DEF SelectRow, RunStep, ReconcilerCloses, CloseRefused, MarkRecovered, OnRecovered,
         MarkAlreadyClosed, RecordFailure, vars, memory, store, calls, observed
<1>2. TypeOK' /\ RecoveryTypeOK' BY RecoveryTypeSteps DEF RecoveryInv, ChannelInv
<1>3. ChannelInv'
  <2>1. NonePromised' /\ (settled = 0 => promised = {}) BY <1>1 DEF RecoveryInv, ChannelInv, NonePromised
  <2>2. SettlementCoversServed' BY <1>1, <2>1 DEF RecoveryInv, ChannelInv, Floor, SettlementCoversServed
  <2> QED BY <1>1, <1>2, <2>1, <2>2 DEF RecoveryInv, ChannelInv, Floor, ClosesNamed
<1>4. UNCHANGED VerifiedAmounts /\ 0 \in VerifiedAmounts BY <1>1 DEF VerifiedAmounts
<1>5. Provenance' BY <1>1, <1>4 DEF RecoveryInv, Provenance, Carried
<1>6. row'.amount = row.amount
  BY DEF SelectRow, RunStep, ReconcilerCloses, CloseRefused, MarkRecovered, OnRecovered,
         MarkAlreadyClosed, RecordFailure, Attempted, Row
<1>7. \/ row.sig # 0 /\ job' = [job EXCEPT ![r] = Job("closing", row, served)]
      \/ \E st \in {"closed", "already", "recovered", "error"} :
           job' = [job EXCEPT ![r] = Job(st, job[r].row, {})]
      \/ job' = [job EXCEPT ![r] = Job("off", NoRow, {})]
  BY DEF SelectRow, Orphaned, RunStep, ReconcilerCloses, CloseRefused, MarkRecovered, OnRecovered,
         MarkAlreadyClosed, RecordFailure, Goes, Ends, NoJob
<1>8. PICK to : /\ job' = [job EXCEPT ![r] = to] /\ (to.st = "closing" => to.row.sig # 0)
                /\ to.row.amount \in {row.amount, job[r].row.amount, 0}
  <2>1. \A st, selected, seen : Job(st, selected, seen).st = st /\ Job(st, selected, seen).row = selected
    BY DEF Job
  <2>2. NoRow.amount = 0 BY DEF NoRow, Row
  <2>3. ASSUME NEW st, NEW selected, NEW seen, job' = [job EXCEPT ![r] = Job(st, selected, seen)],
               st = "closing" => selected.sig # 0, selected.amount \in {row.amount, job[r].row.amount, 0}
        PROVE  \E x : /\ job' = [job EXCEPT ![r] = x] /\ (x.st = "closing" => x.row.sig # 0)
                      /\ x.row.amount \in {row.amount, job[r].row.amount, 0}
    <3>1. PICK x : x = Job(st, selected, seen) OBVIOUS
    <3>2. x.st = st /\ x.row = selected BY <2>1, <3>1
    <3>3. job' = [job EXCEPT ![r] = x] BY <2>3, <3>1
    <3> QED BY <2>3, <3>2, <3>3
  <2>4. CASE row.sig # 0 /\ job' = [job EXCEPT ![r] = Job("closing", row, served)]
    BY <2>3, <2>4
  <2>5. CASE \E st \in {"closed", "already", "recovered", "error"} :
               job' = [job EXCEPT ![r] = Job(st, job[r].row, {})]
    <3>1. PICK st \in {"closed", "already", "recovered", "error"} :
            job' = [job EXCEPT ![r] = Job(st, job[r].row, {})]
      BY <2>5
    <3> QED BY <2>3, <3>1
  <2>6. CASE job' = [job EXCEPT ![r] = Job("off", NoRow, {})]
    BY <2>2, <2>3, <2>6
  <2> QED BY <1>7, <2>4, <2>5, <2>6
<1>9. \A q \in Reconcilers : job'[q] = job[q] \/ (q = r /\ job'[q] = to) BY <1>8
<1>10. RunsSigned' BY <1>8, <1>9 DEF RecoveryInv, RunsSigned
<1>11. RowsVerified(VerifiedAmounts)'
  BY <1>1, <1>4, <1>6, <1>8, <1>9 DEF RecoveryInv, RowsVerified
<1> QED BY <1>2, <1>3, <1>5, <1>10, <1>11 DEF RecoveryInv

\* Every step keeps the invariant.
LEMMA NextRecoveryInv ==
  ASSUME "read" \notin StoreFailures
  PROVE  RecoveryInv /\ [RecoveryNext]_allVars => RecoveryInv'
<1> SUFFICES ASSUME RecoveryInv, [RecoveryNext]_allVars PROVE RecoveryInv' OBVIOUS
<1>1. CASE UNCHANGED allVars
  <2>1. UNCHANGED <<vars, row, tx_log, job, faults, abandoned>> BY <1>1 DEF allVars, recovery
  <2>2. ChannelInv' /\ Provenance' /\ UNCHANGED VerifiedAmounts
    BY <2>1 DEF vars, memory, store, calls, observed, RecoveryInv, ChannelInv, TypeOK, Floor,
                SettlementCoversServed, ClosesNamed, NonePromised, Provenance, Carried, VerifiedAmounts
  <2>3. UNCHANGED posts BY <2>1 DEF vars
  <2> QED BY <2>1, <2>2, <2>3 DEF RecoveryInv, RecoveryTypeOK, RunsSigned, RowsVerified
<1>2. CASE ProviderStep BY <1>2, HandlerKeepsRecoveryInv
<1>3. CASE \E p \in posts : RunPost(p) BY <1>3, StatementsKeepRecoveryInv
<1>4. CASE Scheduled \/ ToolStarted
  <2>1. PICK r \in Reconcilers : SelectRow(r) BY <1>4 DEF Scheduled, ToolStarted, SelectRow
  <2> QED BY <2>1, RunsKeepRecoveryInv
<1>5. CASE \E r \in Reconcilers : RunStep(r) BY <1>5, RunsKeepRecoveryInv
<1> QED BY <1>1, <1>2, <1>3, <1>4, <1>5 DEF RecoveryNext

\* It holds at first.
LEMMA InitRecoveryInv == RecoveryInit => RecoveryInv
<1> SUFFICES ASSUME RecoveryInit PROVE RecoveryInv OBVIOUS
<1>1. ChannelInv BY InitChannel DEF RecoveryInit
<1>2. Provenance /\ 0 \in VerifiedAmounts
  BY DEF RecoveryInit, Init, Provenance, Carried, VerifiedAmounts, Commit, Delete, NoBody
<1>3. \A r \in Reconcilers : job[r] = NoJob BY DEF RecoveryInit
<1>4. NoJob.st = "off" /\ NoJob.row = NoRow /\ NoJob.seen = {} /\ NoRow.amount = 0
  BY DEF NoJob, Job, NoRow, Row
<1>5. RecoveryTypeOK
  BY <1>3, <1>4, RowTypes, RecoveryAssumption DEF RecoveryInit, RecoveryTypeOK
<1>6. RunsSigned BY <1>3, <1>4 DEF RunsSigned
<1>7. RowsVerified(VerifiedAmounts) BY <1>2, <1>3, <1>4 DEF RecoveryInit, Init, RowsVerified
<1> QED BY <1>1, <1>2, <1>5, <1>6, <1>7 DEF RecoveryInv

\* Every step is one of the channel, or a reconciler's close for a verified voucher.
LEMMA RecoveryStepsAreChannelSteps ==
  ASSUME RecoveryInv, [RecoveryNext]_allVars
  PROVE  (Promise!Next \/ \E v \in Vouchers : Promise!Recover(v)) \/ UNCHANGED Promise!channel
<1>1. UNCHANGED <<commits, deletes, served, settled>> => UNCHANGED Promise!channel BY DEF Promise!channel
<1>2. CASE UNCHANGED allVars BY <1>1, <1>2 DEF allVars, vars, calls, observed
<1>3. CASE ProviderStep
  BY <1>3, HandlerStepsAreChannelSteps DEF ProviderStep, RecoveryInv
<1>4. CASE \E p \in posts : RunPost(p) BY <1>1, <1>4 DEF RunPost, calls, observed
<1>5. CASE Scheduled \/ ToolStarted
  BY <1>1, <1>5 DEF Scheduled, ToolStarted, SelectRow, vars, calls, observed
<1>6. ASSUME NEW r \in Reconcilers, RunStep(r)
      PROVE (\E v \in Vouchers : Promise!Recover(v)) \/ UNCHANGED Promise!channel
  <2>1. CASE ReconcilerCloses(r)
    <3>1. /\ job[r].st = "closing" /\ settled = 0 /\ job[r].row.sig = job[r].row.amount
          /\ settled' = job[r].row.amount /\ UNCHANGED <<commits, deletes, served>>
      BY <2>1 DEF ReconcilerCloses, At, calls, observed
    <3>2. job[r].row.amount # 0 BY <3>1 DEF RecoveryInv, RunsSigned
    <3>3. job[r].row.amount \in VerifiedVouchers
      BY <3>2 DEF RecoveryInv, RowsVerified, VerifiedAmounts, VerifiedVouchers
    <3>4. Promise!Recover(job[r].row.amount) BY <3>1, <3>3 DEF Promise!Recover, VerifiedVouchers
    <3> QED BY <3>3, <3>4 DEF VerifiedVouchers
  <2>2. CASE ~ReconcilerCloses(r)
    BY <1>1, <1>6, <2>2 DEF RunStep, CloseRefused, MarkRecovered, OnRecovered, MarkAlreadyClosed,
                            RecordFailure, vars, calls, observed
  <2> QED BY <2>1, <2>2
<1> QED BY <1>2, <1>3, <1>4, <1>5, <1>6 DEF RecoveryNext

\* With reconcilers beside it, evictions and faults, the channel is still closed once,
\* by a DELETE for what it found served or by a run for a verified voucher.
THEOREM RecoveryKeepsPromise ==
  ASSUME "read" \notin StoreFailures
  PROVE  RecoverySpec => ImplementsRecoverable
<1>1. RecoveryInv /\ [RecoveryNext]_allVars
        => [Promise!Next \/ \E v \in Vouchers : Promise!Recover(v)]_(Promise!channel)
  BY RecoveryStepsAreChannelSteps
<1>2. RecoveryInit => Promise!Init BY InitChannel DEF RecoveryInit
<1> QED BY <1>1, <1>2, InitRecoveryInv, NextRecoveryInv, PTL
        DEF RecoverySpec, ImplementsRecoverable, Promise!RecoverableSpec

\* The rows and runs are well typed, and a close that a DELETE makes pays what that
\* DELETE found served, whatever reconcilers do beside it.
THEOREM RecoveryCoversPromised ==
  ASSUME "read" \notin StoreFailures
  PROVE  RecoverySpec => [](RecoveryTypeOK /\ SettlementCoversServed)
<1>1. RecoveryInv => RecoveryTypeOK /\ SettlementCoversServed BY DEF RecoveryInv, ChannelInv, Floor
<1> QED BY <1>1, InitRecoveryInv, NextRecoveryInv, PTL DEF RecoverySpec
=============================================================================
