------------------------ MODULE ExpressSessionProofs ------------------------
(***************************************************************************)
(* Proofs about the session handler of the Express and Fastify adapters,   *)
(* for any number of vouchers, DELETE requests and restarts: what a close  *)
(* pays for, what is reported of it, and that it implements Channel.       *)
(***************************************************************************)
EXTENDS ExpressSession, TLAPS

DeleteType ==
  [st : {"unsent", "closing", "closed", "recording", "sent", "answered", "abandoned"},
   close : Closes, seen : SUBSET Vouchers]
PostType ==
  [kind : {"open", "voucher", "orphan", "settled", "vault"}, amount : Amounts, count : Amounts]

MemoryTypeOK ==
  /\ record \in Amounts /\ voucherCount \in Amounts /\ sessionOpened \in BOOLEAN
  /\ commits \in [Vouchers -> {"unsent", "verified", "done"}]
  /\ served \in SUBSET Vouchers

ChainTypeOK ==
  /\ settled \in Amounts /\ promised \in SUBSET Vouchers
  /\ deletes \in [Deletes -> DeleteType] /\ posts \in SUBSET PostType

\* The record is the last voucher that was committed, and no more were counted.
RecordCounts ==
  /\ voucherCount <= record
  /\ record # 0 => commits[record] = "done"
  /\ sessionOpened => Post("voucher", record, voucherCount) \in posts

\* As long as the channel is open, the record is the highest voucher served.
RecordCoversServed == settled = 0 => \A v \in served : v <= record

\* A close that can still happen is for all that was served before it was asked for,
\* every close for as many vouchers as it pays for.
CloseCovers(d) ==
  /\ deletes[d].st \notin {"unsent", "answered"} =>
       deletes[d].close.amount # 0 /\ deletes[d].close.count <= deletes[d].close.amount
  /\ settled = 0 /\ deletes[d].st \in {"closing", "abandoned"} =>
       \A v \in deletes[d].seen : v <= deletes[d].close.amount
  /\ deletes[d].st \in {"closed", "recording", "sent"} => settled = deletes[d].close.amount

\* What is reported as settled is.
ReportsSettled == \A p \in posts : p.kind \in {"settled", "vault"} => settled # 0

ExpressInv ==
  /\ MemoryTypeOK /\ ChainTypeOK /\ RecordCounts /\ RecordCoversServed
  /\ \A d \in Deletes : CloseCovers(d)
  /\ ReportsSettled /\ SettlementCoversServed /\ ReportsMatchChain

\* Nothing is served, nothing settled and nothing reported at the start.
LEMMA ExpressInitInv == Init => ExpressInv
<1> USE ExpressAssumption
<1> SUFFICES ASSUME Init PROVE ExpressInv OBVIOUS
<1>1. 0 \in Amounts BY DEF Amounts
<1>2. NoClose \in Closes BY <1>1 DEF NoClose, Closes
<1>3. Delete("unsent", NoClose, {}) \in DeleteType BY <1>2 DEF Delete, DeleteType
<1>4. \A d \in Deletes : deletes[d].st = "unsent" BY DEF Init, Delete
<1>5. MemoryTypeOK BY <1>1 DEF Init, MemoryTypeOK
<1>6. ChainTypeOK BY <1>1, <1>3 DEF Init, ChainTypeOK
<1>7. RecordCounts /\ RecordCoversServed BY DEF Init, RecordCounts, RecordCoversServed
<1>8. \A d \in Deletes : CloseCovers(d) BY <1>4 DEF CloseCovers
<1>9. ReportsSettled /\ SettlementCoversServed /\ ReportsMatchChain
  BY DEF Init, ReportsSettled, SettlementCoversServed, ReportsMatchChain
<1> QED BY <1>5, <1>6, <1>7, <1>8, <1>9 DEF ExpressInv

\* A post is one, with what it says.
LEMMA PostIs ==
  ASSUME NEW kind \in {"open", "voucher", "orphan", "settled", "vault"}, NEW amount \in Amounts, NEW count \in Amounts
  PROVE  /\ Post(kind, amount, count) \in PostType /\ Post(kind, amount, count).kind = kind
         /\ Post(kind, amount, count).amount = amount /\ Post(kind, amount, count).count = count
BY DEF Post, PostType

\* Changing what became of a DELETE changes nothing else about it.
LEMMA DeleteGoesOn ==
  ASSUME ChainTypeOK, NEW d \in Deletes,
         NEW st \in {"unsent", "closing", "closed", "recording", "sent", "answered", "abandoned"},
         deletes' = [deletes EXCEPT ![d].st = st]
  PROVE  /\ deletes' \in [Deletes -> DeleteType] /\ deletes'[d].st = st
         /\ deletes'[d].close = deletes[d].close /\ deletes'[d].seen = deletes[d].seen
         /\ \A e \in Deletes \ {d} : deletes'[e] = deletes[e]
BY DEF ChainTypeOK, DeleteType

\* A voucher that is committed is the record, or below it.
LEMMA CommitInv == ASSUME ExpressInv, NEW v \in Vouchers, Commit(v) PROVE ExpressInv'
<1> USE ExpressAssumption
<1>1. /\ commits[v] = "verified" /\ commits' = [commits EXCEPT ![v] = "done"] /\ served' = served \cup {v}
      /\ UNCHANGED <<settled, deletes, promised>>
  BY DEF Commit
<1>2. /\ record \in Amounts /\ voucherCount \in Amounts /\ voucherCount <= record /\ v \in Nat /\ v >= 1
      /\ record \in Nat /\ voucherCount \in Nat
  BY DEF ExpressInv, MemoryTypeOK, RecordCounts, Amounts, Vouchers
<1>3. commits' \in [Vouchers -> {"unsent", "verified", "done"}] /\ served' \in SUBSET Vouchers
  BY <1>1 DEF ExpressInv, MemoryTypeOK
<1>4. \A d \in Deletes : CloseCovers(d)' BY <1>1 DEF ExpressInv, CloseCovers
<1>5. SettlementCoversServed' BY <1>1 DEF ExpressInv, SettlementCoversServed
<1>6. CASE v < record
  <2>1. UNCHANGED <<record, voucherCount, sessionOpened, posts>> BY <1>6 DEF Commit
  <2>2. MemoryTypeOK' /\ ChainTypeOK' BY <1>1, <1>3, <2>1 DEF ExpressInv, MemoryTypeOK, ChainTypeOK
  <2>3. RecordCounts'
    <3>1. record # 0 => record \in Vouchers BY <1>2 DEF Amounts, Vouchers
    <3> QED BY <1>1, <2>1, <3>1 DEF ExpressInv, RecordCounts, MemoryTypeOK
  <2>4. RecordCoversServed' BY <1>1, <1>2, <1>6, <2>1 DEF ExpressInv, RecordCoversServed
  <2>5. ReportsSettled' /\ ReportsMatchChain' BY <1>1, <2>1 DEF ExpressInv, ReportsSettled, ReportsMatchChain
  <2> QED BY <1>4, <1>5, <2>2, <2>3, <2>4, <2>5 DEF ExpressInv
<1>7. CASE ~(v < record)
  <2>1. record' = v /\ voucherCount' = voucherCount + 1 /\ sessionOpened' = TRUE BY <1>7 DEF Commit
  <2>2. posts' = posts \cup {Post("voucher", v, voucherCount + 1)} \cup {p \in {Post("open", 0, 0)} : ~sessionOpened}
    BY <1>7, <2>1 DEF Commit
  <2>3. v # record BY <1>1, <1>2 DEF ExpressInv, RecordCounts
  <2>4. voucherCount + 1 <= v /\ v \in Amounts /\ voucherCount + 1 \in Amounts /\ 0 \in Amounts
    BY <1>2, <1>7, <2>3 DEF Amounts, Vouchers
  <2>5. /\ Post("voucher", v, voucherCount + 1) \in PostType /\ Post("voucher", v, voucherCount + 1).kind = "voucher"
        /\ Post("voucher", v, voucherCount + 1).amount = v
        /\ Post("voucher", v, voucherCount + 1).count = voucherCount + 1
    BY <2>4, PostIs
  <2>6. /\ Post("open", 0, 0) \in PostType /\ Post("open", 0, 0).kind = "open"
        /\ Post("open", 0, 0).amount = 0 /\ Post("open", 0, 0).count = 0
    BY <2>4, PostIs
  <2>7. MemoryTypeOK' BY <1>3, <2>1, <2>4 DEF MemoryTypeOK
  <2>8. ChainTypeOK' BY <1>1, <2>2, <2>5, <2>6 DEF ExpressInv, ChainTypeOK
  <2>9. RecordCounts' BY <1>1, <1>2, <2>1, <2>2, <2>4 DEF ExpressInv, RecordCounts, MemoryTypeOK
  <2>10. RecordCoversServed'
    <3>1. ASSUME settled = 0, NEW u \in served PROVE u <= v
      <4>1. u <= record /\ u \in Nat BY <3>1 DEF ExpressInv, RecordCoversServed, MemoryTypeOK, Vouchers
      <4> QED BY <1>2, <1>7, <4>1
    <3> QED BY <1>1, <1>2, <2>1, <3>1 DEF RecordCoversServed
  <2>11. ReportsSettled' BY <1>1, <2>2, <2>5, <2>6 DEF ExpressInv, ReportsSettled
  <2>12. ReportsMatchChain'
    <3>1. ASSUME NEW p \in posts'
          PROVE  /\ p.kind \in {"settled", "vault"} => p.amount = settled
                 /\ p.count <= p.amount
                 /\ p.kind = "orphan" => Post("voucher", p.amount, p.count) \in posts'
      <4>1. CASE p \in posts BY <2>2, <4>1 DEF ExpressInv, ReportsMatchChain
      <4>2. CASE p = Post("voucher", v, voucherCount + 1) BY <2>4, <2>5, <4>2
      <4>3. CASE p = Post("open", 0, 0) BY <2>6, <4>3
      <4> QED BY <2>2, <3>1, <4>1, <4>2, <4>3
    <3> QED BY <1>1, <3>1 DEF ReportsMatchChain
  <2> QED BY <1>4, <1>5, <2>7, <2>8, <2>9, <2>10, <2>11, <2>12 DEF ExpressInv
<1> QED BY <1>6, <1>7

\* A flag reports the record.
LEMMA OrphanInv == ASSUME ExpressInv, NEW r \in Reasons, Orphan(r) PROVE ExpressInv'
<1>1. UNCHANGED <<record, voucherCount, sessionOpened, settled, commits, deletes, served, promised>> BY DEF Orphan
<1>2. posts' = posts \/ (sessionOpened /\ posts' = posts \cup {Post("orphan", record, voucherCount)})
  BY DEF Orphan
<1>3. /\ Post("orphan", record, voucherCount) \in PostType /\ Post("orphan", record, voucherCount).kind = "orphan"
      /\ Post("orphan", record, voucherCount).amount = record
      /\ Post("orphan", record, voucherCount).count = voucherCount
  BY PostIs DEF ExpressInv, MemoryTypeOK
<1>4. MemoryTypeOK' /\ ChainTypeOK' BY <1>1, <1>2, <1>3 DEF ExpressInv, MemoryTypeOK, ChainTypeOK
<1>5. RecordCounts' /\ RecordCoversServed' BY <1>1, <1>2 DEF ExpressInv, RecordCounts, RecordCoversServed
<1>6. \A d \in Deletes : CloseCovers(d)' BY <1>1 DEF ExpressInv, CloseCovers
<1>7. ReportsSettled' /\ SettlementCoversServed'
  BY <1>1, <1>2, <1>3 DEF ExpressInv, ReportsSettled, SettlementCoversServed
<1>8. ReportsMatchChain' BY <1>1, <1>2, <1>3 DEF ExpressInv, ReportsMatchChain, RecordCounts
<1> QED BY <1>4, <1>5, <1>6, <1>7, <1>8 DEF ExpressInv

\* mppx's verification records nothing yet.
LEMMA VerifyInv == ASSUME ExpressInv, NEW v \in Vouchers, Verify(v) PROVE ExpressInv'
<1>1. /\ commits[v] = "unsent" /\ commits' = [commits EXCEPT ![v] = "verified"]
      /\ UNCHANGED <<record, voucherCount, sessionOpened, settled, deletes, posts, served, promised>>
  BY DEF Verify, memory
<1>2. MemoryTypeOK' /\ ChainTypeOK' BY <1>1 DEF ExpressInv, MemoryTypeOK, ChainTypeOK
<1>3. RecordCounts'
  <2>1. record # 0 => record \in Vouchers BY ExpressAssumption DEF ExpressInv, MemoryTypeOK, Amounts, Vouchers
  <2> QED BY <1>1, <2>1 DEF ExpressInv, RecordCounts, MemoryTypeOK
<1>4. RecordCoversServed' /\ ReportsSettled' /\ SettlementCoversServed' /\ ReportsMatchChain'
  BY <1>1 DEF ExpressInv, RecordCoversServed, ReportsSettled, SettlementCoversServed, ReportsMatchChain
<1>5. \A d \in Deletes : CloseCovers(d)' BY <1>1 DEF ExpressInv, CloseCovers
<1> QED BY <1>2, <1>3, <1>4, <1>5 DEF ExpressInv

\* A session that is given up leaves nothing that the record would have to cover:
\* the channel is closed, or no voucher was recorded.
LEMMA ResetKeeps ==
  ASSUME ExpressInv, Reset, settled # 0 \/ record = 0, UNCHANGED <<settled, commits, served>>
  PROVE  MemoryTypeOK' /\ RecordCounts' /\ RecordCoversServed'
<1>1. record' = 0 /\ voucherCount' = 0 /\ sessionOpened' = FALSE BY DEF Reset
<1>2. 0 \in Amounts BY ExpressAssumption DEF Amounts
<1>3. MemoryTypeOK' BY <1>1, <1>2 DEF ExpressInv, MemoryTypeOK
<1>4. RecordCounts' BY <1>1 DEF RecordCounts
<1>5. RecordCoversServed' BY <1>1 DEF ExpressInv, RecordCoversServed
<1> QED BY <1>3, <1>4, <1>5

\* A close is for the higher of the body and the record, and has no signature only
\* when nothing was recorded.
LEMMA CloseForCovers ==
  ASSUME ExpressInv, NEW body \in Bodies
  PROVE  /\ CloseFor(body) \in Closes /\ record <= CloseFor(body).amount
         /\ CloseFor(body).count = voucherCount
         /\ (CloseFor(body).amount <= 0 \/ CloseFor(body).sig = 0) => record = 0
<1> USE ExpressAssumption
<1>1. record \in Amounts /\ voucherCount \in Amounts /\ body.amount \in Amounts /\ body.sig \in Amounts
  BY DEF ExpressInv, MemoryTypeOK
<1>2. record \in Nat /\ body.amount \in Nat BY <1>1 DEF Amounts
<1>3. /\ CloseFor(body).amount = IF body.amount > record THEN body.amount ELSE record
      /\ CloseFor(body).sig = IF body.amount > record /\ body.sig # 0 THEN body.sig ELSE record
      /\ CloseFor(body).count = voucherCount
  BY DEF CloseFor
<1>4. CloseFor(body) \in Closes BY <1>1 DEF CloseFor, Closes
<1> QED BY <1>2, <1>3, <1>4

\* A DELETE takes the close that covers what has been served, or finds nothing to close.
LEMMA ReceiveInv ==
  ASSUME ExpressInv, NEW d \in Deletes, NEW body \in Bodies, ReceiveDelete(d, body)
  PROVE  ExpressInv'
<1>1. deletes[d].st = "unsent" /\ UNCHANGED <<settled, commits, posts, served, promised>> BY DEF ReceiveDelete
<1>2. /\ CloseFor(body) \in Closes /\ record <= CloseFor(body).amount /\ CloseFor(body).count = voucherCount
      /\ (CloseFor(body).amount <= 0 \/ CloseFor(body).sig = 0) => record = 0
  BY CloseForCovers
<1>3. record \in Nat /\ voucherCount \in Nat /\ voucherCount <= record /\ CloseFor(body).amount \in Nat
  BY <1>2 DEF ExpressInv, MemoryTypeOK, RecordCounts, Amounts, Closes
<1>4. SettlementCoversServed' /\ ReportsSettled' /\ ReportsMatchChain'
  BY <1>1 DEF ExpressInv, SettlementCoversServed, ReportsSettled, ReportsMatchChain
<1>5. CASE CloseFor(body).amount > 0 /\ CloseFor(body).sig # 0
  <2> DEFINE taken == Delete("closing", CloseFor(body), served)
  <2>1. deletes' = [deletes EXCEPT ![d] = taken] /\ UNCHANGED <<record, voucherCount, sessionOpened>>
    BY <1>5 DEF ReceiveDelete, memory
  <2>2. taken \in DeleteType /\ taken.st = "closing" /\ taken.close = CloseFor(body) /\ taken.seen = served
    BY <1>2 DEF Delete, DeleteType, ExpressInv, MemoryTypeOK
  <2> HIDE DEF taken
  <2>3. MemoryTypeOK' /\ RecordCounts' /\ RecordCoversServed'
    BY <1>1, <2>1 DEF ExpressInv, MemoryTypeOK, RecordCounts, RecordCoversServed
  <2>4. ChainTypeOK' BY <1>1, <2>1, <2>2 DEF ExpressInv, ChainTypeOK
  <2>5. deletes'[d] = taken BY <2>1 DEF ExpressInv, ChainTypeOK
  <2>6. CloseCovers(d)'
    <3>1. settled = 0 => \A v \in served : v <= CloseFor(body).amount
      <4>1. ASSUME settled = 0, NEW v \in served PROVE v <= CloseFor(body).amount
        <5>1. v <= record /\ v \in Nat BY <4>1 DEF ExpressInv, RecordCoversServed, MemoryTypeOK, Vouchers
        <5> QED BY <1>2, <1>3, <5>1
      <4> QED BY <4>1
    <3> QED BY <1>1, <1>2, <1>3, <1>5, <2>2, <2>5, <3>1 DEF CloseCovers
  <2>7. \A e \in Deletes \ {d} : CloseCovers(e)' BY <1>1, <2>1 DEF ExpressInv, ChainTypeOK, CloseCovers
  <2> QED BY <1>4, <2>3, <2>4, <2>6, <2>7 DEF ExpressInv
<1>6. CASE ~(CloseFor(body).amount > 0 /\ CloseFor(body).sig # 0)
  <2> DEFINE none == Delete("answered", NoClose, {})
  <2>1. deletes' = [deletes EXCEPT ![d] = none] /\ Reset BY <1>6 DEF ReceiveDelete
  <2>2. record = 0 BY <1>2, <1>3, <1>6
  <2>3. 0 \in Amounts BY ExpressAssumption DEF Amounts
  <2>4. NoClose \in Closes BY <2>3 DEF NoClose, Closes
  <2>5. none \in DeleteType /\ none.st = "answered" BY <2>4 DEF Delete, DeleteType
  <2> HIDE DEF none
  <2>6. MemoryTypeOK' /\ RecordCounts' /\ RecordCoversServed' BY <1>1, <2>1, <2>2, ResetKeeps
  <2>7. ChainTypeOK' BY <1>1, <2>1, <2>5 DEF ExpressInv, ChainTypeOK
  <2>8. deletes'[d] = none BY <2>1 DEF ExpressInv, ChainTypeOK
  <2>9. CloseCovers(d)' BY <2>5, <2>8 DEF CloseCovers
  <2>10. \A e \in Deletes \ {d} : CloseCovers(e)' BY <1>1, <2>1 DEF ExpressInv, ChainTypeOK, CloseCovers
  <2> QED BY <1>4, <2>6, <2>7, <2>9, <2>10 DEF ExpressInv
<1> QED BY <1>5, <1>6

\* A DELETE goes on to be answered, or towards the vault, while the contract stands.
LEMMA DeleteMovesOn ==
  ASSUME ExpressInv, NEW d \in Deletes, NEW st \in {"closed", "recording", "sent", "answered"},
         deletes' = [deletes EXCEPT ![d].st = st], UNCHANGED <<settled, promised>>,
         st # "answered" => deletes[d].st \in {"closed", "recording", "sent"}
  PROVE  /\ deletes' \in [Deletes -> DeleteType]
         /\ \A e \in Deletes : CloseCovers(e)'
         /\ SettlementCoversServed'
<1>1. /\ deletes' \in [Deletes -> DeleteType] /\ deletes'[d].st = st
      /\ deletes'[d].close = deletes[d].close /\ deletes'[d].seen = deletes[d].seen
      /\ \A e \in Deletes \ {d} : deletes'[e] = deletes[e]
  BY DeleteGoesOn DEF ExpressInv
<1>2. CloseCovers(d)' BY <1>1 DEF ExpressInv, CloseCovers
<1>3. \A e \in Deletes \ {d} : CloseCovers(e)' BY <1>1 DEF ExpressInv, CloseCovers
<1>4. SettlementCoversServed' BY DEF ExpressInv, SettlementCoversServed
<1> QED BY <1>1, <1>2, <1>3, <1>4

\* The contract closes for what the DELETE found, and nobody has heard of another close.
LEMMA ChainClosesInv == ASSUME ExpressInv, NEW d \in Deletes, ChainCloses(d) PROVE ExpressInv'
<1> DEFINE st == IF deletes[d].st = "closing" THEN "closed" ELSE "answered"
<1>1. /\ deletes[d].st \in {"closing", "abandoned"} /\ settled = 0
      /\ settled' = deletes[d].close.amount /\ promised' = deletes[d].seen
      /\ deletes' = [deletes EXCEPT ![d].st = st]
      /\ UNCHANGED <<record, voucherCount, sessionOpened, commits, posts, served>>
  BY DEF ChainCloses, memory
<1>2. st \in {"closed", "answered"} OBVIOUS
<1> HIDE DEF st
<1>3. /\ deletes' \in [Deletes -> DeleteType] /\ deletes'[d].st = st
      /\ deletes'[d].close = deletes[d].close /\ deletes'[d].seen = deletes[d].seen
      /\ \A e \in Deletes \ {d} : deletes'[e] = deletes[e]
  BY <1>1, <1>2, DeleteGoesOn DEF ExpressInv
<1>4. /\ deletes[d].close.amount # 0 /\ deletes[d].close.count <= deletes[d].close.amount
      /\ \A v \in deletes[d].seen : v <= deletes[d].close.amount
  BY <1>1 DEF ExpressInv, CloseCovers
<1>5. deletes[d].close.amount \in Amounts /\ deletes[d].seen \in SUBSET Vouchers
  BY DEF ExpressInv, ChainTypeOK, DeleteType, Closes
<1>6. MemoryTypeOK' /\ ChainTypeOK' BY <1>1, <1>3, <1>5 DEF ExpressInv, MemoryTypeOK, ChainTypeOK
<1>7. RecordCounts' /\ RecordCoversServed'
  BY <1>1, <1>4 DEF ExpressInv, RecordCounts, RecordCoversServed
<1>8. CloseCovers(d)' BY <1>1, <1>2, <1>3, <1>4 DEF CloseCovers
<1>9. ASSUME NEW e \in Deletes \ {d} PROVE CloseCovers(e)'
  <2>1. deletes[e].st \notin {"closed", "recording", "sent"} BY <1>1 DEF ExpressInv, CloseCovers
  <2> QED BY <1>1, <1>3, <1>4, <2>1 DEF ExpressInv, CloseCovers
<1>10. SettlementCoversServed' BY <1>1, <1>4 DEF SettlementCoversServed
<1>11. \A p \in posts : p.kind \notin {"settled", "vault"} BY <1>1 DEF ExpressInv, ReportsSettled
<1>12. ReportsSettled' BY <1>1, <1>11 DEF ReportsSettled
<1>13. ReportsMatchChain' BY <1>1, <1>11 DEF ExpressInv, ReportsMatchChain
<1> QED BY <1>6, <1>7, <1>8, <1>9, <1>10, <1>12, <1>13 DEF ExpressInv

\* A close that fails leaves everything as it is.
LEMMA ChainFailsInv == ASSUME ExpressInv, NEW d \in Deletes, ChainFails(d) PROVE ExpressInv'
<1>1. /\ deletes' = [deletes EXCEPT ![d].st = "answered"]
      /\ UNCHANGED <<record, voucherCount, sessionOpened, commits, settled, posts, served, promised>>
  BY DEF ChainFails, memory
<1>2. deletes' \in [Deletes -> DeleteType] /\ (\A e \in Deletes : CloseCovers(e)') /\ SettlementCoversServed'
  BY <1>1, DeleteMovesOn
<1>3. MemoryTypeOK' /\ ChainTypeOK' BY <1>1, <1>2 DEF ExpressInv, MemoryTypeOK, ChainTypeOK
<1>4. RecordCounts' /\ RecordCoversServed' /\ ReportsSettled' /\ ReportsMatchChain'
  BY <1>1 DEF ExpressInv, RecordCounts, RecordCoversServed, ReportsSettled, ReportsMatchChain
<1> QED BY <1>2, <1>3, <1>4 DEF ExpressInv

\* More is reported of the settlement that the contract made.
LEMMA ReportKeeps ==
  ASSUME ExpressInv, UNCHANGED <<settled, promised>>, deletes' \in [Deletes -> DeleteType],
         NEW told \in SUBSET PostType, posts' = posts \cup told,
         \A p \in told : /\ p.kind \in {"settled", "vault"} /\ p.amount = settled
                         /\ p.count <= p.amount /\ settled # 0
  PROVE  ChainTypeOK' /\ ReportsSettled' /\ ReportsMatchChain'
<1>1. ChainTypeOK' BY DEF ExpressInv, ChainTypeOK
<1>2. ReportsSettled' BY DEF ExpressInv, ReportsSettled
<1>3. ReportsMatchChain'
  <2>1. ASSUME NEW p \in posts'
        PROVE  /\ p.kind \in {"settled", "vault"} => p.amount = settled
               /\ p.count <= p.amount
               /\ p.kind = "orphan" => Post("voucher", p.amount, p.count) \in posts'
    <3>1. CASE p \in posts BY <3>1 DEF ExpressInv, ReportsMatchChain
    <3>2. CASE p \in told
      <4>1. p.kind \in {"settled", "vault"} /\ p.amount = settled /\ p.count <= p.amount BY <3>2
      <4>2. p.kind # "orphan" BY <4>1
      <4> QED BY <4>1, <4>2
    <3> QED BY <2>1, <3>1, <3>2
  <2> QED BY <2>1 DEF ReportsMatchChain
<1> QED BY <1>1, <1>2, <1>3

\* The answer to a DELETE: onSettled hears of the close, and a vault record is
\* awaited, or the session is given up.
LEMMA FinishCloseInv == ASSUME ExpressInv, NEW d \in Deletes, FinishClose(d) PROVE ExpressInv'
<1> DEFINE st == IF Recorded(d) THEN "recording" ELSE "answered"
           report == Post("settled", deletes[d].close.amount, 0)
<1>1. /\ deletes[d].st = "closed" /\ posts' = posts \cup {report}
      /\ deletes' = [deletes EXCEPT ![d].st = st]
      /\ Reset \/ UNCHANGED <<record, voucherCount, sessionOpened>>
      /\ UNCHANGED <<settled, commits, served, promised>>
  BY DEF FinishClose
<1>2. st \in {"recording", "answered"} OBVIOUS
<1>3. settled = deletes[d].close.amount /\ settled # 0 BY <1>1 DEF ExpressInv, CloseCovers
<1>4. settled \in Amounts /\ 0 \in Amounts /\ settled \in Nat
  BY ExpressAssumption DEF ExpressInv, ChainTypeOK, Amounts
<1>5. report \in PostType /\ report.kind = "settled" /\ report.amount = settled /\ report.count = 0
  BY <1>3, <1>4, PostIs
<1> HIDE DEF st, report
<1>6. deletes' \in [Deletes -> DeleteType] /\ (\A e \in Deletes : CloseCovers(e)') /\ SettlementCoversServed'
  BY <1>1, <1>2, DeleteMovesOn
<1>7. MemoryTypeOK' /\ RecordCounts' /\ RecordCoversServed'
  <2>1. CASE Reset BY <1>1, <1>3, <2>1, ResetKeeps
  <2>2. CASE UNCHANGED <<record, voucherCount, sessionOpened>>
    BY <1>1, <2>2 DEF ExpressInv, MemoryTypeOK, RecordCounts, RecordCoversServed
  <2> QED BY <1>1, <2>1, <2>2
<1>8. ChainTypeOK' /\ ReportsSettled' /\ ReportsMatchChain'
  <2>1. {report} \in SUBSET PostType BY <1>5
  <2>2. \A p \in {report} : p.kind \in {"settled", "vault"} /\ p.amount = settled /\ p.count <= p.amount /\ settled # 0
    BY <1>3, <1>4, <1>5
  <2> QED BY <1>1, <1>6, <2>1, <2>2, ReportKeeps
<1> QED BY <1>6, <1>7, <1>8 DEF ExpressInv

\* The transaction is sent.
LEMMA VaultSentInv == ASSUME ExpressInv, NEW d \in Deletes, VaultSent(d) PROVE ExpressInv'
<1>1. /\ deletes[d].st = "recording" /\ deletes' = [deletes EXCEPT ![d].st = "sent"]
      /\ UNCHANGED <<record, voucherCount, sessionOpened, commits, settled, posts, served, promised>>
  BY DEF VaultSent, memory
<1>2. deletes' \in [Deletes -> DeleteType] /\ (\A e \in Deletes : CloseCovers(e)') /\ SettlementCoversServed'
  BY <1>1, DeleteMovesOn
<1>3. MemoryTypeOK' /\ ChainTypeOK' BY <1>1, <1>2 DEF ExpressInv, MemoryTypeOK, ChainTypeOK
<1>4. RecordCounts' /\ RecordCoversServed' /\ ReportsSettled' /\ ReportsMatchChain'
  BY <1>1 DEF ExpressInv, RecordCounts, RecordCoversServed, ReportsSettled, ReportsMatchChain
<1> QED BY <1>2, <1>3, <1>4 DEF ExpressInv

\* What a transaction on its way may tell the vault is the settlement, for no more
\* vouchers than it pays.
LEMMA ToldIsSettled ==
  ASSUME ExpressInv, NEW ds \in SUBSET Deletes, \A d \in ds : deletes[d].st = "sent", NEW told \in MayTell(ds)
  PROVE  /\ told \in SUBSET PostType
         /\ \A p \in told : /\ p.kind \in {"settled", "vault"} /\ p.amount = settled
                            /\ p.count <= p.amount /\ settled # 0
<1>1. PICK some \in SUBSET ds : told = {VaultSettlement(d) : d \in some} BY DEF MayTell
<1>2. ASSUME NEW d \in some
      PROVE  /\ VaultSettlement(d) \in PostType /\ VaultSettlement(d).kind = "vault"
             /\ VaultSettlement(d).amount = settled /\ settled # 0
             /\ VaultSettlement(d).count <= VaultSettlement(d).amount
  <2>1. settled = deletes[d].close.amount /\ settled # 0 /\ deletes[d].close.count <= deletes[d].close.amount
    BY <1>1, <1>2 DEF ExpressInv, CloseCovers
  <2>2. deletes[d].close.amount \in Amounts /\ deletes[d].close.count \in Amounts
    BY <1>1, <1>2 DEF ExpressInv, ChainTypeOK, DeleteType, Closes
  <2> QED BY <2>1, <2>2, PostIs DEF VaultSettlement
<1> QED BY <1>1, <1>2

\* The record is confirmed or has failed: the session is given up either way.
LEMMA VaultOverInv ==
  ASSUME ExpressInv, NEW d \in Deletes, deletes[d].st \in {"recording", "sent"}, VaultOver(d),
         NEW ds \in SUBSET Deletes, \A x \in ds : deletes[x].st = "sent", NEW told \in MayTell(ds),
         posts' = posts \cup told
  PROVE  ExpressInv'
<1>1. /\ deletes' = [deletes EXCEPT ![d].st = "answered"] /\ Reset
      /\ UNCHANGED <<settled, commits, served, promised>>
  BY DEF VaultOver
<1>2. settled # 0 BY DEF ExpressInv, CloseCovers
<1>3. deletes' \in [Deletes -> DeleteType] /\ (\A e \in Deletes : CloseCovers(e)') /\ SettlementCoversServed'
  BY <1>1, DeleteMovesOn
<1>4. MemoryTypeOK' /\ RecordCounts' /\ RecordCoversServed' BY <1>1, <1>2, ResetKeeps
<1>5. /\ told \in SUBSET PostType
      /\ \A p \in told : /\ p.kind \in {"settled", "vault"} /\ p.amount = settled
                         /\ p.count <= p.amount /\ settled # 0
  BY ToldIsSettled
<1>6. ChainTypeOK' /\ ReportsSettled' /\ ReportsMatchChain' BY <1>1, <1>3, <1>5, ReportKeeps
<1> QED BY <1>3, <1>4, <1>6 DEF ExpressInv

\* The vault hears of the settlement.
LEMMA VaultConfirmedInv == ASSUME ExpressInv, NEW d \in Deletes, VaultConfirmed(d) PROVE ExpressInv'
<1>1. deletes[d].st = "sent" /\ posts' = posts \cup {VaultSettlement(d)} /\ VaultOver(d) BY DEF VaultConfirmed
<1>2. {VaultSettlement(x) : x \in {d}} \in MayTell({d}) BY DEF MayTell
<1>3. {VaultSettlement(x) : x \in {d}} = {VaultSettlement(d)} OBVIOUS
<1>4. {d} \in SUBSET Deletes /\ \A x \in {d} : deletes[x].st = "sent" BY <1>1
<1> HIDE DEF VaultSettlement
<1> QED BY <1>1, <1>2, <1>3, <1>4, VaultOverInv

\* The vault may have heard of it, or not.
LEMMA VaultFailsInv == ASSUME ExpressInv, NEW d \in Deletes, VaultFails(d) PROVE ExpressInv'
<1> DEFINE sent == {d} \cap {x \in Deletes : deletes[x].st = "sent"}
<1>1. deletes[d].st \in {"recording", "sent"} /\ VaultOver(d) BY DEF VaultFails
<1>2. PICK told \in MayTell(sent) : posts' = posts \cup told BY DEF VaultFails
<1>3. sent \in SUBSET Deletes /\ \A x \in sent : deletes[x].st = "sent" OBVIOUS
<1> HIDE DEF sent
<1> QED BY <1>1, <1>2, <1>3, VaultOverInv

\* A restart forgets what was served and what was recorded, and not what was closed.
LEMMA RestartInv == ASSUME ExpressInv, Restart PROVE ExpressInv'
<1> DEFINE sent == {d \in Deletes : deletes[d].st = "sent"}
<1>1. /\ record' = 0 /\ voucherCount' = 0 /\ sessionOpened' = FALSE /\ served' = {}
      /\ commits' = [v \in Vouchers |-> "unsent"] /\ UNCHANGED <<settled, promised>>
  BY DEF Restart, Reset
<1>2. deletes' = [d \in Deletes |->
        IF deletes[d].st = "closing" THEN [deletes[d] EXCEPT !.st = "abandoned"]
        ELSE IF deletes[d].st \in {"unsent", "abandoned"} THEN deletes[d]
        ELSE [deletes[d] EXCEPT !.st = "answered"]]
  BY DEF Restart
<1>3. PICK told \in MayTell(sent) : posts' = posts \cup told BY DEF Restart
<1>4. sent \in SUBSET Deletes /\ \A x \in sent : deletes[x].st = "sent" OBVIOUS
<1> HIDE DEF sent
<1>5. ASSUME NEW x \in DeleteType, NEW st \in {"abandoned", "answered"}
      PROVE  /\ [x EXCEPT !.st = st] \in DeleteType /\ [x EXCEPT !.st = st].st = st
             /\ [x EXCEPT !.st = st].close = x.close /\ [x EXCEPT !.st = st].seen = x.seen
  BY DEF DeleteType
<1>6. ASSUME NEW d \in Deletes PROVE deletes'[d] \in DeleteType /\ CloseCovers(d)'
  <2>1. deletes[d] \in DeleteType BY DEF ExpressInv, ChainTypeOK
  <2>2. CASE deletes[d].st = "closing"
    <3>1. deletes'[d] = [deletes[d] EXCEPT !.st = "abandoned"] BY <1>2, <2>2
    <3>2. /\ deletes'[d] \in DeleteType /\ deletes'[d].st = "abandoned"
          /\ deletes'[d].close = deletes[d].close /\ deletes'[d].seen = deletes[d].seen
      BY <1>5, <2>1, <3>1
    <3> QED BY <1>1, <2>2, <3>2 DEF ExpressInv, CloseCovers
  <2>3. CASE deletes[d].st \in {"unsent", "abandoned"}
    <3>1. deletes'[d] = deletes[d] BY <1>2, <2>3
    <3> QED BY <1>1, <2>1, <3>1 DEF ExpressInv, CloseCovers
  <2>4. CASE deletes[d].st \notin {"closing", "unsent", "abandoned"}
    <3>1. deletes'[d] = [deletes[d] EXCEPT !.st = "answered"] BY <1>2, <2>4
    <3>2. deletes'[d] \in DeleteType /\ deletes'[d].st = "answered" BY <1>5, <2>1, <3>1
    <3> QED BY <3>2 DEF CloseCovers
  <2> QED BY <2>2, <2>3, <2>4
<1>7. deletes' \in [Deletes -> DeleteType] BY <1>2, <1>6
<1>8. 0 \in Amounts BY ExpressAssumption DEF Amounts
<1>9. MemoryTypeOK' BY <1>1, <1>8 DEF MemoryTypeOK
<1>10. RecordCounts' /\ RecordCoversServed' BY <1>1 DEF RecordCounts, RecordCoversServed
<1>11. /\ told \in SUBSET PostType
       /\ \A p \in told : /\ p.kind \in {"settled", "vault"} /\ p.amount = settled
                          /\ p.count <= p.amount /\ settled # 0
  BY <1>3, <1>4, ToldIsSettled
<1>12. ChainTypeOK' /\ ReportsSettled' /\ ReportsMatchChain' BY <1>1, <1>3, <1>7, <1>11, ReportKeeps
<1>13. SettlementCoversServed' BY <1>1 DEF ExpressInv, SettlementCoversServed
<1> QED BY <1>6, <1>9, <1>10, <1>12, <1>13 DEF ExpressInv

\* The handler's invariant holds after every step.
LEMMA ExpressStepInv == ExpressInv /\ [Next]_vars => ExpressInv'
<1> SUFFICES ASSUME ExpressInv, [Next]_vars PROVE ExpressInv' OBVIOUS
<1>1. CASE \E v \in Vouchers : Verify(v) \/ Commit(v) BY <1>1, VerifyInv, CommitInv
<1>2. CASE \E r \in Reasons : Orphan(r) BY <1>2, OrphanInv
<1>3. ASSUME NEW d \in Deletes, (\E body \in Bodies : ReceiveDelete(d, body)) \/ DeleteStep(d) PROVE ExpressInv'
  BY <1>3, ReceiveInv, ChainClosesInv, ChainFailsInv, FinishCloseInv, VaultSentInv, VaultConfirmedInv, VaultFailsInv
     DEF DeleteStep
<1>4. CASE Restart BY <1>4, RestartInv
<1>5. CASE UNCHANGED vars
  <2>1. UNCHANGED <<record, voucherCount, sessionOpened, settled, commits, deletes, posts, served, promised>>
    BY <1>5 DEF vars, memory
  <2> QED BY <2>1 DEF ExpressInv, MemoryTypeOK, ChainTypeOK, RecordCounts, RecordCoversServed, CloseCovers,
             ReportsSettled, SettlementCoversServed, ReportsMatchChain
<1> QED BY <1>1, <1>2, <1>3, <1>4, <1>5 DEF Next

\* The handler's invariant holds at all times.
LEMMA ExpressAlways == Spec => []ExpressInv
BY ExpressInitInv, ExpressStepInv, PTL DEF Spec

\* However closes fail, overlap or outlive a restart, and in whatever order vouchers
\* are committed: what this process let through before a DELETE arrived is paid by
\* the close that this DELETE makes.
THEOREM CloseCoversServed == Spec => []SettlementCoversServed
<1>1. ExpressInv => SettlementCoversServed BY DEF ExpressInv
<1> QED BY <1>1, ExpressAlways, PTL

\* onSettled and the vault are told of the settlement the contract made and of no
\* other, with no more vouchers than it pays for; an orphan is reported with an amount
\* that was served.
THEOREM ReportsAreTrue == Spec => []ReportsMatchChain
<1>1. ExpressInv => ReportsMatchChain BY DEF ExpressInv
<1> QED BY <1>1, ExpressAlways, PTL

----------------------------------------------------------------------------
\* The channel as Channel promises it: what was verified and what was asked.
VerifiedVouchers == {v \in Vouchers : commits[v] # "unsent"}
Asks == [d \in Deletes |-> AskOf(deletes[d])]
Over == [st |-> "over", covers |-> {}]

\* mppx's entry is no lower than what it verified since the process started.
EntryCovers ==
  cumulative \in Amounts /\ \A v \in Vouchers : commits[v] # "unsent" => v <= cumulative

\* A verification raises the entry, and a restart clears it with the vouchers.
LEMMA EntryStep == ExpressInv /\ EntryCovers /\ [Next]_vars => EntryCovers'
<1> SUFFICES ASSUME ExpressInv, EntryCovers, [Next]_vars PROVE EntryCovers' OBVIOUS
<1>1. /\ commits \in [Vouchers -> {"unsent", "verified", "done"}]
      /\ Vouchers \subseteq Nat /\ Vouchers \subseteq Amounts /\ Amounts \subseteq Nat /\ 0 \in Amounts
  BY ExpressAssumption DEF ExpressInv, MemoryTypeOK, Vouchers, Amounts
<1>2. UNCHANGED <<commits, cumulative>> => EntryCovers' BY DEF EntryCovers
<1>3. ASSUME NEW v \in Vouchers, Verify(v) PROVE EntryCovers'
  <2>1. v > cumulative /\ cumulative' = v /\ commits' = [commits EXCEPT ![v] = "verified"]
    BY <1>3 DEF Verify
  <2>2. v \in Nat /\ cumulative \in Nat BY <1>1 DEF EntryCovers
  <2>3. \A w \in Vouchers : commits'[w] # "unsent" => w = v \/ commits[w] # "unsent" BY <1>1, <2>1
  <2>4. \A w \in Vouchers : w \in Nat BY <1>1
  <2>5. \A w \in Vouchers : w <= cumulative => w <= v BY <2>1, <2>2, <2>4
  <2> QED BY <1>1, <2>1, <2>2, <2>3, <2>5 DEF EntryCovers
<1>4. ASSUME NEW v \in Vouchers, Commit(v) PROVE EntryCovers'
  <2>1. commits[v] # "unsent" /\ commits' = [commits EXCEPT ![v] = "done"] /\ cumulative' = cumulative
    BY <1>4 DEF Commit
  <2> QED BY <1>1, <2>1 DEF EntryCovers
<1>5. ASSUME NEW r \in Reasons, Orphan(r) PROVE EntryCovers' BY <1>2, <1>5 DEF Orphan
<1>6. ASSUME NEW d \in Deletes, (\E body \in Bodies : ReceiveDelete(d, body)) \/ DeleteStep(d) PROVE EntryCovers'
  BY <1>2, <1>6 DEF ReceiveDelete, DeleteStep, ChainCloses, ChainFails, FinishClose, VaultSent,
                    VaultConfirmed, VaultFails, VaultOver
<1>7. CASE Restart BY <1>1, <1>7 DEF Restart, EntryCovers
<1>8. CASE UNCHANGED vars BY <1>2, <1>8 DEF vars
<1> QED BY <1>3, <1>4, <1>5, <1>6, <1>7, <1>8 DEF Next

\* A step after which some DELETEs are over, and nothing else has changed.
LEMMA GivesUp ==
  ASSUME UNCHANGED <<VerifiedVouchers, served, settled>>,
         \A d \in Deletes : AskOf(deletes'[d]) \in {AskOf(deletes[d]), Over}
  PROVE  Promise!Next
<1> DEFINE ended == {d \in Deletes : AskOf(deletes[d]).st # "over" /\ AskOf(deletes'[d]) = Over}
<1>1. \A d \in Deletes : AskOf(deletes[d]).st = "over" => AskOf(deletes[d]) = Over
  BY DEF AskOf, Over
<1>2. \A d \in Deletes : AskOf(deletes'[d]) = IF d \in ended THEN Over ELSE AskOf(deletes[d])
  BY <1>1
<1>3. \A d \in ended : Asks[d].st # "over" BY DEF Asks
<1>4. Asks' = [d \in Deletes |-> IF d \in ended THEN Over ELSE Asks[d]] BY <1>2 DEF Asks
<1>5. ended \in SUBSET Deletes OBVIOUS
<1> HIDE DEF ended
<1>6. Promise!GiveUp(ended) BY <1>3, <1>4 DEF Promise!GiveUp, Promise!Ask, Asks, Over, VerifiedVouchers
<1> QED BY <1>5, <1>6 DEF Promise!Next

\* Moving one DELETE moves what it asks for, and no other.
LEMMA AskMoves ==
  ASSUME ChainTypeOK, NEW d \in Deletes, NEW call, deletes'[d] = call,
         \A e \in Deletes \ {d} : deletes'[e] = deletes[e]
  PROVE  Asks' = [Asks EXCEPT ![d] = AskOf(call)]
<1>1. Asks' = [e \in Deletes |-> IF e = d THEN AskOf(call) ELSE Asks[e]] BY DEF Asks
<1>2. [Asks EXCEPT ![d] = AskOf(call)] = [e \in Deletes |-> IF e = d THEN AskOf(call) ELSE Asks[e]]
  BY DEF Asks
<1> QED BY <1>1, <1>2

\* Vouchers are steps of the channel when they are verified and when served.
LEMMA VouchersAreChannelSteps ==
  ASSUME ExpressInv, EntryCovers, NEW v \in Vouchers, Verify(v) \/ Commit(v)
  PROVE  Promise!Next
<1>1. commits \in [Vouchers -> {"unsent", "verified", "done"}] /\ Vouchers \subseteq Nat /\ cumulative \in Nat
  BY ExpressAssumption DEF ExpressInv, MemoryTypeOK, EntryCovers, Vouchers, Amounts
<1>2. UNCHANGED <<deletes, settled>> BY DEF Verify, Commit
<1>3. Asks' = Asks BY <1>2 DEF Asks
<1>4. CASE Verify(v)
  <2>1. settled = 0 /\ v > cumulative /\ served' = served /\ commits' = [commits EXCEPT ![v] = "verified"]
    BY <1>4 DEF Verify
  <2>2. VerifiedVouchers' = VerifiedVouchers \cup {v} BY <1>1, <2>1 DEF VerifiedVouchers
  <2>3. \A w \in VerifiedVouchers : w \in Nat /\ w <= cumulative
    BY <1>1 DEF EntryCovers, VerifiedVouchers
  <2>4. v \in Nat BY <1>1
  <2>5. \A w \in VerifiedVouchers : w < v BY <1>1, <2>1, <2>3, <2>4
  <2>6. Promise!Verify(v) BY <1>2, <1>3, <2>1, <2>2, <2>5 DEF Promise!Verify, VerifiedVouchers, Asks
  <2> QED BY <2>6 DEF Promise!Next
<1>5. CASE Commit(v)
  <2>1. commits[v] = "verified" /\ commits' = [commits EXCEPT ![v] = "done"] /\ served' = served \cup {v}
    BY <1>5 DEF Commit
  <2>2. VerifiedVouchers' = VerifiedVouchers /\ v \in VerifiedVouchers
    BY <1>1, <2>1 DEF VerifiedVouchers
  <2>3. Promise!Serve(v) BY <1>2, <1>3, <2>1, <2>2 DEF Promise!Serve, VerifiedVouchers, Asks
  <2> QED BY <2>3 DEF Promise!Next
<1> QED BY <1>4, <1>5

\* A DELETE is a step of the channel when it arrives, when it closes and when it
\* is over without.
LEMMA DeletesAreChannelSteps ==
  ASSUME ExpressInv, NEW d \in Deletes,
         (\E body \in Bodies : ReceiveDelete(d, body)) \/ DeleteStep(d)
  PROVE  Promise!Next
<1>1. ChainTypeOK /\ \A e \in Deletes : CloseCovers(e) BY DEF ExpressInv
<1>2. UNCHANGED <<VerifiedVouchers, served>>
  BY DEF ReceiveDelete, DeleteStep, ChainCloses, ChainFails, FinishClose, VaultSent, VaultConfirmed,
         VaultFails, VaultOver, VerifiedVouchers
<1>3. ASSUME NEW st \in {"closed", "recording", "sent", "answered"}, UNCHANGED settled,
             deletes' = [deletes EXCEPT ![d].st = st]
      PROVE  Promise!Next
  <2>1. deletes'[d].st = st /\ \A e \in Deletes \ {d} : deletes'[e] = deletes[e] BY <1>1, <1>3, DeleteGoesOn
  <2>2. AskOf(deletes'[d]) = Over BY <2>1 DEF AskOf, Over
  <2> QED BY <1>2, <1>3, <2>1, <2>2, GivesUp
<1>4. ASSUME NEW body \in Bodies, ReceiveDelete(d, body) PROVE Promise!Next
  <2>1. deletes[d].st = "unsent" /\ UNCHANGED settled BY <1>4 DEF ReceiveDelete
  <2>2. CASE deletes' = [deletes EXCEPT ![d] = Delete("closing", CloseFor(body), served)]
    <3>1. /\ deletes'[d] = Delete("closing", CloseFor(body), served)
          /\ \A e \in Deletes \ {d} : deletes'[e] = deletes[e]
      BY <1>1, <2>2 DEF ChainTypeOK
    <3>2. AskOf(deletes'[d]) = [st |-> "open", covers |-> served] BY <3>1 DEF AskOf, Delete
    <3>3. Asks' = [Asks EXCEPT ![d] = AskOf(deletes'[d])] BY <1>1, <3>1, AskMoves
    <3>4. Asks[d].st = "not yet" BY <2>1 DEF Asks, AskOf
    <3>5. Promise!AskToClose(d)
      BY <1>2, <2>1, <3>2, <3>3, <3>4 DEF Promise!AskToClose, Promise!Ask, Asks, VerifiedVouchers
    <3> QED BY <3>5 DEF Promise!Next
  <2>3. CASE deletes' = [deletes EXCEPT ![d] = Delete("answered", NoClose, {})]
    <3>1. /\ deletes'[d] = Delete("answered", NoClose, {})
          /\ \A e \in Deletes \ {d} : deletes'[e] = deletes[e]
      BY <1>1, <2>3 DEF ChainTypeOK
    <3>2. AskOf(deletes'[d]) = Over BY <3>1 DEF AskOf, Delete, Over
    <3> QED BY <1>2, <2>1, <3>1, <3>2, GivesUp
  <2> QED BY <1>4, <2>2, <2>3 DEF ReceiveDelete
<1>5. CASE ChainCloses(d)
  <2>1. /\ deletes[d].st \in {"closing", "abandoned"} /\ settled = 0
        /\ settled' = deletes[d].close.amount
    BY <1>5 DEF ChainCloses
  <2>2. PICK st \in {"closed", "answered"} : deletes' = [deletes EXCEPT ![d].st = st]
    BY <1>5 DEF ChainCloses
  <2>3. deletes'[d].st = st /\ \A e \in Deletes \ {d} : deletes'[e] = deletes[e] BY <1>1, <2>2, DeleteGoesOn
  <2>4. AskOf(deletes'[d]) = Over BY <2>3 DEF AskOf, Over
  <2>5. Asks' = [Asks EXCEPT ![d] = Over] BY <1>1, <2>3, <2>4, AskMoves
  <2>6. Asks[d] = [st |-> "open", covers |-> deletes[d].seen] BY <2>1 DEF Asks, AskOf
  <2>7. \A v \in deletes[d].seen : v <= deletes[d].close.amount BY <1>1, <2>1 DEF CloseCovers
  <2>8. deletes[d].close.amount \in Vouchers
    <3>1. deletes[d].close.amount \in Amounts /\ deletes[d].close.amount # 0
      BY <1>1, <2>1 DEF ChainTypeOK, DeleteType, Closes, CloseCovers
    <3> QED BY <3>1, ExpressAssumption DEF Amounts, Vouchers
  <2>9. Promise!Close(d, deletes[d].close.amount)
    BY <1>2, <2>1, <2>5, <2>6, <2>7 DEF Promise!Close, Promise!Ask, Asks, Over, VerifiedVouchers
  <2> QED BY <2>8, <2>9 DEF Promise!Next
<1>6. CASE ChainFails(d) BY <1>3, <1>6 DEF ChainFails
<1>7. CASE FinishClose(d) BY <1>3, <1>7 DEF FinishClose
<1>8. CASE VaultSent(d) BY <1>3, <1>8 DEF VaultSent
<1>9. CASE VaultConfirmed(d) BY <1>3, <1>9 DEF VaultConfirmed, VaultOver
<1>10. CASE VaultFails(d) BY <1>3, <1>10 DEF VaultFails, VaultOver
<1> QED BY <1>4, <1>5, <1>6, <1>7, <1>8, <1>9, <1>10 DEF DeleteStep

\* A restart forgets, and leaves open what may still close.
LEMMA RestartForgets ==
  ASSUME ExpressInv, Restart
  PROVE  Promise!Forget
<1>1. served' = {} /\ UNCHANGED settled /\ commits' = [v \in Vouchers |-> "unsent"] BY DEF Restart
<1>2. VerifiedVouchers' = {} BY <1>1 DEF VerifiedVouchers
<1>3. ASSUME NEW d \in Deletes PROVE AskOf(deletes'[d]) = AskOf(deletes[d])
  <2>1. deletes[d] \in DeleteType BY DEF ExpressInv, ChainTypeOK
  <2>2. \A st \in {"abandoned", "answered"} :
          [deletes[d] EXCEPT !.st = st].st = st /\ [deletes[d] EXCEPT !.st = st].seen = deletes[d].seen
    BY <2>1 DEF DeleteType
  <2>3. CASE deletes[d].st = "closing"
    <3>1. deletes'[d] = [deletes[d] EXCEPT !.st = "abandoned"] BY <2>3 DEF Restart
    <3> QED BY <2>2, <2>3, <3>1 DEF AskOf
  <2>4. CASE deletes[d].st \in {"unsent", "abandoned"}
    <3>1. deletes'[d] = deletes[d] BY <2>4 DEF Restart
    <3> QED BY <3>1
  <2>5. CASE deletes[d].st \notin {"closing", "unsent", "abandoned"}
    <3>1. deletes'[d] = [deletes[d] EXCEPT !.st = "answered"] BY <2>5 DEF Restart
    <3> QED BY <2>2, <2>5, <3>1 DEF AskOf
  <2> QED BY <2>3, <2>4, <2>5
<1>4. Asks' = Asks BY <1>3 DEF Asks
<1> QED BY <1>1, <1>2, <1>4 DEF Promise!Forget, VerifiedVouchers, Asks

\* The handler of Express and Fastify implements the channel of a provider whose
\* restarts forget: it closes once, for what it had served, since it started, when the
\* DELETE arrived.
THEOREM ExpressKeepsPromise == Spec => ImplementsForgetful
<1>1. Init => EntryCovers BY ExpressAssumption DEF Init, EntryCovers, Amounts
<1>2. Init => Promise!Init
  <2> SUFFICES ASSUME Init PROVE Promise!Init OBVIOUS
  <2>1. \A d \in Deletes : AskOf(deletes[d]) = [st |-> "not yet", covers |-> {}]
    BY DEF Init, AskOf, Delete
  <2>2. VerifiedVouchers = {} BY DEF Init, VerifiedVouchers
  <2> QED BY <2>1, <2>2 DEF Init, Promise!Init, Promise!Ask, VerifiedVouchers
<1>3. ExpressInv /\ EntryCovers /\ [Next]_vars => [Promise!Next \/ Promise!Forget]_(Promise!channel)
  <2> SUFFICES ASSUME ExpressInv, EntryCovers, [Next]_vars
               PROVE  (Promise!Next \/ Promise!Forget) \/ UNCHANGED Promise!channel
    OBVIOUS
  <2>1. UNCHANGED <<commits, deletes, served, settled>> => UNCHANGED Promise!channel BY DEF Promise!channel
  <2>2. CASE UNCHANGED vars BY <2>1, <2>2 DEF vars
  <2>3. ASSUME NEW r \in Reasons, Orphan(r) PROVE UNCHANGED Promise!channel BY <2>1, <2>3 DEF Orphan
  <2> QED BY <2>2, <2>3, VouchersAreChannelSteps, DeletesAreChannelSteps, RestartForgets DEF Next
<1> QED BY <1>1, <1>2, <1>3, ExpressAlways, EntryStep, PTL DEF Spec, ImplementsForgetful, Promise!ForgetfulSpec
=============================================================================
