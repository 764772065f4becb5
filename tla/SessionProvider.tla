-------------------------- MODULE SessionProvider --------------------------
(***************************************************************************)
(* The provider's side of one payment channel: the state shared by the     *)
(* mpp-session handlers of provider/hono.ts (createMppSessionHandlerState) *)
(* over its store, with mppx's voucher verification and the channel        *)
(* contract as the environment.                                            *)
(*                                                                         *)
(* An action is the code between two awaits.  Store operations take effect *)
(* and answer at any time and in any order; voucher v is the voucher whose *)
(* cumulative amount is v times the rate.  A signature is the amount it    *)
(* signs, 0 when there is none, so the record is one number, 0 for null.   *)
(***************************************************************************)
EXTENDS Integers, FiniteSets

CONSTANTS
  MaxVouchers,     \* bound: vouchers the payer signs
  Deletes,         \* DELETE requests
  Bodies,          \* their bodies: the payer signs what it likes
  IdleTimeout,     \* whether idleTimeoutMs is set
  StoreFailures,   \* which operations of the store may fail: "read", "write"
  MaxEvictions     \* bound: evictions of the handler's instance

Vouchers == 1..MaxVouchers
Amounts  == 0..MaxVouchers
Reasons  == {"connection-closed", "idle-timeout"}

\* A close names an amount and a signature.
Closes == [amount : Amounts, sig : Amounts]

ASSUME ProviderAssumption ==
  /\ MaxVouchers \in Nat
  /\ Bodies \subseteq Closes
  /\ IdleTimeout \in BOOLEAN /\ StoreFailures \subseteq {"read", "write"}
  /\ MaxEvictions \in Nat

VARIABLES
  record,          \* in memory: the last verified voucher, 0 for null
  opened,          \* sessionOpened
  orphanFlagged, settledCleanly,
  idle,            \* the idle timer is running
  armed,           \* abortListenerArmed
  listeners,       \* abort listeners on request signals
  persisted,       \* store: the entry under voucherRecordKey, 0 for none
  cumulative,      \* store: mppx's cumulative entry for the channel
  settled,         \* the channel contract: the amount it was closed for, 0 if open
  commits,         \* the commit() calls, one per voucher
  deletes,         \* the handleDelete() calls
  orphans,         \* the flagOrphan() calls, one per reason
  posts,           \* what the handler's callbacks were called with
  evictions,
  served,          \* vouchers whose request was let through
  promised         \* the vouchers served before the DELETE that settled arrived

memory   == <<record, opened, orphanFlagged, settledCleanly, idle, armed, listeners>>
store    == <<persisted, cumulative>>
calls    == <<commits, deletes, orphans>>
observed == <<served, promised>>
vars == <<memory, store, settled, calls, posts, evictions, observed>>

Post(kind, amount, sig) == [kind |-> kind, amount |-> amount, sig |-> sig]

Commit(st, val, opens) == [st |-> st, val |-> val, opens |-> opens]
Delete(st, body, val, seen) == [st |-> st, body |-> body, val |-> val, seen |-> seen]
NoBody == [amount |-> 0, sig |-> 0]

FreshMemory ==
  /\ record' = 0 /\ opened' = FALSE
  /\ orphanFlagged' = FALSE /\ settledCleanly' = FALSE
  /\ idle' = FALSE /\ armed' = FALSE /\ listeners' = 0

Init ==
  /\ record = 0 /\ opened = FALSE
  /\ orphanFlagged = FALSE /\ settledCleanly = FALSE
  /\ idle = FALSE /\ armed = FALSE /\ listeners = 0
  /\ persisted = 0 /\ cumulative = 0 /\ settled = 0
  /\ commits = [v \in Vouchers |-> Commit("unsent", 0, FALSE)]
  /\ deletes = [d \in Deletes |-> Delete("unsent", NoBody, 0, {})]
  /\ orphans = [r \in Reasons |-> [st |-> "off", val |-> 0]]
  /\ posts = {} /\ evictions = 0 /\ served = {} /\ promised = {}

----------------------------------------------------------------------------
\* loadPersistedRecord(), the first await of every entry point: a record in
\* memory ends it ("have"), else the store is read ("get", then "got").

LoadState == IF record # 0 THEN "have" ELSE "get"
Loaded(call) == call.st \in {"have", "got"}

\* What the store answers; an unreadable entry counts as none.
Answers(entry) == {entry} \cup (IF "read" \in StoreFailures THEN {0} ELSE {})

\* The continuation assigns what was read, whatever the record is by now.
RecordAfter(call) == IF call.st = "got" /\ call.val # 0 THEN call.val ELSE record
OpenedAfter(call) == opened \/ (call.st = "got" /\ call.val # 0)

StoreAnswersCommit(v) ==
  /\ commits[v].st = "get"
  /\ \E a \in Answers(persisted) : commits' = [commits EXCEPT ![v] = Commit("got", a, FALSE)]
  /\ UNCHANGED <<memory, store, settled, deletes, orphans, posts, evictions, observed>>

StoreAnswersDelete(d) ==
  /\ deletes[d].st = "get"
  /\ \E a \in Answers(persisted) :
       deletes' = [deletes EXCEPT ![d] = Delete("got", @.body, a, @.seen)]
  /\ UNCHANGED <<memory, store, settled, commits, orphans, posts, evictions, observed>>

StoreAnswersOrphan(r) ==
  /\ orphans[r].st = "get"
  /\ \E a \in Answers(persisted) : orphans' = [orphans EXCEPT ![r] = [st |-> "got", val |-> a]]
  /\ UNCHANGED <<memory, store, settled, commits, deletes, posts, evictions, observed>>

----------------------------------------------------------------------------
\* A voucher request

\* mppx verifies a voucher above its cumulative entry and advances it.
Verify(v) ==
  /\ commits[v].st = "unsent"
  /\ settled = 0
  /\ v > cumulative
  /\ cumulative' = v
  /\ commits' = [commits EXCEPT ![v] = Commit("verified", 0, FALSE)]
  /\ UNCHANGED <<memory, persisted, settled, deletes, orphans, posts, evictions, observed>>

StartCommit(v) ==
  /\ commits[v].st = "verified"
  /\ commits' = [commits EXCEPT ![v] = Commit(LoadState, 0, FALSE)]
  /\ UNCHANGED <<memory, store, settled, deletes, orphans, posts, evictions, observed>>

\* The request goes on to the application: armAbortGuard, once per session.
LetThrough(v) ==
  /\ served' = served \cup {v}
  /\ armed' = TRUE
  /\ listeners' = IF armed THEN listeners ELSE listeners + 1
  /\ UNCHANGED promised

\* Mutant: only a timer that already runs is restarted.
RestartIdleTimer == idle' = (idle /\ IdleTimeout)

\* Clears the timer and starts it again, if idleTimeoutMs is set.
ArmIdleTimer == idle' = IdleTimeout

\* commit() after the load: a higher record makes it return, else the voucher
\* becomes the record and its entry is put.
RecordVoucher(v) ==
  /\ Loaded(commits[v])
  /\ IF RecordAfter(commits[v]) > v
       THEN /\ record' = RecordAfter(commits[v])
            /\ opened' = OpenedAfter(commits[v])
            /\ commits' = [commits EXCEPT ![v] = Commit("done", 0, FALSE)]
            /\ LetThrough(v)
            /\ UNCHANGED <<orphanFlagged, settledCleanly, idle>>
       ELSE /\ record' = v
            /\ opened' = TRUE
            /\ orphanFlagged' = FALSE /\ settledCleanly' = FALSE
            /\ ArmIdleTimer
            /\ commits' = [commits EXCEPT ![v] = Commit("put", 0, ~OpenedAfter(commits[v]))]
            /\ UNCHANGED <<armed, listeners, observed>>
  /\ UNCHANGED <<store, settled, deletes, orphans, posts, evictions>>

\* The put resolves: onVoucher's amount is read from the record of this moment,
\* and a record reset meanwhile is a TypeError that rejects the verification.
PutResolves(v) ==
  /\ commits[v].st = "put"
  /\ persisted' = v
  /\ commits' = [commits EXCEPT ![v] = Commit("emit", record, @.opens)]
  /\ IF record # 0 THEN LetThrough(v) ELSE UNCHANGED <<armed, listeners, observed>>
  /\ UNCHANGED <<record, opened, orphanFlagged, settledCleanly, idle, cumulative, settled,
                 deletes, orphans, posts, evictions>>

\* A write that fails may have reached the store.
PutFails(v) ==
  /\ commits[v].st = "put" /\ "write" \in StoreFailures
  /\ persisted' \in {persisted, v}
  /\ commits' = [commits EXCEPT ![v] = Commit("failed", 0, FALSE)]
  /\ UNCHANGED <<memory, cumulative, settled, deletes, orphans, posts, evictions, observed>>

\* One microtask later the callbacks are called, with the payer and the signature
\* of the record of that moment.
EmitCallbacks(v) ==
  /\ commits[v].st = "emit"
  /\ commits' = [commits EXCEPT ![v] = Commit("done", 0, FALSE)]
  /\ posts' = posts
       \cup {p \in {Post("open", 0, 0)} : commits[v].opens /\ record # 0}
       \cup {p \in {Post("voucher", commits[v].val, record)} : commits[v].val # 0 /\ record # 0}
  /\ UNCHANGED <<memory, store, settled, deletes, orphans, evictions, observed>>

----------------------------------------------------------------------------
\* The orphan guard

\* The idle timer fires, or the client of a request that armed the guard is gone.
Trigger(r) ==
  /\ orphans[r].st = "off"
  /\ IF r = "idle-timeout"
       THEN idle /\ idle' = FALSE /\ UNCHANGED listeners
       ELSE listeners > 0 /\ listeners' = listeners - 1 /\ UNCHANGED idle
  /\ orphans' = [orphans EXCEPT ![r] = [st |-> LoadState, val |-> 0]]
  /\ UNCHANGED <<record, opened, orphanFlagged, settledCleanly, armed, store, settled,
                 commits, deletes, posts, evictions, observed>>

FlagOrphan(r) ==
  LET rec == RecordAfter(orphans[r])
      flag == OpenedAfter(orphans[r]) /\ ~settledCleanly /\ ~orphanFlagged
  IN /\ Loaded(orphans[r])
     /\ record' = rec
     /\ opened' = OpenedAfter(orphans[r])
     /\ orphans' = [orphans EXCEPT ![r] = [st |-> "off", val |-> 0]]
     /\ IF flag
          THEN /\ orphanFlagged' = TRUE /\ armed' = FALSE /\ idle' = FALSE
               /\ posts' = posts \cup {Post("orphan", rec, rec)}
          ELSE UNCHANGED <<orphanFlagged, armed, idle, posts>>
     /\ UNCHANGED <<settledCleanly, listeners, store, settled, commits, deletes,
                    evictions, observed>>

----------------------------------------------------------------------------
\* handleDelete

ReceiveDelete(d, body) ==
  /\ deletes[d].st = "unsent"
  /\ deletes' = [deletes EXCEPT ![d] = Delete(LoadState, body, 0, served)]
  /\ UNCHANGED <<memory, store, settled, commits, orphans, posts, evictions, observed>>

\* The load is over; the body is awaited.
ParseDelete(d) ==
  /\ Loaded(deletes[d])
  /\ record' = RecordAfter(deletes[d]) /\ opened' = OpenedAfter(deletes[d])
  /\ deletes' = [deletes EXCEPT ![d] = Delete("body", @.body, 0, @.seen)]
  /\ UNCHANGED <<orphanFlagged, settledCleanly, idle, armed, listeners, store, settled,
                 commits, orphans, posts, evictions, observed>>

\* The higher of the body and the record, and the signature that goes with it.
CloseAmount(body) == IF body.amount > record THEN body.amount ELSE record
CloseSig(body) ==
  IF body.amount > record
    THEN IF body.sig # 0 THEN body.sig ELSE record
    ELSE IF record # 0 THEN record
    ELSE IF body.amount = record THEN body.sig ELSE 0

\* Mutant: the body is taken over as the record.
ChooseTrusting(d) ==
  LET body == deletes[d].body
  IN /\ deletes[d].st = "body"
     /\ record' = CloseAmount(body)
     /\ deletes' = [deletes EXCEPT ![d] = Delete("floor", body, 0, @.seen)]
     /\ UNCHANGED <<opened, orphanFlagged, settledCleanly, idle, armed, listeners, store,
                    settled, commits, orphans, posts, evictions, observed>>

ChooseClose(d) ==
  LET body == deletes[d].body
  IN /\ deletes[d].st = "body"
     /\ deletes' = [deletes EXCEPT ![d] =
          IF CloseAmount(body) > 0 /\ CloseSig(body) # 0
            THEN Delete("floor", [amount |-> CloseAmount(body), sig |-> CloseSig(body)],
                        0, @.seen)
            ELSE Delete("answered", NoBody, 0, {})]
     /\ UNCHANGED <<memory, store, settled, commits, orphans, posts, evictions, observed>>

\* Mutant: no floor.
CheckNoFloor(d) ==
  /\ deletes[d].st = "floor"
  /\ deletes' = [deletes EXCEPT ![d] = Delete("closing", @.body, 0, @.seen)]
  /\ UNCHANGED <<memory, store, settled, commits, orphans, posts, evictions, observed>>

\* mppx's entry as readStoredCumulative answers it: none if it cannot be read.
StoredCumulative == Answers(cumulative)

\* mppx's entry is read and refuses a lower close with a 409; channelClose() starts.
CheckFloor(d) ==
  /\ deletes[d].st = "floor"
  /\ \E floor \in StoredCumulative :
       deletes' = [deletes EXCEPT ![d] = IF @.body.amount < floor
                                           THEN Delete("answered", NoBody, 0, {})
                                           ELSE Delete("closing", @.body, 0, @.seen)]
  /\ UNCHANGED <<memory, store, settled, commits, orphans, posts, evictions, observed>>

\* The contract closes the channel once, for an amount its payer signed.
ChainCloses(d) ==
  /\ deletes[d].st \in {"closing", "abandoned"}
  /\ settled = 0 /\ deletes[d].body.sig = deletes[d].body.amount
  /\ settled' = deletes[d].body.amount
  /\ promised' = deletes[d].seen
  /\ deletes' = [deletes EXCEPT ![d] = IF @.st = "closing" THEN Delete("closed", @.body, 0, {})
                                                          ELSE Delete("answered", NoBody, 0, {})]
  /\ UNCHANGED <<memory, store, commits, orphans, posts, evictions, served>>

\* channelClose() throws: refused by the contract, never included, or included
\* without anybody hearing of it.
ChainFails(d) ==
  /\ deletes[d].st \in {"closing", "closed", "abandoned"}
  /\ deletes' = [deletes EXCEPT ![d] = Delete("answered", NoBody, 0, {})]
  /\ UNCHANGED <<memory, store, settled, commits, orphans, posts, evictions, observed>>

\* The hash is there: the session is settled and its state reset.
FinishClose(d) ==
  /\ deletes[d].st = "closed"
  /\ settledCleanly' = TRUE
  /\ posts' = posts \cup {Post("settled", deletes[d].body.amount, 0)}
  /\ record' = 0 /\ opened' = FALSE /\ orphanFlagged' = FALSE /\ idle' = FALSE
  /\ deletes' = [deletes EXCEPT ![d] = Delete("deleting", NoBody, 0, {})]
  /\ UNCHANGED <<armed, listeners, store, settled, commits, orphans, evictions, observed>>

RecordDeleted(d) ==
  /\ deletes[d].st = "deleting"
  /\ persisted' = 0 /\ armed' = FALSE
  /\ deletes' = [deletes EXCEPT ![d] = Delete("done", NoBody, 0, {})]
  /\ UNCHANGED <<record, opened, orphanFlagged, settledCleanly, idle, listeners, cumulative,
                 settled, commits, orphans, posts, evictions, observed>>

RecordNotDeleted(d) ==
  /\ deletes[d].st = "deleting" /\ "write" \in StoreFailures
  /\ persisted' \in {persisted, 0}
  /\ deletes' = [deletes EXCEPT ![d] = Delete("done", NoBody, 0, {})]
  /\ UNCHANGED <<memory, cumulative, settled, commits, orphans, posts, evictions, observed>>

----------------------------------------------------------------------------
\* The environment

\* The host evicts the instance: memory and continuations are gone, a store
\* write or a close transaction on its way may still arrive.
LateWrites ==
  {v \in Vouchers : commits[v].st = "put"}
    \cup {w \in {0} : \E d \in Deletes : deletes[d].st = "deleting"}

Evict ==
  /\ evictions < MaxEvictions
  /\ evictions' = evictions + 1
  /\ FreshMemory
  /\ persisted' \in {persisted} \cup LateWrites
  /\ commits' = [v \in Vouchers |-> IF commits[v].st = "unsent" THEN commits[v]
                                                              ELSE Commit("done", 0, FALSE)]
  /\ deletes' = [d \in Deletes |->
       IF deletes[d].st \in {"unsent", "done"} THEN deletes[d]
       ELSE IF deletes[d].st = "closing" THEN Delete("abandoned", deletes[d].body, 0, deletes[d].seen)
       ELSE IF deletes[d].st = "abandoned" THEN deletes[d]
       ELSE Delete("answered", NoBody, 0, {})]
  /\ orphans' = [r \in Reasons |-> [st |-> "off", val |-> 0]]
  /\ UNCHANGED <<cumulative, settled, posts, observed>>

----------------------------------------------------------------------------
CommitStep(v) ==
  \/ StartCommit(v)
  \/ StoreAnswersCommit(v)
  \/ RecordVoucher(v)
  \/ PutResolves(v)
  \/ PutFails(v)
  \/ EmitCallbacks(v)

OrphanStep(r) == StoreAnswersOrphan(r) \/ FlagOrphan(r)

DeleteStep(d) ==
  \/ StoreAnswersDelete(d)
  \/ ParseDelete(d)
  \/ ChooseClose(d)
  \/ CheckFloor(d)
  \/ ChainCloses(d)
  \/ ChainFails(d)
  \/ FinishClose(d)
  \/ RecordDeleted(d)
  \/ RecordNotDeleted(d)

Next ==
  \/ \E v \in Vouchers : Verify(v) \/ CommitStep(v)
  \/ \E r \in Reasons : Trigger(r) \/ OrphanStep(r)
  \/ \E d \in Deletes : (\E body \in Bodies : ReceiveDelete(d, body)) \/ DeleteStep(d)
  \/ Evict

Spec == Init /\ [][Next]_vars

\* Every await settles and a timer that runs fires; nothing makes the payer send
\* a voucher or a DELETE, or its connection drop.
FairSpec ==
  /\ Spec
  /\ \A v \in Vouchers : WF_vars(CommitStep(v))
  /\ \A d \in Deletes : WF_vars(DeleteStep(d))
  /\ \A r \in Reasons : WF_vars(OrphanStep(r))
  /\ WF_vars(Trigger("idle-timeout"))

----------------------------------------------------------------------------
\* Properties

CallStates == {"have", "get", "got"}

\* With the second statements that SessionRecovery adds.
Posts == [kind : {"open", "voucher", "orphan", "settled", "advance", "log"},
          amount : Amounts, sig : Amounts]

\* Calls are in one of their states, and no amount exceeds what the payer signs.
TypeOK ==
  /\ record \in Amounts /\ persisted \in Amounts /\ cumulative \in Amounts
  /\ settled \in Amounts
  /\ opened \in BOOLEAN /\ orphanFlagged \in BOOLEAN /\ settledCleanly \in BOOLEAN
  /\ idle \in BOOLEAN /\ armed \in BOOLEAN /\ listeners \in Nat
  /\ commits \in [Vouchers -> [st : CallStates \cup {"unsent", "verified", "put", "emit",
                                                      "done", "failed"},
                               val : Amounts, opens : BOOLEAN]]
  /\ deletes \in [Deletes -> [st : CallStates \cup {"unsent", "body", "floor", "closing",
                                   "closed", "deleting", "done", "answered", "abandoned"},
                              body : Closes, val : Amounts, seen : SUBSET Vouchers]]
  /\ orphans \in [Reasons -> [st : CallStates \cup {"off"}, val : Amounts]]
  /\ posts \subseteq Posts
  /\ evictions \in 0..MaxEvictions
  /\ served \subseteq Vouchers /\ promised \subseteq Vouchers

Verified(v) == v \in Vouchers /\ commits[v].st # "unsent"

\* Nothing but verified vouchers reaches the record, its entry in the store and
\* what the callbacks are told of vouchers and orphans: no DELETE body, no mix-up
\* of loads, puts, evictions and closes.
ReportsAreVerified ==
  /\ \A a \in {record, persisted} : a = 0 \/ Verified(a)
  /\ \A p \in posts : p.kind \in {"voucher", "orphan"} =>
       \A a \in {p.amount, p.sig} : a = 0 \/ Verified(a)

\* Whatever was let through before a DELETE arrived is paid by its close, after
\* evictions, failed writes, reordered commits and stale loads (as long as the
\* store can be read: an unreadable entry is no floor).
SettlementCoversServed == settled # 0 => \A v \in promised : v <= settled

\* The channel as Channel promises it: a DELETE is open while it may still close.
Awaiting == CallStates \cup {"body", "floor", "closing", "abandoned"}
AskOf(call) ==
  [st |-> IF call.st = "unsent" THEN "not yet" ELSE IF call.st \in Awaiting THEN "open" ELSE "over",
   covers |-> IF call.st \in Awaiting THEN call.seen ELSE {}]

Promise == INSTANCE Channel WITH
  verified <- {v \in Vouchers : commits[v].st # "unsent"},
  asked <- [d \in Deletes |-> AskOf(deletes[d])]

\* The handler keeps it, after evictions, failed writes, reordered commits and
\* stale loads (as long as the store can be read): only verified vouchers are let
\* through, in whatever order they end, and it closes once, for what was let
\* through before the DELETE arrived.
ImplementsChannel == Promise!Spec

\* With an idle timeout, an open session that nobody settles gets flagged for the
\* reconciler; an eviction loses the timer, and the session with it.
OpenSessionIsFlagged ==
  opened /\ IdleTimeout ~> (orphanFlagged \/ settledCleanly \/ ~opened \/ evictions > 0)

\* commit()'s comment: "A late/duplicate commit can't roll the signature back to
\* an earlier amount": only a clean close or an eviction resets the record.
RecordNeverRollsBack == [][record' >= record \/ record' = 0]_vars

\* handleDelete's comment: "Clean close - suppress any orphan flagging for this
\* session".
CleanCloseNotOrphaned ==
  [][\A d \in Deletes, a \in Amounts :
       deletes[d].st \in {"deleting", "done"} /\ Post("orphan", a, a) \in posts'
         => Post("orphan", a, a) \in posts]_vars

\* handleDelete's comment: "a DELETE close must never broadcast below the highest
\* voucher mppx verified for this channel".
CloseCoversVerified ==
  [][settled' # settled => settled' >= cumulative]_vars

\* onVoucher and onOrphaned report an amount with the signature that signs it.
PostsAreSigned == \A p \in posts : p.kind \in {"voucher", "orphan"} => p.sig = p.amount
=============================================================================
