--------------------------- MODULE ExpressSession ---------------------------
(***************************************************************************)
(* The mpp-session handler that the Express and Fastify adapters share     *)
(* (provider/MppSessionHandler.ts) for one payment channel, with the vault *)
(* record of provider/internal/vaultSettlement.ts.                         *)
(*                                                                         *)
(* Its store is Store.memory(): a load or a put takes no longer than a     *)
(* microtask, so commit() and flagOrphan() are one step each, and the      *)
(* persisted record is the one in memory.  What takes time is mppx's       *)
(* verification, channelClose() and the vault record.  As in               *)
(* SessionProvider, voucher v signs v times the rate, a signature is the   *)
(* amount it signs and 0 is none.  A voucher names its payer; of a session *)
(* with no record nobody knows the payer.                                  *)
(***************************************************************************)
EXTENDS Integers, FiniteSets

CONSTANTS
  MaxVouchers,     \* bound: vouchers the payer signs
  Deletes,         \* DELETE requests
  Bodies,          \* their bodies: the payer sends what it likes
  IdleTimeout,     \* whether idleTimeoutMs is set
  Vault,           \* whether vaultSettlement is configured
  MaxRestarts      \* bound: restarts of the process

Vouchers == 1..MaxVouchers
Amounts == 0..MaxVouchers
Reasons == {"connection-closed", "idle-timeout"}
Closes == [amount : Amounts, sig : Amounts, count : Amounts, payer : BOOLEAN]

ASSUME ExpressAssumption ==
  /\ MaxVouchers \in Nat /\ MaxRestarts \in Nat
  /\ Bodies \subseteq [amount : Amounts, sig : Amounts]
  /\ IdleTimeout \in BOOLEAN /\ Vault \in BOOLEAN

VARIABLES
  record,          \* the last verified voucher, 0 for null
  voucherCount, sessionOpened, orphanFlagged, settledCleanly,
  idle,            \* the idle timer runs
  armed,           \* closeListenerArmed
  listeners,       \* 'close' listeners on requests
  cumulative,      \* mppx's entry, in the same memory
  settled,         \* the contract: the amount the channel was closed for, 0 if open
  commits,         \* each voucher's request: "unsent", "verified" or "done"
  deletes,         \* each DELETE: what it closes for and what was served before it
  posts,           \* what callbacks and the vault were told
  served,          \* vouchers let through since the process started
  promised,        \* those served before the DELETE that settled arrived
  restarts

memory == <<record, voucherCount, sessionOpened, orphanFlagged, settledCleanly, idle, armed, listeners>>
vars == <<memory, cumulative, settled, commits, deletes, posts, served, promised, restarts>>

NoClose == [amount |-> 0, sig |-> 0, count |-> 0, payer |-> FALSE]
Delete(st, close, seen) == [st |-> st, close |-> close, seen |-> seen]
Post(kind, amount, count) == [kind |-> kind, amount |-> amount, count |-> count]

Init ==
  /\ record = 0 /\ voucherCount = 0 /\ sessionOpened = FALSE
  /\ orphanFlagged = FALSE /\ settledCleanly = FALSE
  /\ idle = FALSE /\ armed = FALSE /\ listeners = 0 /\ cumulative = 0 /\ settled = 0
  /\ commits = [v \in Vouchers |-> "unsent"]
  /\ deletes = [d \in Deletes |-> Delete("unsent", NoClose, {})]
  /\ posts = {} /\ served = {} /\ promised = {} /\ restarts = 0

----------------------------------------------------------------------------
\* Vouchers

\* mppx accepts a voucher above its entry, while the channel is open.
Verify(v) ==
  /\ commits[v] = "unsent" /\ settled = 0 /\ v > cumulative
  /\ cumulative' = v /\ commits' = [commits EXCEPT ![v] = "verified"]
  /\ UNCHANGED <<memory, settled, deletes, posts, served, promised, restarts>>

\* Mutant: only a timer that runs is started again.
RestartIdleTimer == idle' = (idle /\ IdleTimeout)

ArmIdleTimer == idle' = IdleTimeout

\* commit(), and the request goes on: a voucher below the record is not recorded.
Commit(v) ==
  /\ commits[v] = "verified" /\ commits' = [commits EXCEPT ![v] = "done"]
  /\ IF v < record
       THEN UNCHANGED <<record, voucherCount, sessionOpened, orphanFlagged, settledCleanly, idle, posts>>
       ELSE /\ record' = v /\ voucherCount' = voucherCount + 1 /\ sessionOpened' = TRUE
            /\ settledCleanly' = FALSE /\ orphanFlagged' = FALSE /\ ArmIdleTimer
            /\ posts' = posts \cup {Post("voucher", v, voucherCount')}
                              \cup {p \in {Post("open", 0, 0)} : ~sessionOpened}
  /\ armed' = TRUE /\ listeners' = IF armed THEN listeners ELSE listeners + 1
  /\ served' = served \cup {v}
  /\ UNCHANGED <<cumulative, settled, deletes, promised, restarts>>

\* The idle timer fires or an armed request's connection closes: flagOrphan().
Orphan(r) ==
  /\ IF r = "idle-timeout" THEN idle /\ UNCHANGED listeners
                           ELSE listeners > 0 /\ listeners' = listeners - 1
  /\ IF sessionOpened /\ ~settledCleanly /\ ~orphanFlagged
       THEN /\ orphanFlagged' = TRUE /\ armed' = FALSE /\ idle' = FALSE
            /\ posts' = posts \cup {Post("orphan", record, voucherCount)}
       ELSE /\ idle' = (idle /\ r # "idle-timeout")
            /\ UNCHANGED <<orphanFlagged, armed, posts>>
  /\ UNCHANGED <<record, voucherCount, sessionOpened, settledCleanly, cumulative, settled,
                 commits, deletes, served, promised, restarts>>

----------------------------------------------------------------------------
\* DELETE

\* The end of every DELETE that does not throw.
Reset ==
  /\ record' = 0 /\ voucherCount' = 0 /\ sessionOpened' = FALSE
  /\ orphanFlagged' = FALSE /\ armed' = FALSE /\ idle' = FALSE

\* Mutant: the body names the amount.
CloseForBody(body) ==
  [amount |-> body.amount, sig |-> body.sig, count |-> voucherCount, payer |-> record # 0]

\* The higher of the body and the record, with the signature that goes with it.
CloseFor(body) ==
  LET higher == body.amount > record
  IN [amount |-> IF higher THEN body.amount ELSE record,
      sig |-> IF higher /\ body.sig # 0 THEN body.sig ELSE record,
      count |-> voucherCount, payer |-> record # 0]

ReceiveDelete(d, body) ==
  /\ deletes[d].st = "unsent"
  /\ LET close == CloseFor(body)
     IN IF close.amount > 0 /\ close.sig # 0
          THEN /\ deletes' = [deletes EXCEPT ![d] = Delete("closing", close, served)]
               /\ UNCHANGED memory
          ELSE /\ deletes' = [deletes EXCEPT ![d] = Delete("answered", NoClose, {})]
               /\ Reset /\ UNCHANGED <<settledCleanly, listeners>>
  /\ UNCHANGED <<cumulative, settled, commits, posts, served, promised, restarts>>

\* The contract closes a channel once, for an amount its payer signed.
ChainCloses(d) ==
  /\ deletes[d].st \in {"closing", "abandoned"}
  /\ settled = 0 /\ deletes[d].close.sig = deletes[d].close.amount
  /\ settled' = deletes[d].close.amount /\ promised' = deletes[d].seen
  /\ deletes' = [deletes EXCEPT ![d].st = IF @ = "closing" THEN "closed" ELSE "answered"]
  /\ UNCHANGED <<memory, cumulative, commits, posts, served, restarts>>

\* channelClose() throws, included or not; the session stays as it is.
ChainFails(d) ==
  /\ deletes[d].st \in {"closing", "closed", "abandoned"}
  /\ deletes' = [deletes EXCEPT ![d].st = "answered"]
  /\ UNCHANGED <<memory, cumulative, settled, commits, posts, served, promised, restarts>>

\* resolveVaultSettlementAddresses: no event rather than one with a wrong payer.
Recorded(d) == Vault /\ deletes[d].close.payer

\* The hash is there: the DELETE is answered, and a vault record is awaited first
\* if there is one to make.
FinishClose(d) ==
  /\ deletes[d].st = "closed"
  /\ settledCleanly' = TRUE
  /\ posts' = posts \cup {Post("settled", deletes[d].close.amount, 0)}
  /\ IF Recorded(d)
       THEN /\ deletes' = [deletes EXCEPT ![d].st = "recording"] /\ idle' = FALSE
            /\ UNCHANGED <<record, voucherCount, sessionOpened, orphanFlagged, armed>>
       ELSE deletes' = [deletes EXCEPT ![d].st = "answered"] /\ Reset
  /\ UNCHANGED <<listeners, cumulative, settled, commits, served, promised, restarts>>

\* Mutant: the record is made of the state found after the close.
CurrentSettlement(d) == Post("vault", record, voucherCount)

VaultSettlement(d) == Post("vault", deletes[d].close.amount, deletes[d].close.count)

\* What the transaction, once sent, may have told the vault.
MayTell(ds) == {{VaultSettlement(d) : d \in told} : told \in SUBSET ds}

\* recordSessionSettlement: the transaction is prepared, signed and sent.
VaultSent(d) ==
  /\ deletes[d].st = "recording"
  /\ deletes' = [deletes EXCEPT ![d].st = "sent"]
  /\ UNCHANGED <<memory, cumulative, settled, commits, posts, served, promised, restarts>>

VaultOver(d) ==
  /\ deletes' = [deletes EXCEPT ![d].st = "answered"] /\ Reset
  /\ UNCHANGED <<settledCleanly, listeners, cumulative, settled, commits, served, promised, restarts>>

\* waitForConfirmation sees the event on the ledger ...
VaultConfirmed(d) ==
  /\ deletes[d].st = "sent"
  /\ posts' = posts \cup {VaultSettlement(d)}
  /\ VaultOver(d)

\* ... or the record fails: it was not sent, or it was and has failed, run out of
\* time or out of contact.  The failure is reported, and the session reset as well.
VaultFails(d) ==
  /\ deletes[d].st \in {"recording", "sent"}
  /\ \E told \in MayTell({d} \cap {x \in Deletes : deletes[x].st = "sent"}) : posts' = posts \cup told
  /\ VaultOver(d)

----------------------------------------------------------------------------
\* The process restarts: the record, mppx's entry and the listeners are gone, a
\* transaction on its way may still arrive, and vouchers may be sent again.
Restart ==
  /\ restarts < MaxRestarts /\ restarts' = restarts + 1
  /\ Reset /\ settledCleanly' = FALSE /\ listeners' = 0 /\ cumulative' = 0 /\ served' = {}
  /\ commits' = [v \in Vouchers |-> "unsent"]
  /\ deletes' = [d \in Deletes |->
       IF deletes[d].st = "closing" THEN [deletes[d] EXCEPT !.st = "abandoned"]
       ELSE IF deletes[d].st \in {"unsent", "abandoned"} THEN deletes[d]
       ELSE [deletes[d] EXCEPT !.st = "answered"]]
  /\ \E told \in MayTell({d \in Deletes : deletes[d].st = "sent"}) : posts' = posts \cup told
  /\ UNCHANGED <<settled, promised>>

DeleteStep(d) ==
  \/ ChainCloses(d) \/ ChainFails(d) \/ FinishClose(d)
  \/ VaultSent(d) \/ VaultConfirmed(d) \/ VaultFails(d)

Next ==
  \/ \E v \in Vouchers : Verify(v) \/ Commit(v)
  \/ \E r \in Reasons : Orphan(r)
  \/ \E d \in Deletes : (\E body \in Bodies : ReceiveDelete(d, body)) \/ DeleteStep(d)
  \/ Restart

Spec == Init /\ [][Next]_vars

\* A timer that runs fires.
FairSpec == Spec /\ WF_vars(Orphan("idle-timeout"))

----------------------------------------------------------------------------
TypeOK ==
  /\ record \in Amounts /\ voucherCount \in Amounts /\ cumulative \in Amounts /\ settled \in Amounts
  /\ sessionOpened \in BOOLEAN /\ orphanFlagged \in BOOLEAN /\ settledCleanly \in BOOLEAN
  /\ idle \in BOOLEAN /\ armed \in BOOLEAN /\ listeners \in Nat
  /\ commits \in [Vouchers -> {"unsent", "verified", "done"}]
  /\ deletes \in [Deletes -> [st : {"unsent", "closing", "closed", "recording", "sent", "answered", "abandoned"},
                              close : Closes, seen : SUBSET Vouchers]]
  /\ posts \subseteq [kind : {"open", "voucher", "orphan", "settled", "vault"}, amount : Amounts, count : Amounts]
  /\ served \subseteq Vouchers /\ promised \subseteq Vouchers /\ restarts \in 0..MaxRestarts
  /\ record # 0 => record \in served /\ sessionOpened

\* What this process served before a DELETE arrived is paid by its close, after
\* closes that failed, reordered commits and concurrent DELETEs.
SettlementCoversServed == settled # 0 => \A v \in promised : v <= settled

\* The channel as Channel promises it, with a memory that a restart empties; a
\* DELETE is open while it may still close.
AskOf(call) ==
  [st |-> IF call.st = "unsent" THEN "not yet"
          ELSE IF call.st \in {"closing", "abandoned"} THEN "open" ELSE "over",
   covers |-> IF call.st \in {"closing", "abandoned"} THEN call.seen ELSE {}]

Promise == INSTANCE Channel WITH
  verified <- {v \in Vouchers : commits[v] # "unsent"},
  asked <- [d \in Deletes |-> AskOf(deletes[d])]

ImplementsForgetful == Promise!ForgetfulSpec

\* The settlement that onSettled and the vault hear of is the one the contract
\* made, for no more vouchers than it pays, whatever arrives while it is made; an
\* orphan is reported with an amount that was served.
ReportsMatchChain ==
  \A p \in posts :
    /\ p.kind \in {"settled", "vault"} => p.amount = settled
    /\ p.count <= p.amount
    /\ p.kind = "orphan" => Post("voucher", p.amount, p.count) \in posts

\* With an idle timeout, an open session that nobody settles is flagged for the
\* reconciler; a restart loses the timer, and the session with it.
OpenSessionIsFlagged ==
  sessionOpened /\ IdleTimeout ~> (orphanFlagged \/ settledCleanly \/ ~sessionOpened)
=============================================================================
