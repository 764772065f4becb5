--------------------------- MODULE ChannelDispute ---------------------------
(***************************************************************************)
(* requestRefund() and settleWithLatestVoucher() of                        *)
(* client/MppSessionClient.ts, on the session of VoucherClient, whose      *)
(* streams go on signing: each builds a transaction, sends it and polls    *)
(* until the network says SUCCESS or FAILED or the time is up.             *)
(***************************************************************************)
EXTENDS VoucherClient

CONSTANT MaxDisputes   \* bound: calls of a session, one after the other

ASSUME DisputeAssumption == MaxDisputes \in Nat

VARIABLES
  call,      \* the call in progress
  disputes   \* calls made

disputeVars == <<call, disputes>>

\* tx: "none", or what the network makes of the transaction.
NoCall == [kind |-> "none", pc |-> "idle", signedFor |-> 0, amount |-> 0, tx |-> "none"]

DisputeInit == call = NoCall /\ disputes = 0

Begin(kind, stage, signedFor) ==
  /\ call.pc \in {"idle", "done", "failed"}
  /\ disputes < MaxDisputes
  /\ disputes' = disputes + 1
  /\ call' = [NoCall EXCEPT !.kind = kind, !.pc = stage, !.signedFor = signedFor]
  /\ UNCHANGED vars

RequestRefund == Begin("refund", "built", 0)

\* prepare_commitment is simulated for the cumulative of this moment and signed.
PrepareSettlement == Begin("settle", "prepared", current)

\* The account is loaded again before the transaction names an amount.
BuildSettlement ==
  /\ call.pc = "prepared"
  /\ call' = [call EXCEPT !.pc = "built", !.amount = current]
  /\ UNCHANGED <<vars, disputes>>

\* The contract accepts in simulation only the amount that was signed.
Simulates == call.kind = "settle" => call.amount = call.signedFor

\* The transaction is queued; its caller may not hear of it.
SendTransaction ==
  /\ call.pc = "built" /\ Simulates
  /\ \E heard \in BOOLEAN :
       call' = [call EXCEPT !.pc = IF heard THEN "confirm" ELSE "failed", !.tx = "pending"]
  /\ UNCHANGED <<vars, disputes>>

\* An RPC call fails, a simulation does, or the network does not take it.
DisputeFails ==
  /\ call.pc \in {"prepared", "built"}
  /\ call' = [call EXCEPT !.pc = "failed"]
  /\ UNCHANGED <<vars, disputes>>

NetworkDecides ==
  /\ call.tx = "pending"
  /\ \E outcome \in {"applied", "rejected"} : call' = [call EXCEPT !.tx = outcome]
  /\ UNCHANGED <<vars, disputes>>

\* Mutant: polling that runs out of time returns the hash it has.
ConfirmedOnTimeout ==
  /\ call.pc = "confirm"
  /\ call' = [call EXCEPT !.pc = IF call.tx = "rejected" THEN "failed" ELSE "done"]
  /\ UNCHANGED <<vars, disputes>>

\* SUCCESS returns the hash; FAILED, an error of the RPC and a timeout throw, the
\* last two whatever becomes of the transaction.
ConfirmTransaction ==
  /\ call.pc = "confirm"
  /\ \/ call.tx = "applied" /\ call' = [call EXCEPT !.pc = "done"]
     \/ call' = [call EXCEPT !.pc = "failed"]
  /\ UNCHANGED <<vars, disputes>>

DisputeStep ==
  \/ RequestRefund
  \/ PrepareSettlement
  \/ BuildSettlement
  \/ SendTransaction
  \/ DisputeFails
  \/ NetworkDecides
  \/ ConfirmTransaction

----------------------------------------------------------------------------
\* Properties

\* A dispute that returns a hash has been applied to the channel, and a settlement
\* for a cumulative the commitment key had signed: whatever the streams signed while
\* it was built, and however long the network took.
ReturnedIsApplied ==
  call.pc = "done" => /\ call.tx = "applied"
                      /\ call.kind = "settle" => call.amount \in signed \cup {0}

\* settleWithLatestVoucher's comment: "settle with latest voucher": what it sends is
\* what it signed.
SettlesWhatItSigned == call.kind = "settle" /\ call.pc = "built" => Simulates
=============================================================================
