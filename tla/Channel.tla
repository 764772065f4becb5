------------------------------ MODULE Channel ------------------------------
(***************************************************************************)
(* What a provider of mpp-session promises about one payment channel: only *)
(* verified vouchers are served, each above those before, and the channel  *)
(* is closed once, for an amount that covers whatever had been served when *)
(* the DELETE that closes it arrived.                                      *)
(*                                                                         *)
(* A voucher is the amount it signs.  A provider may have reconcilers,     *)
(* which close for a verified voucher though nobody asked, and it may keep *)
(* its vouchers in memory only, which a restart forgets.                   *)
(***************************************************************************)
EXTENDS Integers

CONSTANTS
  Vouchers,        \* the amounts the payer signs
  Deletes          \* its requests to close

VARIABLES
  verified, served,
  asked,           \* each request to close, and what had been served when it came
  settled          \* the amount the channel was closed for, 0 while it is open

channel == <<verified, served, asked, settled>>

Ask(st, covers) == [st |-> st, covers |-> covers]

Init ==
  /\ verified = {} /\ served = {} /\ settled = 0
  /\ asked = [d \in Deletes |-> Ask("not yet", {})]

Verify(v) ==
  /\ settled = 0 /\ \A w \in verified : w < v
  /\ verified' = verified \cup {v}
  /\ UNCHANGED <<served, asked, settled>>

Serve(v) ==
  /\ v \in verified
  /\ served' = served \cup {v}
  /\ UNCHANGED <<verified, asked, settled>>

AskToClose(d) ==
  /\ asked[d].st = "not yet"
  /\ asked' = [asked EXCEPT ![d] = Ask("open", served)]
  /\ UNCHANGED <<verified, served, settled>>

\* Requests may be refused on arrival, fail, or be lost with the process.
GiveUp(some) ==
  /\ \A d \in some : asked[d].st # "over"
  /\ asked' = [d \in Deletes |-> IF d \in some THEN Ask("over", {}) ELSE asked[d]]
  /\ UNCHANGED <<verified, served, settled>>

Close(d, amount) ==
  /\ asked[d].st = "open" /\ settled = 0
  /\ \A v \in asked[d].covers : v <= amount
  /\ settled' = amount
  /\ asked' = [asked EXCEPT ![d] = Ask("over", {})]
  /\ UNCHANGED <<verified, served>>

Next ==
  \/ \E v \in Vouchers : Verify(v) \/ Serve(v)
  \/ \E d \in Deletes : AskToClose(d) \/ \E amount \in Vouchers : Close(d, amount)
  \/ \E some \in SUBSET Deletes : GiveUp(some)

Spec == Init /\ [][Next]_channel

\* A reconciler closes the channel.
Recover(v) ==
  /\ settled = 0 /\ v \in verified
  /\ settled' = v
  /\ UNCHANGED <<verified, served, asked>>

RecoverableSpec == Init /\ [][Next \/ \E v \in Vouchers : Recover(v)]_channel

\* A restart forgets what was verified and served.
Forget ==
  /\ verified' = {} /\ served' = {}
  /\ UNCHANGED <<asked, settled>>

ForgetfulSpec == Init /\ [][Next \/ Forget]_channel
=============================================================================
