----------------------------- MODULE SpendStore -----------------------------
(***************************************************************************)
(* What SpendStore.update() promises (store/SpendStore.ts): a call reads   *)
(* the state, applies its function and writes the result with nobody else  *)
(* in between; a call that throws wrote nothing.                           *)
(*                                                                         *)
(* The function of a call adds that call to the state, so the state is the *)
(* set of the calls applied, and an update that is lost is a call that     *)
(* leaves the set.                                                         *)
(***************************************************************************)
CONSTANT Calls     \* calls of update(), by any number of processes

VARIABLES
  value,           \* the stored state
  outcome          \* what each call answered: "open", "ok" or "error"

Init == value = {} /\ outcome = [c \in Calls |-> "open"]

Apply(c) ==
  /\ outcome[c] = "open" /\ c \notin value
  /\ value' = value \cup {c}
  /\ UNCHANGED outcome

\* A call may answer without writing: its function returned undefined.
Return(c) ==
  /\ outcome[c] = "open"
  /\ outcome' = [outcome EXCEPT ![c] = "ok"]
  /\ UNCHANGED value

Throw(c) ==
  /\ outcome[c] = "open" /\ c \notin value
  /\ outcome' = [outcome EXCEPT ![c] = "error"]
  /\ UNCHANGED value

Next == \E c \in Calls : Apply(c) \/ Return(c) \/ Throw(c)

Spec == Init /\ [][Next]_<<value, outcome>>
=============================================================================
