---------------------------- MODULE MCAgentVault ----------------------------
(* A small instance of AgentVault.  The spend policy and the governance are  *)
(* each explored fully while the other one stays put: Focus bounds the run   *)
(* to the states in which at most one of them has moved.                     *)
EXTENDS AgentVault, TLC

CONSTANTS p1, p2, MaxSpendLedger

MCAmounts == {-1, 1, 2}

PayeeSymmetry == Permutations({p1, p2})

\* No roles move and nothing is proposed: caps, payees and payments vary.
Spending ==
  /\ sequence <= MaxSpendLedger
  /\ pendingAdmin = NoAdmin /\ admin = CHOOSE a \in Admins : TRUE
  /\ agentKey = CHOOSE k \in Keys : TRUE
  /\ pendingUpgrade = NoUpgrade /\ wasm = Genesis
  /\ expiry = 3
  /\ announcedAt = [h \in Hashes |-> Never]
  /\ paidEver <= 3

\* The policy is at one value: the roles, the upgrades and the archival vary.
Governing ==
  /\ dailyCap = 1 /\ lifetimeCap = 1
  /\ \E p \in Payees : allowlist = [q \in Payees |-> IF q = p THEN 1 ELSE NotListed]
  /\ expiry = 4 /\ ~frozen
  /\ paidEver <= 1

Focus == Spending \/ Governing
=============================================================================
