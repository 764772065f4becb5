-------------------------- MODULE MCSessionRecovery --------------------------
(* A small instance of SessionRecovery: a payer that closes for what it      *)
(* signed, over a store and a database that fail now and then.               *)
EXTENDS SessionRecovery

MCBodies == {[amount |-> MaxVouchers, sig |-> MaxVouchers]}
=============================================================================
