-------------------------- MODULE MCSessionProvider --------------------------
(* A small instance of SessionProvider: a DELETE may name any amount, with   *)
(* any signature or none.                                                    *)
EXTENDS SessionProvider

MCBodies == [amount : 0..2, sig : 0..2]
=============================================================================
