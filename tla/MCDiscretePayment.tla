------------------------- MODULE MCDiscretePayment -------------------------
EXTENDS DiscretePayment, TLC
CONSTANTS c1, c2, r1, r2, stray

MCPrice == [m \in Modes |-> IF m = "x402" THEN 2 ELSE 1]
MCEndpointCap == [r \in Routes |-> IF r = r1 THEN 2 ELSE NoCap]
MCPayments == Calls \X (1..MaxAttempts)
MCRequests == MCPayments \cup Strays
MCSymmetry == Permutations({c1, c2})
=============================================================================
