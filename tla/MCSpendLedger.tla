--------------------------- MODULE MCSpendLedger ---------------------------
EXTENDS SpendLedger, TLC
CONSTANTS c1, c2, c3, r1, r2

MCPrice == [m \in Modes |-> IF m = "x402" THEN 2 ELSE 1]
MCEndpointCap == [r \in Routes |-> IF r = r1 THEN 2 ELSE NoCap]
MCSymmetry == Permutations({c1, c2, c3})
=============================================================================
