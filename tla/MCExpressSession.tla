--------------------------- MODULE MCExpressSession ---------------------------
EXTENDS ExpressSession

\* No body, a body below or above the record, and a body without its signature.
MCBodies == {[amount |-> 0, sig |-> 0], [amount |-> 1, sig |-> 1],
             [amount |-> MaxVouchers, sig |-> MaxVouchers], [amount |-> MaxVouchers, sig |-> 0]}
=============================================================================
