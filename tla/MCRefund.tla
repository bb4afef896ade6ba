------------------------------- MODULE MCRefund -------------------------------
EXTENDS Refund, TLC
CONSTANTS i1, r1, r2, c1, c2

\* Two units that cost 3 together, so 1 and 2 when refunded one by one.
OneQuantity == i1 :> 2
OneNet      == i1 :> 3
===============================================================================
