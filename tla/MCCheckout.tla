------------------------------- MODULE MCCheckout -------------------------------
EXTENDS Checkout, TLC
CONSTANTS b1, p1, v1, r1, r2, o1, o2, k1

OneProduct  == v1 :> p1
PlusMinus   == {-1, 0, 1}
Symmetry    == Permutations({r1, r2}) \cup Permutations({o1, o2})
================================================================================
