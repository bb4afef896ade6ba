------------------------------- MODULE MCAccounts -------------------------------
EXTENDS Accounts, TLC
CONSTANTS u1, b1, b2, a1, p1, p2, i1, t1, t2

OneProvider == i1 :> "provider"
Symmetry    == Permutations({b1, b2}) \cup Permutations({p1, p2}) \cup Permutations({t1, t2})
================================================================================
