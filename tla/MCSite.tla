--------------------------------- MODULE MCSite ---------------------------------
EXTENDS Site, TLC
CONSTANTS r1, r2, e1, e2

Symmetry == Permutations({r1, r2}) \cup Permutations({e1, e2})
================================================================================
