------------------------------- MODULE MCContent -------------------------------
EXTENDS Content, TLC
CONSTANTS p1, c1, c2, f1, f2, r1, r2

\* A comment and a reply to it.
CommentsOn == c1 :> p1 @@ c2 :> p1
Parents    == c1 :> None @@ c2 :> c1
Symmetry == Permutations({r1, r2}) \cup Permutations({f1, f2})
================================================================================
