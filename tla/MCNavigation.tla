------------------------------ MODULE MCNavigation ------------------------------
EXTENDS Navigation, TLC
CONSTANTS r1, r2, r3

Symmetry == Permutations({r1, r2, r3})

\* Two pages, a third not yet there; under the top an entry of the first, under that
\* one of the second, under that a leaf; three categories, the third under the first;
\* a product in the third.
TwoPages   == [p \in Pages |->
    CASE p = "p1" -> [status |-> "draft", slug |-> "about"]
      [] p = "p2" -> [status |-> "published", slug |-> "other"]
      [] OTHER    -> Nothing]
NestedMenu == [e \in Entries |->
    CASE e = "first"  -> [parent |-> Top, url |-> "about"]
      [] e = "second" -> [parent |-> "first", url |-> "other"]
      [] e = "leaf"   -> [parent |-> "second", url |-> Nothing]
      [] OTHER        -> Nothing]
TwoRoots  == [c \in Categories |->
    CASE c = "a" -> Top [] c = "b" -> Top [] c = "c" -> "a" [] OTHER -> Nothing]
OneTag    == [p \in Products |-> {"c"}]
=================================================================================
