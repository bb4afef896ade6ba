------------------------------- MODULE MCReturns -------------------------------
EXTENDS Returns, TLC
CONSTANTS i1, r1, r2, f1, f2, f3, k1, k2

\* Two units with 4 left after the discount.
OneQuantity == i1 :> 2
OneNet      == i1 :> 4

\* Not used by the run: values for which prices are not whole per unit, or a
\* variant is cheaper by more than the unit cost (README, disagreements).
\* Two units that do not cost the same: 1 and 2 after the discount.
UnevenNet == i1 :> 3

\* One unit with 2 left of its price; the variant asked for costs 3 less.
SingleQuantity == i1 :> 1
DiscountedNet  == i1 :> 2
BigDelta == {-3}

Symmetry == Permutations({r1, r2}) \cup Permutations({f1, f2, f3}) \cup Permutations({k1, k2})
PriceDeltas == {-1, 1}
===============================================================================
