\* Two units with a shipping fee of 2: two returns, three refunds.
SPECIFICATION Spec
CONSTANTS
  i1 = i1
  r1 = r1
  r2 = r2
  f1 = f1
  f2 = f2
  f3 = f3
  k1 = k1
  k2 = k2
  Items = {i1}
  Quantity <- OneQuantity
  Net <- OneNet
  Shipping = 2
  ReturnIds = {r1, r2}
  Refunds = {f1, f2, f3}
  Keys = {k1, k2}
  Fees = {0, 1}
  Deltas <- PriceDeltas
  Stock = 3
INVARIANTS OrderFollowsReturn UnitsAccounted ExchangeStockHeld ShippedMeansPaid CardChargedOnce  GoodsNeverOverpaid
SYMMETRY Symmetry
CHECK_DEADLOCK FALSE
