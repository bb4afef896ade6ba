\* Two requests executing the same two refunds of two units.
SPECIFICATION FairSpec
CONSTANTS
  i1 = i1
  r1 = r1
  r2 = r2
  c1 = c1
  c2 = c2
  Items = {i1}
  Quantity <- OneQuantity
  Net <- OneNet
  Fee = 0
  Refunds = {r1, r2}
  Callers = {c1, c2}
  MaxCrashes = 1
INVARIANTS ReservationsAddUp UnitsCounted PaidOnce RestockedOnce RefundedIsFinal
PROPERTY FullyRefundedCloses
CHECK_DEADLOCK FALSE
