SPECIFICATION Spec
CONSTANTS
  o1 = o1
  o2 = o2
  k1 = k1
  k2 = k2
  o3 = o3
  Orders = {o1}
  Keys = {k1, k2}
  KeyOrder <- OneOrder
  FullKeys = {k1, k2}
  Requests <- OneOrderRequests
  MaxWaiting = 1
  EventTypes = {"status", "deposit"}
  Stranded = {}
  NoOrder = NoOrder
  MaxCrashes = 1
  ConsoleCancels = FALSE
INVARIANTS PaidOrdersHaveTheirMoney FailedOrdersTookNoMoney NoSecondCharge
  StockReturnedOnce LedgerAgrees
PROPERTIES SettledStays ImplementsOrderPayment
SYMMETRY OneOrderKeys
CHECK_DEADLOCK FALSE
