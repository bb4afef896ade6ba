\* Two orders, a key of one presented for the other, another amount, and
\* cancellations at the gateway's console.
SPECIFICATION Spec
CONSTANTS
  o1 = o1
  o2 = o2
  k1 = k1
  k2 = k2
  o3 = o3
  Orders = {o1, o2}
  Keys = {k1, k2}
  KeyOrder <- TwoOrders
  FullKeys = {k2}
  Requests <- TwoOrdersRequests
  MaxWaiting = 1
  EventTypes = {"deposit"}
  Stranded = {}
  NoOrder = NoOrder
  MaxCrashes = 0
  ConsoleCancels = TRUE
INVARIANT Inductive
CHECK_DEADLOCK FALSE
