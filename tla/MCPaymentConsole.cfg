SPECIFICATION LoopSpec
CONSTANTS
  o1 = o1
  o2 = o2
  o3 = o3
  k1 = k1
  k2 = k2
  Orders = {o1}
  Keys = {k1, k2}
  KeyOrder <- OneOrder
  FullKeys = {k1, k2}
  Requests <- OneOrderRequests
  MaxWaiting = 1
  EventTypes = {"deposit"}
  Stranded = {}
  NoOrder = NoOrder
  MaxCrashes = 0
  ConsoleCancels = TRUE
PROPERTY PendingPaymentsClose
CHECK_DEADLOCK FALSE
