\* The two liveness properties: a restart, and an order an earlier revision left
\* without a payment.
SPECIFICATION LoopSpec
CONSTANTS
  o1 = o1
  o2 = o2
  o3 = o3
  k1 = k1
  k2 = k2
  Orders = {o1, o3}
  Keys = {k1}
  KeyOrder <- OneKey
  FullKeys = {k1}
  Requests <- OneKeyRequests
  MaxWaiting = 1
  EventTypes = {"deposit"}
  Stranded = {o3}
  NoOrder = NoOrder
  MaxCrashes = 1
  ConsoleCancels = FALSE
PROPERTIES UnpaidOrdersReleased EveryOrderCloses
CHECK_DEADLOCK FALSE
