SPECIFICATION FairSpec
CONSTANTS
  o1 = o1
  o2 = o2
  x1 = x1
  x2 = x2
  r1 = r1
  r2 = r2
  Orders = {o1}
  Couriers = {x1, x2, r1}
  Clients = {k1, k2}
  Leavers = {k1}
  Listener = listener
  NULL = NULL
  DESTROYED = DESTROYED
  Target <- MCTarget
  ORDER_LIST_SIZE = 1
  COURIER_QUEUE_SIZE = 1
  TARGET_LIST_SIZE = 1
PROPERTIES
  ThreadsGoOn
CHECK_DEADLOCK FALSE
