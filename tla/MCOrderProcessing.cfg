SPECIFICATION Spec
CONSTANTS
  o1 = o1
  o2 = o2
  x1 = x1
  x2 = x2
  r1 = r1
  r2 = r2
  Orders = {o1, o2}
  Couriers = {x1, r1, r2}
  Clients = {k1, k2}
  Leavers = {k1}
  Listener = listener
  NULL = NULL
  DESTROYED = DESTROYED
  Target <- MCTarget
  ORDER_LIST_SIZE = 2
  COURIER_QUEUE_SIZE = 1
  TARGET_LIST_SIZE = 1
INVARIANTS
  ProcTypeOK
  OrderServedOnce
  CourierServedOnce
  WaitingBounded
  NoOverrun
PROPERTIES
  ImplementsDispatch
CHECK_DEADLOCK FALSE
