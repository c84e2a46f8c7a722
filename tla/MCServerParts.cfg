SPECIFICATION PartsSpec
CONSTANTS
  o1 = o1
  o2 = o2
  o3 = o3
  o4 = o4
  k1 = k1
  c1 = c1
  c2 = c2
  c3 = c3
  c4 = c4
  d1 = d1
  d2 = d2
  d3 = d3
  e1 = e1
  e2 = e2
  Orders = {o1, o2, o3, o4}
  Clients = {k1}
  Couriers = {c1, c2, c3, c4}
  ORDER_LIST_SIZE = 3
  COURIER_QUEUE_SIZE = 2
  NULL = NULL
  DESTROYED = DESTROYED
  Deliveries = {d1, d2, d3}
  Interrupts = {sigint}
  Caller <- MCCaller
  Files <- MCFiles
  MAX_LATENESS = 2
  Sockets = {s1, s2, s3}
  MAX_CLIENT = 2
  COUNT_MODULUS = 6
  Parsers = {p1, p2}
  MAX_TEXTS = 2
INVARIANTS
  PartsTypeOK
  ReadyDistinct
  QueueConsistent
  CountedRecorded
  CountersInRange
  OrderOfItsOwn
  CountTrue
  CrashesOverfull
  TableOfOpenSockets
  FieldsOwn
  OneCourierPerRequest
PROPERTIES
  OrderMutexReleased
  ImplementsPool
  ImplementsFifo
  OrdersCooked
CHECK_DEADLOCK FALSE
