SPECIFICATION Spec
CONSTANTS
  k1 = k1
  k2 = k2
  Clients <- TwoClients
  WRITE_SIZE = 10
  MESSAGE_SIZE = 5
  SERVICE = 3
  FIELDS = 4
  TEXT = 5
  MAX_REQUESTS <- TwoOne
INVARIANTS ServerStaysUp
CHECK_DEADLOCK FALSE
