SPECIFICATION FairSpec
CONSTANTS
  k1 = k1
  k2 = k2
  Clients <- TwoClients
  WRITE_SIZE = 10
  MESSAGE_SIZE = 5
  SERVICE = 3
  FIELDS = 4
  TEXT = 5
  MAX_REQUESTS <- TwoOne
INVARIANTS ConnTypeOK BuffersOwned FullReadsKeepRequests
PROPERTIES HandledInOrder RequestsHandled
\* all clients may be gone, or the process has ended
CHECK_DEADLOCK FALSE
