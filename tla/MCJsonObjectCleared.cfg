SPECIFICATION ObjectSpec
CONSTANTS
  Names <- MCNames
  Values = {v1, v2}
  STARTING_CAPACITY = 2
  HASH_RANGE = 32
  INVALID = INVALID
  ClearedCells = 4
INVARIANTS
  LookupsDefined
CHECK_DEADLOCK FALSE
