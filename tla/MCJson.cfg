SPECIFICATION JsonSpec
CONSTANTS
  Names <- MCNames
  Values = {v1, v2}
  STARTING_CAPACITY = 2
  HASH_RANGE = 32
  INVALID = INVALID
  ClearedCells = 4
  Ids = {1, 2, 3, 4}
  Scalars = {"null", "true"}
  MemberNames = {"a", "b"}
  Paths <- MCPaths
  Texts <- MCTexts
  NULL = NULL
  Bytes <- MCBytes
  CodePoints <- MCCodePoints
  MaxBytes = 4
  MaxTokens = 7
  MaxOther = 3
INVARIANTS
  JsonTypeOK
  HashTableSound
  TreesSound
  NothingLeaks
  ComparisonsAgree
  TextsKeepMeaning
  StringsInBounds
  EscapesReversible
  Utf8WellFormed
  CommentsIgnored
PROPERTIES
  ImplementsPairs
CHECK_DEADLOCK FALSE
