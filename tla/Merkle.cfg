SPECIFICATION Spec
CONSTANTS
  MaxLeaves = 7
  Updates = 0
  Bits = 4
  IndexBits = 3
  Keys <- SharedPrefixes
  LoggedKeys <- ThreeKeys
  MaxOps = 4
  MaxCached = 3
INVARIANTS
  TypeOK
  AnswersRight
  CompactRight
  ClientRight
  PathsVerified
  ConsistencyVerified
  NoFalseAlarm
  ForkRejected
  MapRight
  DatabaseRight
  DatabaseLogRight
CHECK_DEADLOCK FALSE
