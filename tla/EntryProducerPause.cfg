\* The consumer pauses and resumes once.
CONSTANTS
  Start = 0
  End = 4
  BatchSize = 2
  MaxFetchers = 2
  Buffer = 4
  MaxRetries = 1
  Cached <- NoneCached
  MaxErrors = 0
  MaxPauses = 1
SPECIFICATION Spec
INVARIANTS
  InOrderAlways
CHECK_DEADLOCK FALSE
