SPECIFICATION MutableSpec
CONSTANTS
  MaxLeaves = 4
  Updates = 1
  Bits = 1
  IndexBits = 1
  Keys <- NoKeys
  LoggedKeys <- NoKeys
  MaxOps = 0
  MaxCached = 0
INVARIANTS
  CurrentRootIsCurrent
CHECK_DEADLOCK FALSE
