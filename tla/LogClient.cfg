CONSTANTS
  Fetches <- MCFetches
  Hosts = {"a"}
  HostOf <- MCHostOf
  Kind <- MCKind
  After <- MCAfter
  MaxIdle = 0

SPECIFICATION FairSpec

INVARIANTS
  OneOwner
  CleanupOnce
  StateIsFree
  AnsweredOnce

PROPERTIES
  Answered

CHECK_DEADLOCK FALSE
