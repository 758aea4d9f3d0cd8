\* An honest log and up to two faults of any kind.
CONSTANTS
  a = a
  b = b
  c = c
  x = x
  y = y
  NoRoot = NoRoot
  Empty <- NoLeaves
  Tree <- ForkedTrees
  Size <- SequenceSize
  Prefix <- SequencePrefix
  STHs <- HonestSTHs
  LogTrees <- History
  Crashes = TRUE
  TornWrites = FALSE
  MaxFaults = 2
  MaxScans = 2
  MaxOldChecks = 1
SPECIFICATION FairSpec
PROPERTIES
  UpdateReturns
  PendingIsVerified
