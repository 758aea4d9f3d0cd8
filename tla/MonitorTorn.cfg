\* An honest log and a write that is cut short.
CONSTANTS
  a = a
  b = b
  c = c
  x = x
  y = y
  NoRoot = NoRoot
  Empty <- NoLeaves
  Tree <- ForkedTrees
  Size <- SequenceSize
  Prefix <- SequencePrefix
  STHs <- HonestSTHs
  LogTrees <- History
  Crashes = TRUE
  TornWrites = TRUE
  MaxFaults = 2
  MaxScans = 1
  MaxOldChecks = 1
SPECIFICATION Spec
PROPERTIES
  NeverRewinds
CHECK_DEADLOCK FALSE
