\* An honest log, two faults that are not crashes.
CONSTANTS
  a = a
  b = b
  c = c
  x = x
  y = y
  NoRoot = NoRoot
  Empty <- NoLeaves
  Tree <- ForkedTrees
  Size <- SequenceSize
  Prefix <- SequencePrefix
  STHs <- HonestSTHs
  LogTrees <- History
  Crashes = FALSE
  TornWrites = FALSE
  MaxFaults = 2
  MaxScans = 2
  MaxOldChecks = 1
SPECIFICATION Spec
INVARIANTS
  QuietMeansReported
