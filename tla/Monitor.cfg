\* A log that forks, shrinks and reuses timestamps; crashes and failed writes.
CONSTANTS
  a = a
  b = b
  c = c
  x = x
  y = y
  NoRoot = NoRoot
  Empty <- NoLeaves
  Tree <- ForkedTrees
  Size <- SequenceSize
  Prefix <- SequencePrefix
  STHs <- ForkedSTHs
  LogTrees <- ForkedTrees
  Crashes = TRUE
  TornWrites = FALSE
  MaxFaults = 2
  MaxScans = 2
  MaxOldChecks = 1
SPECIFICATION Spec
INVARIANTS
  TypeOK
  PendingAhead
  VerifiedTreeConsistent
  VerifiesWholeTree
  AdoptedIsRecorded
PROPERTIES
  NeverRewinds
