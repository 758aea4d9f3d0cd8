\* A task with a child and a grandchild, one callback and one hold for each.
CONSTANTS
  root = root
  child = child
  leaf = leaf
  NoTask = NoTask
  Tasks <- Chain
  Parent <- ChainParent
  Callbacks = {"cb"}
  MaxHolds = 1
SPECIFICATION FairSpec
INVARIANTS
  TypeOK
  HoldsExact
  CallbacksBeforeDone
  CancelReachesChildren
PROPERTIES
  ImplementsTaskTree
  TasksFinish
CHECK_DEADLOCK FALSE
