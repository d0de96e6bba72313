SPECIFICATION Spec
CONSTANTS
  Threads <- MCThreads
  Kind <- MCKind
  MaxDepth = 3
INVARIANTS
  TypeOK
  TrackerNotInCycle
  OnlyKnownCycles
CHECK_DEADLOCK FALSE
