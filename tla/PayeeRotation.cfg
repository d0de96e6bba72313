SPECIFICATION Spec
CONSTANTS
  NumMasternodes = 3
  Nobody = Nobody
  QueueLength = 4
  ReferenceLag = 3
  EligibilityDepth = 1
  FirstHeight = 4
  MaxHeight = 8
INVARIANTS
  TypeOK
  NoRepeatBeforeAll
  NobodyStarves
PROPERTIES
  QueuesShift
CHECK_DEADLOCK FALSE
