SPECIFICATION Spec
CONSTANTS
  m1 = m1
  m2 = m2
  a = a
  b = b
  NoPayee = NoPayee
  NoQueue = NoQueue
  Masternodes <- MCMasternodes
  Payees <- MCPayees
  Self = m1
  Wire <- MCWire
  OwnLists <- MCOwnLists
  MaxHeight = 3
  MaxTip = 2
  MaxTime = 1
  QueueLength = 1
  PastHorizon = 1
  ReorgBuffer = 1
  CommitBuffer = 1
  TimeWindow = 1
  MinEnabled = 1
  ThresholdNum = 3
  ThresholdDen = 5
INVARIANTS
  TypeOK
  IndexInLockstep
  PruningKeepsUp
  StoredIsAnnounced
PROPERTIES
  NewerWins
  ImplementsStore
