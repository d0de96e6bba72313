SPECIFICATION Spec
CONSTANTS
  m1 = m1
  m2 = m2
  m3 = m3
  a = a
  b = b
  NoPayee = NoPayee
  NoQueue = NoQueue
  Masternodes <- MCMasternodes
  Payees <- MCPayees
  ListsAt <- TwoViews
  Removable = {m3}
  SideBlocks = {m3}
  MaxHeight = 1
  MaxTip = 1
  MaxTime = 1
  QueueLength = 1
  PastHorizon = 0
  ReorgBuffer = 1
  CommitBuffer = 1
  TimeWindow = 0
  MinEnabled = 2
  ThresholdNum = 3
  ThresholdDen = 5
INVARIANTS
  TypeOK
  NoSplitWithoutResigning
SYMMETRY MCSymmetry
