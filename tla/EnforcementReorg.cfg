SPECIFICATION Spec
CONSTANTS
  s1 = s1
  s2 = s2
  Devops = Devops
  NoPayee = NoPayee
  Scripts <- MCScripts
  Supply <- MCSupply
  Floor = 3
  NoSpork = NoSpork
  Sporks <- MCSporks
  VotedHeights = {2, 3}
  ScanDepth = 2
  MaxOrphans = 1
  MaxHeight = 3
  MaxBlocks = 3
  MaxCrashes = 1
PROPERTY
  ReorgBlocksWereChecked
