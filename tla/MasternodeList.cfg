SPECIFICATION LiveSpec
CONSTANTS
  o = o
  a = a
  b = b
  Nodes = {a, b}
  Owner = o
  Links <- MCLinks
  Addresses = {x, y}
  NoEntry = NoEntry
  MinEntry = 1
  MinPing = 1
  PingWindow = 2
  Expiration = 3
  Removal = 4
  MaxEntries = 2
  MaxFaults = 2
INVARIANTS
  TypeOK
  OldAddressDiesOut
PROPERTIES
  GhostsDie
  RunningIsListed
