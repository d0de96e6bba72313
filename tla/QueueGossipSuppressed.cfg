SPECIFICATION Spec
CONSTANTS
  s = s
  b = b
  c = c
  u = u
  Nodes <- LineNodes
  Links <- LineLinks
  Aware <- LineAware
  Signer = s
  MaxDrops = 0
PROPERTIES
  NotSuppressed
CHECK_DEADLOCK FALSE
