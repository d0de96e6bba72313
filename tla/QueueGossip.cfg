SPECIFICATION Spec
CONSTANTS
  s = s
  b = b
  c = c
  u = u
  Nodes <- RingNodes
  Links <- RingLinks
  Aware <- RingAware
  Signer = s
  MaxDrops = 1
INVARIANTS
  TypeOK
  NoneStranded
  QuietIsDelivered
PROPERTIES
  QueueReachesAware
CHECK_DEADLOCK FALSE
