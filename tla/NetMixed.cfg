SPECIFICATION MixedSpec
CONSTANTS
  a = a
  b = b
  c = c
  d = d
  Nodes <- ThreeNodes
  Talkers <- TwoNodes
  vo = vo
  vi = vi
  Tids = {vo, vi}
  Strategies <- Mixed
  Ranges <- NearOrFar
  QueueSize = 1
  Timeout = 3
  MaxGap = 1
  MaxPackets = 2
  MaxTotal = 2
  LastEnqueue = 5
SYMMETRY SameTids
INVARIANTS
  TypeOK
  PsrAtMostOne
  UndisturbedIsDelivered
PROPERTIES
  EverySenderIsSender
  EveryReceiverIsDecoder
CHECK_DEADLOCK FALSE
