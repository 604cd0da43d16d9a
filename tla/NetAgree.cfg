SPECIFICATION Spec
CONSTANTS
  a = a
  b = b
  c = c
  d = d
  Nodes <- FourNodes
  Talkers <- ThreeNodes
  vo = vo
  vi = vi
  Tids = {vo}
  Strategies <- OneOfTwo
  Ranges <- NearOrWeakB
  QueueSize = 1
  Timeout = 3
  MaxGap = 1
  MaxPackets = 1
  MaxTotal = 3
  LastEnqueue = 1
SYMMETRY SameTalkers
INVARIANTS
  HearsAllButOwnSlots
  ReceiversAgree
PROPERTY
  EveryReceiverIsDecoder
CHECK_DEADLOCK FALSE
