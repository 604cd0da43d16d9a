SPECIFICATION Spec
CONSTANTS
  a = a
  b = b
  c = c
  Packets <- ThreePackets
  Strategies <- OneOfTwo
  LastSlot = 4
  MaxSpan = 3
  Timeout = 3
  Powers = {10000}
  DefaultNoise = 100
  Threshold = 3
  Efficiency = 100
  IsPowerSolvable = FALSE
  TxChoices = {TRUE, FALSE}
SYMMETRY PacketSymmetry
INVARIANTS
  PeelingComplete
  HeardSlotsSolved
  AtMostOnce
  TimersMatchBuffers
  DecodesAllDecodable
  DecodesOnlyDecodable
PROPERTY
  ImplementsDecoder
CHECK_DEADLOCK FALSE
