SPECIFICATION Spec
CONSTANTS
  a = a
  b = b
  c = c
  Packets <- ThreePackets
  Strategies <- TwoOfThree
  LastSlot = 7
  MaxSpan = 4
  Timeout = 5
  Powers = {10000}
  DefaultNoise = 100
  Threshold = 3
  Efficiency = 100
  IsPowerSolvable = FALSE
  TxChoices = {FALSE}
SYMMETRY PacketSymmetry
INVARIANTS
  PeelingComplete
  DecodesAllDecodable
CHECK_DEADLOCK FALSE
