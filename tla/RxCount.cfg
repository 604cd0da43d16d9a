SPECIFICATION CascadeSpec
CONSTANTS
  a = a
  b = b
  c = c
  Packets <- ThreePackets
  Strategies <- ThreeOrFour
  LastSlot = 7
  MaxSpan = 6
  Timeout = 8
  Powers = {10000}
  DefaultNoise = 100
  Threshold = 3
  Efficiency = 100
  IsPowerSolvable = FALSE
  TxChoices = {FALSE}
INVARIANT
  CountIsFragments
CHECK_DEADLOCK FALSE
