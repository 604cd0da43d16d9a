SPECIFICATION Spec
CONSTANTS
  a = a
  b = b
  c = c
  Packets <- ThreePackets
  Strategies <- Mixed
  LastSlot = 3
  MaxSpan = 2
  Timeout = 3
  Powers = {10000, 2500}
  DefaultNoise = 100
  Threshold = 3
  Efficiency = 95
  IsPowerSolvable = TRUE
  TxChoices = {FALSE}
INVARIANTS
  TypeOK
  PeelingComplete
  AtMostOnce
PROPERTY
  SolverTerminates
CHECK_DEADLOCK FALSE
