SPECIFICATION Spec
CONSTANTS
  Senders = {f1, f2}
  Rates <- CsaRates
  Bits = {8, 1000, 2400, 2407, 12000, 39735}
  Strategies <- ScriptStrategies
  FirstS = 2
  StackOverhead = 28
  PropDelays = {0, 1001}
  HandDowns = {0, 500000}
  MaxGap = 1
SYMMETRY FragSymmetry
INVARIANTS
  NotCrossingSlots
  NoLateArrival
  SolverSeesAll
CHECK_DEADLOCK FALSE
