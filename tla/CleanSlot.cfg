SPECIFICATION Spec
CONSTANTS
  States = {p1, p2, p3, p4}
  Powers = {300, 700, 2000, 9000}
  Noises = {100, 250}
  Threshold = 3
  Efficiencies = {90, 98, 100}
INVARIANTS
  CleanIsOrderFree
CHECK_DEADLOCK FALSE
