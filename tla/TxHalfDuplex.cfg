SPECIFICATION Spec
CONSTANTS
  QueueSize = 2
  N = 2
  SlotTicks = 2
  MaxGap = 1
  MaxOffered = 2
  IdleSlots = 2
INVARIANT
  HalfDuplex
CHECK_DEADLOCK FALSE
