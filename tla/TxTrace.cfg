SPECIFICATION Spec
CONSTANTS
  QueueSize = 1
  N = 2
  SlotTicks = 2
  MaxGap = 1
  MaxOffered = 2
  IdleSlots = 2
INVARIANT
  TraceCountsEnqueued
CHECK_DEADLOCK FALSE
