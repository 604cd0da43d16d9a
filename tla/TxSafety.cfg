SPECIFICATION Spec
CONSTANTS
  QueueSize = 2
  N = 3
  SlotTicks = 2
  MaxGap = 1
  MaxOffered = 3
  IdleSlots = 2
INVARIANTS
  TypeOK
  WakeUpSafe
  OneFragmentPerSlot
  ScheduleSafe
  SentInHeaderSlot
  SeqNoIdentifiesPacket
  TxFlagExact
PROPERTIES
  AcceptedIsSent
  ImplementsSender
CHECK_DEADLOCK FALSE
