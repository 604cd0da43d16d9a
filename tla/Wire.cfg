SPECIFICATION Spec
CONSTANTS
  Nodes = {1, 257}
  Tids = {4, 6}
  Sizes = {328, 29}
  Strategies <- ThreeOrFour
  Draws <- ByteBoundaries
  QueueSize = 1
  FirstSeqNo = 255
  MaxPackets = 2
INVARIANTS
  StateIsAsSent
  HeaderComesOff
  FragmentsCoverPacket
  TracesAgree
CHECK_DEADLOCK FALSE
