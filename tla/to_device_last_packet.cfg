SPECIFICATION Spec
CONSTANTS
  Mps = 2
  TransferPackets = 2
  MaxSize = 6
  Sizes = {0, 4}
  MaxPackets = 1
  QueueLen = 1
  DmaBuffers = 2
  PostedBuffers = 2
CHECK_DEADLOCK FALSE
INVARIANTS
  AllExpectedReceived
