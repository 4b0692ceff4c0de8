SPECIFICATION FairSpec
CONSTANTS
  Mps = 2
  TransferPackets = 2
  MaxSize = 8
  Sizes = {0, 1, 2, 4, 5, 8}
  MaxPackets = 2
  QueueLen = 1
  DmaBuffers = 2
CHECK_DEADLOCK FALSE
INVARIANTS
  TypeOK
PROPERTIES
  ChannelSpec
  EndIsSeen
