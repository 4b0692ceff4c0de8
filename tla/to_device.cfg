SPECIFICATION FairSpec
CONSTANTS
  Mps = 2
  TransferPackets = 2
  MaxSize = 6
  Sizes = {0, 1, 2, 4, 5, 6}
  MaxPackets = 3
  QueueLen = 1
  DmaBuffers = 2
  PostedBuffers = 2
CHECK_DEADLOCK FALSE
INVARIANTS
  TypeOK
  CountCoversData
 
PROPERTIES
  ChannelSpec
  EndIsSeen
