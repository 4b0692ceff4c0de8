SPECIFICATION FairSpec
CONSTANTS
  MaxConn = 1
  MaxSend = 1
  MaxEmpty = 0
  MaxGen = 2
  AcceptQueue = 1
  QueueLen = 1
  PingTicks = 1
  CfgPings = {TRUE}
  LibraryHost = TRUE
CHECK_DEADLOCK FALSE
PROPERTIES
  GoneHostDetected
  CloseSendCompletes
