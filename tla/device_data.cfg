SPECIFICATION Spec
CONSTANTS
  MaxConn = 2
  MaxSend = 1
  MaxEmpty = 1
  MaxGen = 2
  AcceptQueue = 1
  QueueLen = 1
  PingTicks = 1
  CfgPings = {FALSE}
  LibraryHost = TRUE
CHECK_DEADLOCK FALSE
INVARIANTS
  SendsOwnData
  AllMeansAll
  HaltAfterDelivery
