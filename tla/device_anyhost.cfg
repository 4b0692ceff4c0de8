SPECIFICATION Spec
CONSTANTS
  MaxConn = 2
  MaxSend = 1
  MaxEmpty = 0
  MaxGen = 1
  AcceptQueue = 1
  QueueLen = 1
  PingTicks = 1
  CfgPings = {FALSE}
  LibraryHost = FALSE
CHECK_DEADLOCK FALSE
INVARIANTS
  NoSelfDeadlock
  ReceivesOwnData
