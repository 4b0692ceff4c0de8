SPECIFICATION Spec
CONSTANTS
  MaxConn = 2
  MaxSend = 0
  MaxEmpty = 0
  MaxGen = 2
  AcceptQueue = 1
  QueueLen = 1
  PingTicks = 1
  CfgPings = {TRUE, FALSE}
  LibraryHost = TRUE
CHECK_DEADLOCK FALSE
INVARIANTS
  TypeOK
  TasksMatchFlags
  NoStaleHalt
  LimitOfOpener
  TimeoutReported
  TimeoutOnlyWhenSilent
  RecvClosedIsFinal
