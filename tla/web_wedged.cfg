SPECIFICATION Spec
CONSTANTS
    MaxConns = 2
    MaxPipe = 1
    QueueLen = 1
    EchoRetries = 1
    MaxFails = 0
    FailKinds = {}
    Kills = TRUE
PROPERTY CloseServed
CHECK_DEADLOCK FALSE
