SPECIFICATION Spec
CONSTANTS
    MaxConns = 1
    MaxPipe = 1
    QueueLen = 1
    EchoRetries = 1
    MaxFails = 1
    FailKinds = {"STATUS"}
    Kills = FALSE
INVARIANT TornDownIsClosed
CHECK_DEADLOCK FALSE
