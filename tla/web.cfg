SPECIFICATION Spec
CONSTANTS
    MaxConns = 2
    MaxPipe = 1
    QueueLen = 1
    EchoRetries = 2
    MaxFails = 1
    FailKinds = {"CAPS", "CLOSE"}
    Kills = TRUE
INVARIANT TypeOK FirstDataIsOwn CloseIsLast EndIsReported
PROPERTY NoForeignClose DroppedFreesInterface
CHECK_DEADLOCK FALSE
