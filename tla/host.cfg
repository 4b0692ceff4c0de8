SPECIFICATION Spec
CONSTANTS
    Base = 6
    PerMilli = 2
    ResponseLen = 64
    MaxConns = 2
    MaxPipe = 1
    QueueLen = 1
    DmaBuffers = 2
    InBuffers = 1
    MaxFails = 1
    FailKinds = {"CAPS_IN", "STATUS", "CLOSE", "CLOSE_SEND", "IN", "OUT"}
    Pings = {0, 1, 7, 3000}
    Sizes = {0, 1000}
    Intervals = {5}
    Cuts = {0, 9, 11}
INVARIANT TypeOK RecvIsOwn CloseIsLast TornDownIsClosed CapsUnderstood PollsInTime
PROPERTY NoForeignClose ReleasesInterface
CHECK_DEADLOCK FALSE
