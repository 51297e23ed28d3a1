CONSTANTS
    CacheModes = {TRUE}
    AckStatuses = {TRUE}
    ReadSplits = {TRUE, FALSE}
    Tags = {1, 11}
    Throwing = {}
    SockBuf = 1
    Base = 10
    BufferLimit = 1
SPECIFICATION Spec
INVARIANTS
    KeptUntilAckedOrTimedOut
