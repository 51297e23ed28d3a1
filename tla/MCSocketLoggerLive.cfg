CONSTANTS
    c1 = c1
    Callers = {c1}
    CacheModes = {TRUE, FALSE}
    AckStatuses = {TRUE, FALSE}
    ReadSplits = {FALSE}
    Tags = {1, 2}
    Throwing = {}
    SockBuf = 1
    Base = 10
SPECIFICATION FairSpec
INVARIANT AcceptedIsKept
PROPERTIES
    CallReturns
    CacheDrains
