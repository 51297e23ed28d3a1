CONSTANTS
    CacheModes = {TRUE}
    AckStatuses = {FALSE}
    ReadSplits = {FALSE}
    Tags = {1, 11}
    Throwing = {11}
    SockBuf = 1
    Base = 10
    BufferLimit = 1
SPECIFICATION FairSpec
PROPERTIES
    DestructorReturns
    QueueDrains
    CacheDrains
