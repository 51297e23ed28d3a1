CONSTANTS
    CacheModes = {TRUE, FALSE}
    AckStatuses = {TRUE}
    ReadSplits = {TRUE, FALSE}
    Tags = {1, 11}
    Throwing = {11}
    SockBuf = 1
    Base = 10
    BufferLimit = 1
SPECIFICATION Spec
INVARIANTS
    TypeOK
    NoSilentLoss
    CachedBeforeSent
    ObsoleteNotResent
PROPERTIES
    ErasedStaysErased
    KeepsItsPromise
