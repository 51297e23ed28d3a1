CONSTANTS
    c1 = c1
    c2 = c2
    k1 = k1
    k2 = k2
    k3 = k3
    small = small
    big = big
    malformed = malformed
    sourceless = sourceless
    NoChunk = NoChunk
    Callers <- MCCallers
    Chunks <- MCChunks
    Records <- MCRecords
    RecordsOf <- MCRecordsOf
    Malformed <- MCMalformed
    TooLarge <- MCTooLarge
    Sourceless <- MCSourceless
    CacheModes = {TRUE, FALSE}
    AckStatuses = {TRUE}
    ReadSplits = {FALSE}
    Tags = {1, 2, 3}
    CacheItems = 2
    Throwing = {}
    SockBuf = 1
    Base = 10
SPECIFICATION PluginSpec
CONSTRAINT FewItems
SYMMETRY Threads
INVARIANTS
    PluginTypeOK
    TypeOK
    AcceptedIsKept
    RefusedNotKept
    CachedBeforeSent
    WrittenIsKept
    RecordsInOrder
    RepeatedOnlyAfterFailure
PROPERTIES
    ErasedStaysErased
    KeepsItsPromise
CHECK_DEADLOCK FALSE
