CONSTANTS
    s1 = s1
    s2 = s2
    r1 = r1
    Senders <- MCSenders
    Readers <- MCReaders
    Stopper = Stopper
    NoOne = NoOne
    MsgLen = 2
    SockBuf = 1
SPECIFICATION FairSpec
PROPERTY AllThreadsCanBeStopped
CHECK_DEADLOCK FALSE
