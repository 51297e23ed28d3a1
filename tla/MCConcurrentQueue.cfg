CONSTANTS
    p1 = p1
    p2 = p2
    p3 = p3
    Poppers <- MCPoppers
    MaxSize = 2
    MaxPush = 5
SPECIFICATION Spec
INVARIANTS
    TypeOK
    FifoOrder
    DropsOnlyWhenFull
    NoLostWakeup
PROPERTY ImplementsLossyFifo
CHECK_DEADLOCK FALSE
