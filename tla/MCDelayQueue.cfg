\* A clock that passes the range of an unsigned long, and is also set back.
SPECIFICATION Spec
CONSTANTS
    MAXQUEUE = 3
    W = 3
    Delay = 1
    MaxClock = 5
    MaxItems = 6
INVARIANTS
    TypeOK
    InOrder
    LinkedUnlessDisturbed
PROPERTY ImplementsTimedQueue
CHECK_DEADLOCK FALSE
