\* A queue that fills up, addresses that wrap, an answer in between, a data
\* frame during a join, an ABP node, a row removed.
SPECIFICATION WrapSpec
CONSTANTS
    Node = {n1, n2}
    MAXQUEUE = 1
    MaxAddr = 2
    AbortLimit = 1
    AbpAddr = {}
    Unlucky = {n2}
    MaxReq = 2
    MaxUplinks = 1
    MaxEdits = 1
INVARIANTS
    TypeOK
    NoLostWakeup
    AddressesDistinct
PROPERTIES
    AnsweredOnce
    RowMatchesAccept
    RequestsLeave
CHECK_DEADLOCK FALSE
