\* Two requests are queued and the send of the first is aborted.
SPECIFICATION Spec
CONSTANTS
    Node = {n1, n2}
    MAXQUEUE = 2
    MaxAddr = 2
    AbortLimit = 1
    AbpAddr = {}
    Unlucky = {}
    MaxReq = 2
    MaxUplinks = 0
    MaxEdits = 0
PROPERTY AbortDropsItsOwn
CHECK_DEADLOCK FALSE
