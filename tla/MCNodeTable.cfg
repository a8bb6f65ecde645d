\* Two commands of either process and two writes of the forwarder.
SPECIFICATION Spec
CONSTANTS
    Conn <- MCConn
    Eui = {e1, e2}
    e1 = e1
    e2 = e2
    Addr = {1}
    KEYS = 1
    CHANNELS = 3
    PKG = 1
    MaxRows = 1
    Garbage = {0, 1}
    MaxCmds = 2
    MaxStores = 2
INVARIANTS
    TypeOK
    OneRowPerNode
    LocksInPlace
    SuccessIsStored
    EveryNodeListed
CHECK_DEADLOCK FALSE
