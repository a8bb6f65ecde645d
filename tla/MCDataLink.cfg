\* Two times the connection breaks or is not made, one answer to a heartbeat is late.
SPECIFICATION FairSpec
CONSTANTS
    IdMod = 2
    MaxFaults = 2
    MaxLate = 1
INVARIANTS
    TypeOK
    CarryBounded
PROPERTIES
    SendsOnConnection
    OwnCloseRecognised
    Recovers
CHECK_DEADLOCK FALSE
