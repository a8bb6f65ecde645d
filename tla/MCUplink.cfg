\* Counters that wrap, a join, a row removed, foreign frames.
SPECIFICATION FairSpec
CONSTANTS
    Node = {n1}
    W = 4
    MaxBatch = 2
    MaxFcnt = 5
    MaxFrames = 2
    MaxUp = 2
    MaxJoins = 1
    MaxEdits = 1
INVARIANT TypeOK
PROPERTIES InWindowAccepted PassedOnOnce AheadExplained MainReturns
CHECK_DEADLOCK FALSE
