\* Two uplinks, answers, class A and class C data, a join, a busy data base.
SPECIFICATION FairSpec
CONSTANTS
    Node = {n1}
    Tiny = {}
    MAXTASK = 1
    MAXDATA = 1
    MaxUp = 2
    MaxPacket = 1
    MaxJoins = 1
    MaxInputs = 3
INVARIANTS
    EveryTaskHasToken
    AnsweredOnce
    CounterReuseExplained
PROPERTY TasksLeave
CHECK_DEADLOCK FALSE
