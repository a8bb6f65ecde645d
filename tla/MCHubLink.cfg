\* Two connections that break or are not made or exits, a late answer, a refused
\* authentication, a command.
SPECIFICATION FairSpec
CONSTANTS
    IdMod = 2
    MaxFaults = 2
    MaxLate = 1
    MaxNo = 1
    MaxCmds = 1
    MaxDepth = 1
INVARIANT TypeOK
PROPERTIES
    OnlyLateReconnects
    StartsAccepted
    Listens
\* Where locking again blocks, every thread may hang in ReconnectWith_Server.
CHECK_DEADLOCK FALSE
