\* Two commands, or reconnections, of any kind.
SPECIFICATION FairSpec
CONSTANT MaxCmds = 2
INVARIANTS
    TypeOK
    FilesTakeEffect
PROPERTY SxAnswered
\* A file that a killed process left empty ends every process that reads it.
CHECK_DEADLOCK FALSE
