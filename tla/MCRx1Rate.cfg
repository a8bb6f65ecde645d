\* One command, or none.
SPECIFICATION RateSpec
CONSTANTS
    Garbage = {0}
    MaxCmds = 2
INVARIANT RateIsComputed
