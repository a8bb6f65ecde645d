\* Any region and any offset, before, between and after the two reads.
SPECIFICATION RateSpec
CONSTANTS
    Garbage = {0, 64, 255}
    MaxCmds = 3
INVARIANTS
    ApplyIsRegional
    SentAsHeardOrFaster
