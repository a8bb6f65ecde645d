\* Answers whole and in parts, others in between, pieces of any length.
SPECIFICATION DataSpec
CONSTANTS
    Shape <- MCShape
    Uplinked <- MCUplinked
    Garbage <- MCGarbage
    Size = 16
    LenMod = 20
    MaxAnswers = 2
    MaxOther = 1
    MaxUplinks = 2
INVARIANTS
    DataTypeOK
    Delivered
CHECK_DEADLOCK FALSE
