CONSTANTS
    Names = {"m", "n", "s", "a", "b"}
    Programs <- ControlPrograms
    MaxLength = 6
    MaxStray = 3
    MaxDepth = 3
SPECIFICATION FairSpec
INVARIANTS
    TypeOK
    StacksMatchText
    OneBranch
PROPERTIES
    ArgumentsMeant
    CallerReads
    Terminates
CHECK_DEADLOCK FALSE
