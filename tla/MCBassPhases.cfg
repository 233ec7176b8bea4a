CONSTANTS
    Names = {"A", "B"}
    Files = {"f", "g"}
    NoFile = "none"
    DefaultTarget = "f"
    Modulus = 16
    MaxLength = 4
    Statements <- AllStatements
SPECIFICATION Spec
CONSTRAINT OneAlphabet
INVARIANTS
    TypeOK
    WriteReplaysQuery
    FileFollowsOrigin
PROPERTY ConstantsSettle
CHECK_DEADLOCK FALSE
