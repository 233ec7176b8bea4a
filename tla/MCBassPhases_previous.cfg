CONSTANTS
    Names = {"A", "B"}
    Files = {"f", "g"}
    NoFile = "none"
    DefaultTarget = "f"
    Modulus = 16
    MaxLength = 4
    Statements <- LayoutStatements
SPECIFICATION Spec
PROPERTY PreviousValuesUsed
CHECK_DEADLOCK FALSE
