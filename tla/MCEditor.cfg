CONSTANTS
    None = None
    Programs <- TwoPrograms
    Tags <- TheTags
    MaxEdits = 2
    MaxCrashes = 1
    Text <- TheTexts
    Typed <- TypedOf
    Nothing <- BlankOf
    TextsIn <- LoadOf
    ContentsOf <- FormatOf
    Kept <- KeptOf
    Plain <- PlainOf
    Unfit <- SplitsOf
SPECIFICATION Spec
INVARIANTS
    TypeOK
    ResaveKeepsTexts
PROPERTY ImplementsNotebook
CHECK_DEADLOCK FALSE
