CONSTANTS
    None = None
    MaxGap = 16
    Width <- WidthOf
    LineWidth = 12
    Dynamic = {0}
    NameWidth = 6
    OptionSkip = 2
    Apostrophe = 3
    S = 4
    Originals <- GameScripts
    Translations <- FourTranslations
    Items <- ItemsOfLine
    NameTables <- TwoTables
    Digit = 4
    MaxBlock = 15
    Buffer = 15
    MaxRuns = 2
SPECIFICATION Spec
INVARIANTS
    TypeOK
    TextsFound
    PlayedAsWritten
    DecodedFits
    PlainLinesFit
CHECK_DEADLOCK FALSE
