SPECIFICATION Spec
CONSTANTS
  NameCount = 3
  CachedNames = 2
  Players = 1
  Keys <- MCKeys
  Defaults <- MCDefaults
  Width <- MCWidth
  Kerning <- MCKerning
  MaxKeys = 2
INVARIANTS TypeOK CacheFresh SameEncoding DrawnWhole
PROPERTY ImplementsNameBook
CHECK_DEADLOCK FALSE
