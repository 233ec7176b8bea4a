SPECIFICATION Spec
CONSTANTS
  Pairs <- MCPairs
  Others <- MCOthers
  Half = 4
  Limit = 4
  Threshold = 1
  Damages = {0, 6}
  Junk = {0, 5}
  MaxFaults = 1
  MaxRuns = 2
  None = None
  NoCall = NoCall
INVARIANTS TypeOK SuffixesOrdered MatchesLongest FactorsLongest ReplaysTarget DamageNoticed FilesWhole
PROPERTIES RunsEnd
CHECK_DEADLOCK FALSE
