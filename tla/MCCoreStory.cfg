SPECIFICATION ToldSpec
CONSTANTS
  Branches = {main, b1}
  Default = main
  None = None
  MaxTurns = 3
  Objects = {o1}
  Proposals = {p1, p2}
  StoreWrite = TRUE
  StorePrimary = FALSE
  Channels = {"edit", "review", "block"}
  Bases = {1}
SYMMETRY Symmetry
INVARIANTS
  Inv
  AppliedIsWhole
  MergedOnBase
  ReadsOnlyItsPast
PROPERTIES
  HistoryAppendOnly
  ReadingIsStable
  ToldAsItIs
CHECK_DEADLOCK FALSE
