SPECIFICATION Spec
CONSTANTS
  Branches = {main}
  Default = main
  None = None
  MaxTurns = 1
  Objects = {o1}
  Proposals = {p1, p2}
  StoreWrite = FALSE
  StorePrimary = FALSE
  Channels = {"edit"}
  Bases = {1}
SYMMETRY Symmetry
INVARIANTS
  StaleEditRefused
CHECK_DEADLOCK FALSE
