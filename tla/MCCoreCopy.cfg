SPECIFICATION Spec
CONSTANTS
  Branches = {main}
  Default = main
  None = None
  MaxTurns = 1
  Objects = {o1, o2}
  Proposals = {p1, p2}
  StoreWrite = TRUE
  StorePrimary = TRUE
  Channels = {"edit"}
  Bases = {1}
SYMMETRY Symmetry
PROPERTIES
  MutationKeepsOthers
CHECK_DEADLOCK FALSE
