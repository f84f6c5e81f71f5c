SPECIFICATION MemorySpec
CONSTANTS
  Branches = {main, side}
  Trunk = main
  Nobody = nobody
  MaxTurns = 3
  MaxAssets = 3
INVARIANTS
  SourceOnEveryBranch
CHECK_DEADLOCK FALSE
