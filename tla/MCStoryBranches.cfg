SPECIFICATION FairSpec
CONSTANTS
  Branches = {main, b1}
  Default = main
  None = None
  MaxTurns = 5
  Requests = {r1}
  NoRequest = NoRequest
  Replies = {}
INVARIANTS
  DurableHeadIsFrontier
  DurableAnchorIsLatestSettled
PROPERTIES
  NarrativeOnlyCutByRollback
  RollbackCutsAtTarget
  ImplementsLedger
  WriteLockReleased
CHECK_DEADLOCK FALSE
