SPECIFICATION Spec
CONSTANTS
  MaxToolRounds = 2
  MaxChunks = 2
  MaxRounds = 2
  MaxCalls = 2
  MaxRuns = 2
  MaxEdits = 1
  MaxWrites = 1
  Slots = {1, 2}
  LineLimit = 2
  Discussions <- SomeDiscussions
  RawWindow <- SomeWindow
  servers = {s1}
  requests = {r1, r2}
  ids = {i1, i2}
  boot = boot
  stop = stop
  none = none
  world = world
  plot = plot
  foundation = foundation
  Steps = {foundation}
  Stages <- SomeStages
  LegacyStep <- SomeLegacyStep
  NeedsDraft = {}
  NeedsCommit = {foundation}
  EntrySteps = {foundation}
  BlueprintStep = blueprint
  AssetSteps = {foundation}
  MaxRevision = 1
  MaxCommits = 2
INVARIANTS
  TypeOK
  FinishIsHonest
  OneAnswer
  SummaryIsOfItsTurn
PROPERTIES
  OneVerdict
  WorkspaceIsSound
  AnsweredAndStopped
  StalledStreamEnds
CHECK_DEADLOCK FALSE
