SPECIFICATION Spec
CONSTANTS
  first = first
  second = second
  f1 = f1
  f2 = f2
  Fields = {f1, f2}
  Configs <- SomeConfigs
  Governs <- SomeGovern
  Patched = {f1}
  MaxValue = 2
  MaxDefaults = 1
  MaxSnapshots = 4
  MaxProfileTurns = 2
  Beats = 2
  MaxChapters = 2
  MaxChapterTurns = 6
  Plans <- AnyPlans
  Clients = {"c1", "c2"}
  Prompts = {"p1", "p2"}
  MaxBatches = 2
  MaxItems = 1
  Texts = {first, second}
  BlocksOf <- SomeBlocks
  MaxRemarks = 2
  MaxRequests = 1
  MaxAdoptions = 1
  MaxReview = 5
  Branches = {trunk, side}
  Trunk = trunk
  Nobody = nobody
  MaxTurns = 3
  MaxAssets = 3
  objects = {o1, o2}
  proposals = {p1, p2}
INVARIANTS
  TypeOK
  ChangesAddUp
PROPERTIES
  ProfilesStand
  ProgressIsEffective
  ReviewIsFaithful
  NothingSaidIsLost
  MemoryIsSound
  GraphIsSound
  RetrievalIsAccounted
CHECK_DEADLOCK FALSE
