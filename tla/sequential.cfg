CONSTANTS
  Item = {1, 2, 3, 4}
  NoItem = 0
  InitWindow = 3
  WindowFloor = 1
  IncreaseType = "linear"
  IncreaseFactor = 1
  DecreaseType = "exponential"
  DecreaseFactor = 2
  MaxWindow = 4
  Meta <- MetaNames
  Matching <- Matches
  Kept = 2
  MaxTime = 2
  Keys = {"x", "y"}
  Inputs <- AllInputs
SPECIFICATION SeqSpec
CHECK_DEADLOCK FALSE
INVARIANTS
  TypeOK
  LinksConsistent
  WalksAgree
  RateLimitKept
  AttributesLastSaid
  TreesMerged
  ListedJobsEnd
  QueuesAreComponents
  MergedInOrder
  WorkspaceAsAsked
  TimesKept
  VotesDecide
