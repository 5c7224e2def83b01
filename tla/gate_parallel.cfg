CONSTANTS
  Item = {1, 2, 3}
  NoItem = 0
  InitWindow = 3
  WindowFloor = 1
  IncreaseType = "linear"
  IncreaseFactor = 1
  DecreaseType = "exponential"
  DecreaseFactor = 2
  Change <- Changes3
  Needs <- Independent
  Gated <- AllGated
  Job = {Unit}
  JobOrder <- OneJob
  Above <- Flat
  HoldJobs = {}
  Mutex = {}
  MutexOf <- NoMutexes
  NoMutex = NoMutex
  Layouts <- JustThis
  FirstLayout <- AllVoting
  Idle = Idle
  Faults = {}
  MaxFaults = 0
  MaxCommands = 0
  MaxEvents = 3
  A = A
  B = B
  C = C
  Unit = Unit
  Lint = Lint
  Lock = Lock
SPECIFICATION Spec
CHECK_DEADLOCK FALSE
INVARIANTS
  TypeOK
  LinksConsistent
PROPERTIES
  TestedAsMerged
  LaunchedAsPrepared
  RestartsJustified
  ImplementsIdeal
