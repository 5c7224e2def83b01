CONSTANTS
  Item = {1, 2}
  NoItem = 0
  InitWindow = 2
  WindowFloor = 1
  IncreaseType = "linear"
  IncreaseFactor = 1
  DecreaseType = "exponential"
  DecreaseFactor = 2
  Change <- Changes2
  Needs <- Independent
  Gated <- AllGated
  Job = {Lint, Unit}
  JobOrder <- TwoJobs
  Above <- Flat
  HoldJobs = {}
  Mutex = {}
  MutexOf <- NoMutexes
  NoMutex = NoMutex
  Layouts <- UnitRetired
  FirstLayout <- AllVoting
  Idle = Idle
  Faults = {}
  MaxFaults = 0
  MaxCommands = 1
  MaxEvents = 2
  A = A
  B = B
  C = C
  Unit = Unit
  Lint = Lint
  Lock = Lock
SPECIFICATION Spec
CHECK_DEADLOCK FALSE
PROPERTIES
  TestedAsMerged
