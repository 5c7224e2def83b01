CONSTANTS
  b0 = b0
  b1 = b1
  b2 = b2
  Unit = Unit
  Docs = Docs
  noop = noop
  Build = {b0, b1, b2}
  Job = {Unit, Docs, noop}
  JobOf <- NoopThenUnits
  Noop = noop
  MaxUpsets = 1
  Node = {n1}
  NoNode = NoNode
  Configs <- TwoConfigs
  FirstConfig <- Both
  Offline = {}
  Commands = {"graceful"}
  MaxCommands = 1
  MaxAssigned = 1
  Faults = {}
  MaxFaults = 1
SPECIFICATION FairCalmSpec
CHECK_DEADLOCK FALSE
PROPERTIES
  StopsAreTaken
