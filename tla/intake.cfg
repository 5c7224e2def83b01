CONSTANTS
  Number = {1, 2}
  NeedsAtFirst <- MCNeeds
  MaxEvents = 2
  MaxUpsets = 1
  MaxExits = 1
SPECIFICATION Spec
CHECK_DEADLOCK FALSE
INVARIANTS
  NeedsAcyclic
  WholeWhenUsed
  LatestNeeded
  HandledOnce
  OneVersionLive
  QueuesCarryNeeds
  NeverSleepsOnWork
