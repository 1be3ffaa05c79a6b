SPECIFICATION FairSpec
CONSTANTS
  w2 = w2
  w1 = w1
  e1 = e1
  linear = linear
  NoOne = NoOne
  Workers = {w1, w2}
  Events <- OneIncident
  Deliveries <- OnlyLinear
  EventOf <- EventOfLinear
  Linear <- OnlyLinear
  Tracked <- OnlyLinear
  MaxFaults = 2
  MaxResets = 1
  OutliveLease = TRUE
INVARIANTS
  ResentForCause
  CleanupIsQueued
PROPERTIES
  KeepsPromise
  EveryRowSettles
  CleanupFinishes
CHECK_DEADLOCK FALSE
