SPECIFICATION FairSpec
CONSTANTS
  NoOne = NoOne
  Requesters = {r1}
  Daemons = {d1}
  MaxAttempts = 2
  MaxEvents = 1
  MaxTries = 2
  MaxFaults = 1
INVARIANTS
  PayableIsTracked
  OneAtATime
PROPERTIES
  EventSettles
  Converges
CHECK_DEADLOCK FALSE
