SPECIFICATION Spec
CONSTANTS
  NoOne = NoOne
  Requesters = {r1, r2}
  Daemons = {}
  MaxAttempts = 2
  MaxEvents = 2
  MaxTries = 1
  MaxFaults = 0
INVARIANT
  OneLiveSubscription
CHECK_DEADLOCK FALSE
