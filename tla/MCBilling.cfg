SPECIFICATION Spec
CONSTANTS
  NoOne = NoOne
  Requesters = {r1}
  Daemons = {d1, d2}
  MaxAttempts = 1
  MaxEvents = 2
  MaxTries = 2
  MaxFaults = 1
SYMMETRY Symmetry
INVARIANTS
  TypeOK
  ProcessedIsApplied
PROPERTIES
  NeverBackwards
CHECK_DEADLOCK FALSE
