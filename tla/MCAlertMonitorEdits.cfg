SPECIFICATION Spec
CONSTANTS
  p1 = p1
  p2 = p2
  Pollers = {p1, p2}
  Rules = {r1}
  r1 = r1
  Cooldown = 1
  MaxTime = 2
  Tokens = {1, 2}
  MaxIncidents = 2
  MaxEdits = 2
  MaxCrashes = 0
SYMMETRY Replicas
INVARIANTS
  OneFiringPerRule
  NoPredatedIncident
PROPERTIES
  FrozenWhileSnoozed
  ActsAsOne
CHECK_DEADLOCK FALSE
