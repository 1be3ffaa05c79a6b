SPECIFICATION FairSpec
CONSTANTS
  p1 = p1
  p2 = p2
  Pollers = {p1, p2}
  Rules = {r1}
  r1 = r1
  Cooldown = 2
  MaxTime = 2
  Tokens = {1, 2}
  MaxIncidents = 2
  MaxEdits = 0
  MaxCrashes = 2
INVARIANTS
  NothingSkipped
  AppliedSampleDecides
  ClearedByNewerSample
  SuppressionsCounted
PROPERTIES
  SamplesGetApplied
CHECK_DEADLOCK FALSE
