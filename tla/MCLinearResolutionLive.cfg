SPECIFICATION FairSpec
CONSTANTS
  w1 = w1
  w2 = w2
  e1 = e1
  e2 = e2
  r1 = r1
  r2 = r2
  NoOne = NoOne
  Lost = Lost
  Workers = {w1, w2}
  Events <- OneIncident
  First = e1
  Rules <- OneRule
  RuleOf <- RuleOfAll
  MaxFaults = 2
  MaxOperations = 1
  OutliveLease = TRUE
PROPERTIES
  CleanupFinishes
  DeletionFinishes
CHECK_DEADLOCK FALSE
