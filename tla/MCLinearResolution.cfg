SPECIFICATION Spec
CONSTANTS
  w1 = w1
  w2 = w2
  e1 = e1
  e2 = e2
  r1 = r1
  r2 = r2
  NoOne = NoOne
  Lost = Lost
  Workers = {w1, w2}
  Events <- TwoIncidents
  First = e1
  Rules <- TwoRules
  RuleOf <- RuleOfEach
  MaxFaults = 1
  MaxOperations = 0
  OutliveLease = TRUE
SYMMETRY Replicas
INVARIANTS
  TypeOK
  CleanupNotLost
  CompletedHasComment
  OneCommentPerLink
CHECK_DEADLOCK FALSE
