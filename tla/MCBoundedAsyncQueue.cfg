SPECIFICATION Spec
CONSTANTS
  MaxInFlight = 2
  MaxQueueDepth = 2
  MaxOffers = 6
  MaxEpochs = 2
INVARIANTS
  SlotsAreCounted
  NoIdleSlot
  StartedInOrder
CHECK_DEADLOCK FALSE
