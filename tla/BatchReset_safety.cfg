SPECIFICATION FairSpec
CONSTANTS
  Targets = 3
  Seeds = 2
INVARIANTS
  TypeOK
  EveryCameraAnswered
PROPERTIES
  KeepsPromise
  StopStopsResets
  Returns
CHECK_DEADLOCK FALSE
