SPECIFICATION Spec
CONSTANTS
  Targets = 2
  Others = 1
INVARIANT OkMeansDelivered
CHECK_DEADLOCK FALSE
