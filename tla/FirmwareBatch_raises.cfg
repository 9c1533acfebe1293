SPECIFICATION Spec
CONSTANTS
  d1 = d1
  d2 = d2
  Device <- TwoDevices
  MaxJobs = 2
  Parallelism = 1
  Interval = 1
  Timeout = 2
  MaxAttempts = 2
  Faulty <- FirstDevice
  MayStop = FALSE
PROPERTIES
  AskedBeforeGivenUp
CHECK_DEADLOCK FALSE
