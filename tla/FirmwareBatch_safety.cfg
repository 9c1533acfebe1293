SPECIFICATION FairSpec
CONSTANTS
  d1 = d1
  d2 = d2
  Device <- TwoDevices
  MaxJobs = 3
  Parallelism = 1
  Interval = 1
  Timeout = 2
  MaxAttempts = 2
  Faulty <- FirstDevice
  MayStop = TRUE
INVARIANTS
  TypeOK
  AttemptsWithinMaximum
  OneJobPerDevice
PROPERTIES
  FollowsFlow
  UnaskedOnlyBehindRaise
  EveryJobGetsVerdict
CHECK_DEADLOCK FALSE
