SPECIFICATION FairSpec
CONSTANTS
  Places = 2
  VerifyTries = 2
  HomeTries = 2
  MaxFaults = 2
INVARIANTS
  TypeOK
  SuccessOpensCamera
  NoLossWithoutFault
  FoundAfterMissedProbe
PROPERTIES
  OnlyDefaultPasswordChanges
  Returns
CHECK_DEADLOCK FALSE
