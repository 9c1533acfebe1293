SPECIFICATION Spec
CONSTANTS
  Cameras = 2
  Top = 2
  Overlap = 1
INVARIANTS
  TypeOK
  OrdersComplete
  JobIsShown
PROPERTIES
  FillFollowsOrder
