SPECIFICATION FairSpec
CONSTANTS
  Devices = 5
  MultiChannel = {2, 5}
  Tiles = 2
  MaxClicks = 4
  MaxFaults = 2
INVARIANTS
  TypeOK
  WantedIsWatched
  IdleIsSilent
  TilesShowPlan
PROPERTIES
  PlaysInTheEnd
CHECK_DEADLOCK FALSE
