SPECIFICATION FairSpec
CONSTANTS
  d1 = d1
  d2 = d2
  Device <- TwoDevices
  BatchId <- OneBatch
  Removable <- TwoDevices
  ConnectLimit = 1
  OtherLimit = 1
  ConnectWorkers = 1
  DefaultWorkers = 1
  MayStop = FALSE
  MaxUiSeq = 2
PROPERTIES
  EveryTaskLeaves
  UndisturbedBatchCloses
