CONSTANTS
  MaxMessages = 4
  MaxKills = 0
  Capacity = 2
  BatchLimit = 2
  MaxAcks = 2
  DiskFills = FALSE
  ServiceStops = FALSE
SPECIFICATION Spec
INVARIANT LossIsCounted
CHECK_DEADLOCK FALSE
