CONSTANTS
  MaxMessages = 5
  MaxKills = 1
  Capacity = 1
  BatchLimit = 2
  MaxAcks = 1
  DiskFills = TRUE
  ServiceStops = TRUE
SPECIFICATION FairSpec
INVARIANTS
  AtLeastOnce
  LossIsCounted
  StaysBounded
PROPERTIES
  OldestFirst
  EventuallyReceived
CHECK_DEADLOCK FALSE
