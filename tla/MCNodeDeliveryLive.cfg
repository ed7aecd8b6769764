CONSTANTS
  MaxReadings = 2
  MaxCuts = 1
  StoreCapacity = 2
  WindowCapacity = 1
  Headroom = 0
  SendBuffer = 2
  DrainBatch = 1
  KeepAlive = 1
  Horizon = 5
  ReadPeriod = 1
  RoundTrip = 0
  MaxPass = 1
  MaxFails = 1
SPECIFICATION FairSpec
PROPERTIES
  EventuallyDelivered
