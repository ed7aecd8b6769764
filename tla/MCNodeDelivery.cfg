CONSTANTS
  MaxReadings = 3
  MaxCuts = 1
  StoreCapacity = 2
  WindowCapacity = 2
  Headroom = 1
  SendBuffer = 2
  DrainBatch = 2
  KeepAlive = 1
  Horizon = 5
  ReadPeriod = 6
  RoundTrip = 0
  MaxPass = 1
  MaxFails = 0
SPECIFICATION Spec
INVARIANTS
  
  HeadroomSuffices
PROPERTIES
  FirstSentInOrder
  KeepsStoreContract
