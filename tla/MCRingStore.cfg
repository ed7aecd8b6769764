CONSTANTS
  Capacity = 3
  PerFile = 2
  MaxPushes = 5
  FsMayTear = TRUE
SPECIFICATION Spec
INVARIANTS
  NoBlankQueued
  Durable
PROPERTIES
  LossIsCounted
  ImplementsQueue
