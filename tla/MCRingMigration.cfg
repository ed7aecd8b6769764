CONSTANTS
  Capacity = 5
  PerFile = 2
  MaxCuts = 2
  MaxFails = 2
SPECIFICATION MSpec
CHECK_DEADLOCK FALSE
INVARIANT MigratedOrEmpty
