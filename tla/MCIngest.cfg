CONSTANTS
  Process = {p1}
  Kinds = {"reading", "sample"}
  Boots = 2
  MaxTaken = 3
  MaxHanded = 3
  MaxTime = 1
  MaxCrashes = 1
  Tolerance = 0
  ClockErrors <- MCFast
  MaxStrange = 1
SPECIFICATION Spec
INVARIANTS
  KeptOnce
  AnchoredShape
  ParsedIsTaken
PROPERTIES
  ArrivalIsLastResort
CHECK_DEADLOCK FALSE
