CONSTANTS
  Process = {p1, p2}
  Rules <- MCTwo
  MaxChanges = 2
  MaxFails = 1
  MaxDrops = 1
  MaxCrashes = 1
  MaxAway = 1
SPECIFICATION FairSpec
INVARIANTS
  RecordComesFirst
  ShownIsRecord
PROPERTIES
  OnlyThresholds
  EventuallyShown
CHECK_DEADLOCK FALSE
