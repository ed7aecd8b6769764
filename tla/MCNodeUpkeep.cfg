CONSTANTS
  Slots <- MCSlots
  Chunks = 2
  MaxRuns = 1
  MaxFaults = 1
  Builds = {1, 2, 3}
  VersionOf <- MCVersionOf
  Labels <- MCLabels
  First = 1
  MaxReleases = 2
  MaxDrops = 1
  MaxRestarts = 1
SPECIFICATION FairSpec
INVARIANTS
  SuccessMeansStored
  RunsOneBuild
PROPERTIES
  EndsUpCurrent
CHECK_DEADLOCK FALSE
