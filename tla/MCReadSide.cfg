CONSTANTS
  MaxTime = 5
  MaxRows = 3
  MaxWatched = 2
  Errors <- MCErrors
  Fresh = 2
  GapLimit = 2
  Day = 4
  MaxGaps = 2
  RawSpan = 2
  MaxPoints = 2
  Bucket = 2
  StartOffset = 3
  EndOffset = 1
  Schedule = 1
  Exports = {e1}
  Pool = 1
  Itersize = 1
SPECIFICATION RFairSpec
INVARIANTS
  ReportsTheDevice
  GapsAreSilences
  ChartIsWhole
  ExportIsSnapshot
PROPERTIES
  LiveShowsLatest
CHECK_DEADLOCK FALSE
