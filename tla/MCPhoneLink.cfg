CONSTANTS
  Hosts <- MCHosts
  LocalHosts <- MCLocalHosts
  MaxMessages = 1
  MaxChanges = 2
  BatchLimit = 2
SPECIFICATION FairSpec
INVARIANTS
  TriedByRank
  SilentIsOverlooked
  ChangeEndsBackoff
PROPERTIES
  EventuallySent
