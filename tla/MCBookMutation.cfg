CONSTANTS
  p1 = p1
  p2 = p2
  p3 = p3
  NoPath = NoPath
  Paths <- ThreePaths
  MaxFaults = 4
  MaxCalls = 4
SPECIFICATION FairSpec
INVARIANTS OneJournal PresenceSound
PROPERTIES ResumeIsSafe PendingFinishes
