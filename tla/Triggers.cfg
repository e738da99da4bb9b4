SPECIFICATION FairSpec
CONSTANTS
  c1 = c1
  c2 = c2
  Calls = {c1, c2}
  Every = 2
  MaxTime = 3
  MaxDeliveries = 2
  MaxEdits = 1
  MaxFaults = 1
  MaxCrashes = 1
INVARIANT RunsBounded
 
INVARIANT HistoryTells
PROPERTY DueRuns
