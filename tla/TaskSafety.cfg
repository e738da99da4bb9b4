SPECIFICATION Spec
CONSTANTS
  c1 = c1
  c2 = c2
  t1 = t1
  Tasks = {t1}
  Unresolvable = {t1}
  Clients = {c1}
  Concurrency = 1
  Attempts = 1
  Outcomes = {"COMPLETED"}
  Permits = 2
  MaxJobs = 2
  MaxRuns = 2
  MaxRetries = 1
  MaxCrashes = 1
SYMMETRY ClientSymmetry
INVARIANT TypeOK
INVARIANT RunningAccounted
INVARIANT NoMissedResult
INVARIANT HandleIsLive
 
 
