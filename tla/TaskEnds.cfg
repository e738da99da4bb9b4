SPECIFICATION FairSpec
CONSTANTS
  c1 = c1
  c2 = c2
  t1 = t1
  Tasks = {t1}
  Unresolvable = {}
  Clients = {c1, c2}
  Concurrency = 1
  Attempts = 1
  Outcomes = {"COMPLETED"}
  Permits = 1
  MaxJobs = 1
  MaxRuns = 1
  MaxRetries = 0
  MaxCrashes = 0
 
PROPERTY JobsSettle
