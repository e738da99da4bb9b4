SPECIFICATION FairSpec
CONSTANTS
  s1 = s1
  s2 = s2
  NoSocket = NoSocket
  Sockets = {s1, s2}
  CronJobs = {"enforce", "sweep"}
  MaxKey = 0
  MaxRestarts = 0
PROPERTY LastingSessionShows
 
