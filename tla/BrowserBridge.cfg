SPECIFICATION Spec
CHECK_DEADLOCK FALSE
CONSTANTS
  c1 = c1
  c2 = c2
  p1 = p1
  NoJob = NoJob
  Calls = {c1, c2}
  Stops = {c2}
  Popups = {p1}
  MaxJobs = 2
  MaxClock = 1
  MaxFaults = 1
INVARIANT AnswerIsOwn
 
 
PROPERTY ConnectionRecovers
PROPERTY EchoEnds
