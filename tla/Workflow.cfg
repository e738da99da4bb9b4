SPECIFICATION FairSpec
CHECK_DEADLOCK FALSE
CONSTANTS
  a = a
  b = b
  c = c
  d = d
  Steps = {a, b, c, d}
  Trigger = Trigger
  Graphs <- MCGraphs
  MaxFaults = 2
INVARIANT SettledIsOver
INVARIANT KeysUnique
 
PROPERTY RunEnds
PROPERTY RefinesNet
