SPECIFICATION FairSpec
CONSTANTS
  c1 = c1
  c2 = c2
  s1 = s1
  s2 = s2
  NoCall = NoCall
  Calls = {c1, c2}
  Sockets = {s1, s2}
  MaxFaults = 1
  MaxRestarts = 1
 
INVARIANT RemoteTells
PROPERTY CallsEnd
