SPECIFICATION Spec
CHECK_DEADLOCK FALSE
CONSTANTS
  e1 = e1
  e2 = e2
  r1 = r1
  r2 = r2
  r3 = r3
  b1 = b1
  t1 = t1
  t2 = t2
  NoToken = NoToken
  NoEmail = NoEmail
  Emails = {e1, e2}
  Requests = {r1, r2, r3}
  MaxAttempts = 1
  MaxAgents = 1
  Browsers = {b1}
  Tabs = {t1, t2}
  BrowserOf <- TabBrowser
  MaxClock = 2
  MaxFaults = 1
SYMMETRY Symmetry
INVARIANT GuessesCounted
INVARIANT TrialNotLost
 
 
INVARIANT RotationLeavesNone
