SPECIFICATION Spec
SYMMETRY RequestSymmetry
CONSTANTS
  u1 = u1
  NoUser = NoUser
  NoTransfer = NoTransfer
  t1 = t1
  h1 = h1
  h2 = h2
  c1 = c1
  k1 = k1
  Users = {u1}
  Transfers = {t1}
  Hooks = {h1, h2}
  Checkouts = {c1}
  Checks = {k1}
  Window = 2
  Ttl = 1
  Duration = 2
  AdminExpiries = {0}
  MaxPayments = 1
  MaxTime = 0
  MaxFaults = 0
  MaxCrashes = 0
INVARIANT CreditedOnce
