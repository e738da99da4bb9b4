SPECIFICATION Spec
CONSTANTS
  s1 = s1
  s2 = s2
  NoSocket = NoSocket
  Sockets = {s1, s2}
  CronJobs = {"sync"}
  MaxKey = 1
  MaxRestarts = 1
SYMMETRY SocketSymmetry
INVARIANT TypeOK
INVARIANT OldKeyIsOut
INVARIANT OnlineByCurrentKey
INVARIANT OwnerIsAlive
