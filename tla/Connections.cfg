SPECIFICATION MCSpec
CONSTANTS
  Managers = {m1, m2}
  Sockets = {s1, s2, s3}
  Tokens = {k1, k2, k3, k4}
  None = None
  Attempts = 1
INVARIANT TypeOK
INVARIANT OneSession
INVARIANT ConnectedHasSocket
INVARIANT NotLockedOut
INVARIANT TokenAdmitsOnce
INVARIANT SessionHasInfo
INVARIANT ShutdownOnce
 
PROPERTY EventuallyConnected
CHECK_DEADLOCK FALSE
