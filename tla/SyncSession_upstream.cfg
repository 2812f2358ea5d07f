\* One client hangs up, abandons a sync, is closed by the server, is missed by a
\* send or sends a diff that throws; each browser sends one SYNC at a time.
CONSTANTS
  Clients = {c1, c2}
  Paths = {p1}
  Calls = {r1, r2, r3}
  Talks = {main}
  Main = main
  MayDouble = {}
  MaySpoil = {c1}
  MayMiss = {c1}
  None = None
  MayHangUp = {c1}
  MayShutdown = {c1}
  MayAbandon = {c1}
SPECIFICATION FairSpec
PROPERTY StepsAnswered
PROPERTY CloseCompletes
CHECK_DEADLOCK FALSE
