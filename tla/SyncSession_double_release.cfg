\* A client hangs up while its patch runs.
CONSTANTS
  Clients = {c1, c2}
  Paths = {p1}
  Calls = {r1, r2}
  Talks = {main}
  Main = main
  MayDouble = {}
  MaySpoil = {}
  MayMiss = {}
  None = None
  MayHangUp = {c1}
  MayShutdown = {}
  MayAbandon = {}
SPECIFICATION Spec
INVARIANT WaitingCloseFinishes
CHECK_DEADLOCK FALSE
