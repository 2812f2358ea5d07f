\* The second client sends a SYNC while one is pending; the first may do all
\* else that goes wrong.
CONSTANTS
  Clients = {c1, c2}
  Paths = {p1, p2}
  Calls = {r1, r2, r3}
  Talks = {main, again}
  Main = main
  MayDouble = {c2}
  MaySpoil = {c1}
  MayMiss = {c1}
  None = None
  MayHangUp = {c1, c2}
  MayShutdown = {c1}
  MayAbandon = {c1}
SPECIFICATION Spec
SYMMETRY MCSymmetry
INVARIANT TypeOK
INVARIANT PatchUnderLock
 
INVARIANT CloseWaitsForPatch
INVARIANT ReleaserStillHolds
INVARIANT FaultHasCause
CHECK_DEADLOCK FALSE
