SPECIFICATION MCSpec
CONSTANTS
  s1 = s1
  s2 = s2
  Syncs <- MCSyncs
  Size = 2
  Undefined = Undefined
  None = None
  Times = {1, 2}
  Edits <- MCEdits
  MaxLen = 4
SYMMETRY SyncSymmetry
CHECK_DEADLOCK FALSE
INVARIANT ChangesAreInCopy
