SPECIFICATION MCSpec
CONSTANTS
  Paths = {a, b}
  None = None
INVARIANT TypeOK
 
INVARIANT LeftOnlyIfHeld
INVARIANT NoKnownOverwrite
CHECK_DEADLOCK FALSE
