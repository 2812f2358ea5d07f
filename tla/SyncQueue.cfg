SPECIFICATION MCSpec
CONSTANTS
  Paths = {a, b}
  None = None
  Calls = {c1, c2}
  Tasks = {t1, t2}
INVARIANT TypeOK
INVARIANT NothingForgotten
INVARIANT StuckOnlyIfJammed
INVARIANT QueuedOnce
PROPERTY QueueDrains
CHECK_DEADLOCK FALSE
