\* Three clients on two processes contend for one path, one call each at a
\* time; one of the processes may be killed.
CONSTANTS
  a = a
  b = b
  c = c
  s1 = s1
  s2 = s2
  p1 = p1
  p2 = p2
  r1 = r1
  r2 = r2
  r3 = r3
  None = None
  Clients = {a, b, c}
  Servers = {s1, s2}
  Paths = {p1}
  Requests = {r1, r2, r3}
  Home <- MCHome
  Fragile = {s1}
  Pipelined = FALSE
  RedisFails = FALSE
  Prompt = FALSE
SPECIFICATION Spec
SYMMETRY MCSymmetry
INVARIANTS
  TypeOK
  ExclusiveUntilTakeover
  EntryNamesHolder
  NoFault
  AnsweredOnce
  HoldersBoundedByTakeovers
CHECK_DEADLOCK FALSE
