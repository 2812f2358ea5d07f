\* Calls of one client may overlap, so that a process may fault; redis errors.
CONSTANTS
  a = a
  b = b
  c = c
  s1 = s1
  s2 = s2
  p1 = p1
  p2 = p2
  r1 = r1
  r2 = r2
  r3 = r3
  None = None
  Clients = {a, b}
  Servers = {s1, s2}
  Paths = {p1}
  Requests = {r1, r2, r3}
  Home <- MCHomeTwo
  Fragile = {}
  Pipelined = TRUE
  RedisFails = TRUE
  Prompt = FALSE
SPECIFICATION Spec
SYMMETRY MCSymmetry
PROPERTY ImplementsLockService
CHECK_DEADLOCK FALSE
