\* No kill, no redis error, no slow message: the code alone.
CONSTANTS
  a = a
  b = b
  c = c
  s1 = s1
  s2 = s2
  p1 = p1
  p2 = p2
  r1 = r1
  r2 = r2
  r3 = r3
  None = None
  Clients = {a, b, c}
  Servers = {s1, s2}
  Paths = {p1}
  Requests = {r1, r2, r3}
  Home <- MCHome
  Fragile = {}
  Pipelined = FALSE
  RedisFails = FALSE
  Prompt = TRUE
SPECIFICATION Spec
SYMMETRY MCSymmetry
INVARIANT OneHolderPerPath
CHECK_DEADLOCK FALSE
