\* CLIENT_TIMEOUT_MS is longer than every delay, and redis, messages and timers
\* are fair; a process may be killed and leave a stale entry.
CONSTANTS
  a = a
  b = b
  c = c
  s1 = s1
  s2 = s2
  p1 = p1
  p2 = p2
  r1 = r1
  r2 = r2
  r3 = r3
  None = None
  Clients = {a, b}
  Servers = {s1, s2}
  Paths = {p1}
  Requests = {r1, r2, r3}
  Home <- MCHomeTwo
  Fragile = {s1}
  Pipelined = FALSE
  RedisFails = FALSE
  Prompt = TRUE
SPECIFICATION FairSpec
INVARIANT AskedHolderKeepsLock
PROPERTY EveryCallAnswered
CHECK_DEADLOCK FALSE
