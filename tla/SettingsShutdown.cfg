SPECIFICATION Spec
CONSTANTS
  p1 = p1
  Server = Server
  k1 = k1
  k2 = k2
  m1 = m1
  m2 = m2
  m3 = m3
  r1 = r1
  r2 = r2
  Torn = Torn
  None = None
  Paths = {p1}
  Keys = {k1, k2}
  Managers = {m1, m2}
  Requests = {r1}
  Payloads <- BackendPayloads
INVARIANTS
  ConnectionsClosed
CHECK_DEADLOCK FALSE
