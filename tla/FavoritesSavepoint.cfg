SPECIFICATION Spec
CONSTANTS
  u1 = u1
  u2 = u2
  b1 = b1
  b2 = b2
  r1 = r1
  r2 = r2
  r3 = r3
  None = None
  Users = {u1}
  Books = {b1}
  Requests = {r1, r2}
  Backend = "sqlite"
INVARIANTS
  ChangesLogged
