SPECIFICATION Spec
CONSTANTS
  u1 = u1
  u2 = u2
  u3 = u3
  e1 = e1
  e2 = e2
  e3 = e3
  p1 = p1
  p2 = p2
  s1 = s1
  s2 = s2
  s3 = s3
  s4 = s4
  r1 = r1
  r2 = r2
  None = None
  Users = {u1, u2}
  Emails = {e1, e2, e3}
  DefaultEmail = e1
  Passwords = {p1, p2}
  Sids = {s1, s2}
  Requests = {r1, r2}
  Ops = {"delete", "update"}
  Payloads <- RolePayloads
  Backend = "sqlite"
  InitialTables <- TwoAdminsTables
INVARIANTS
  AdminRemains
CHECK_DEADLOCK FALSE
