SPECIFICATION Spec
CONSTANTS
  b1 = b1
  b2 = b2
  r1 = r1
  r2 = r2
  t1 = t1
  t2 = t2
  m1 = m1
  m2 = m2
  None = None
  Books = {b1, b2}
  Titles = {t1}
  Mimes = {m1}
  Uploads <- UploadSet
  Requests = {r1, r2}
  Ops = {"add"}
  Backend = "sqlite"
  InitialBooks <- NoBooksTables
INVARIANTS
  UniqueTitles
CHECK_DEADLOCK FALSE
