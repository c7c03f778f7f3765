SPECIFICATION FairSpec
CONSTANTS
  b1 = b1
  b2 = b2
  r1 = r1
  r2 = r2
  t1 = t1
  t2 = t2
  m1 = m1
  m2 = m2
  None = None
  Books = {b1}
  Titles = {t1}
  Mimes = {m1}
  Uploads <- SomeUploadSet
  Requests = {r1, r2}
  Ops = {"add", "put", "patch", "delete"}
  Backend = "postgresql"
  InitialBooks <- NoBooksTables
INVARIANTS
  TypeOK
  NoOrphans
PROPERTIES
  ContentsRefined
  Answered
CHECK_DEADLOCK FALSE
