SPECIFICATION FairSpec
CONSTANTS
  u1 = u1
  b1 = b1
  c1 = c1
  c2 = c2
  c3 = c3
  f1 = f1
  r1 = r1
  r2 = r2
  None = None
  Users = {u1}
  Books = {b1}
  Chapters = {c1, c2, c3}
  Files = {f1}
  Lists <- ListSet
  MaxChunks = 1
  Requests = {r1, r2}
INVARIANTS
  TypeOK
  NumbersUnique
  HistorySound
  FilesSound
PROPERTIES
  ClearForgets
  Answered
