SPECIFICATION MCSpec
CONSTANTS
  m1 = m1
  u1 = u1
  s1 = s1
  s2 = s2
  t1 = t1
  t2 = t2
  a1 = a1
  None = None
  Backend = "postgresql"
  Paths = {p1}
  Server = Server
  BookKeys = {k1, k2}
  Managers = {m1, m2}
  SettingsRequests = {r1}
  Payloads <- BackendPayloads
  Torn = Torn
  Readers = {v1, v2}
  Books = {b1}
  FavoriteRequests = {q1, q2, q3}
  Users = {u1}
  Sockets = {s1, s2}
  Requests = {r1, r2}
  UserOf <- OneUser
  PoolSize = 3
  BroadcastConcurrency = 1
  KeyPairs = {k1, k2, k3}
  Missing = Missing
  Ids = {1, 2, 3}
  Times = {1, 2}
  Limits = {1, 2}
  Targets = {t1, t2}
  Addresses = {a1}
  LoginRequests = {r1, r2}
  Limit <- ThrottleLimits
  Window = 2
  Media = {"multipart", "urlencoded", "json"}
  Form = "multipart"
  BodyLimit <- BodyLimits
  FileKinds = {"cover", "book_file"}
  MaxBytes <- FileLimits
  Frame = 1
  ChunkSize = 2
  Lengths = {1, 3, 5, 6}
  MaxMessage = 2
  MaxBody = 6
INVARIANTS
  TypeOK
  SettingsAgree
  DataFollows
  ChangesLogged
  BooksKnown
  SomeoneGoesOn
  NoGhosts
  Reachable
  Informed
  NoLeak
  KeysAgree
  NoneTwice
  NoneMissed
  CountsTheWindow
  OvershootBounded
  WithinLimit
  StoredWhole
  AcceptedUpToLimit
PROPERTIES
  Alternate
  ChangesRefined
  SendingGoesOn
  Served
CHECK_DEADLOCK FALSE
