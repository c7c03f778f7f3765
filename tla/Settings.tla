------------------------------ MODULE Settings ------------------------------
(***************************************************************************)
(* The settings of the application and the database it works on: starting, *)
(* stopping, PATCH /settings/ and the requests that write meanwhile.       *)
(*                                                                         *)
(* The same settings live in config.ini, in SettingsManager and, as a      *)
(* connected AsyncDBManager, in app.state.  A PATCH changes all three one  *)
(* after another and awaits in between; a change of backend also copies    *)
(* the data, table by table.  Three tables are kept: users, which is never *)
(* empty once the application has started on a database; books; and the    *)
(* chunks that reference them, which every write changes together.         *)
(***************************************************************************)
EXTENDS Naturals, FiniteSets

CONSTANTS
  Paths,       \* SQLite files
  Server,      \* the PostgreSQL database
  Keys,        \* books, with their chunks
  Managers,    \* AsyncDBManager objects (bound: those alive at one time)
  Requests,    \* requests the server runs at the same time
  Payloads,    \* bodies of PATCH /settings/
  Torn,        \* config.ini truncated by a write that did not finish
  None

Urls == Paths \cup {Server}

\* DatabaseSettings: only what the URL is made of.
Setting == [backend : {"sqlite", "postgres"}, path : Paths]

Payload == [backend : {"sqlite", "postgres"} \cup {None}, path : Paths \cup {None}]

Url(s) == IF s.backend = "sqlite" THEN s.path ELSE Server

\* What the values of the constants must satisfy.
Parameters ==
  /\ None \notin Paths \cup {Server, Torn} \cup Managers \cup Keys \cup Setting \cup {"sqlite", "postgres"}
  /\ Torn \notin Setting
  /\ Server \notin Paths
  /\ Payloads \subseteq Payload

\* `users' tells whether table users has rows.
Database == [users : BOOLEAN, books : SUBSET Keys, chunks : SUBSET Keys]

Steps == {"idle", "write", "remove", "schema", "books", "chunks", "insert", "save",
          "dispose", "publish"}

Tx == [pc     : Steps,
       mgr    : Managers \cup {None},   \* app.state.db_manager as the request found it
       key    : Keys \cup {None},
       old    : Setting \cup {None},    \* settings the PATCH started from
       draft  : Setting \cup {None},
       new    : Managers \cup {None},
       copied : Database]               \* rows read by migrate_to

Empty == [users |-> FALSE, books |-> {}, chunks |-> {}]

Idle == [pc |-> "idle", mgr |-> None, key |-> None, old |-> None, draft |-> None,
         new |-> None, copied |-> Empty]

VARIABLES
  file,      \* config.ini
  memory,    \* SettingsManager._settings
  app,       \* app.state.db_manager; None: the process is not running
  local,     \* db_manager of lifespan
  url,       \* url[m]: the database of manager m
  pooled,    \* managers whose pool holds connections
  data,      \* data[u]: committed rows of database u
  acked,     \* books whose creation was answered and whose deletion was not
  tx         \* tx[r]: the request in slot r

vars == <<file, memory, app, local, url, pooled, data, acked, tx>>

-----------------------------------------------------------------------------
(* Start and stop *)

Init ==
  /\ \E p \in Paths : file = [backend |-> "sqlite", path |-> p]
  /\ memory = file
  /\ \E m \in Managers : app = m /\ local = m /\ url = [n \in Managers |-> Url(file)]
                         /\ pooled = {m}
  /\ data = [u \in Urls |-> [Empty EXCEPT !.users = (u = Url(file))]]
  /\ acked = {}
  /\ tx = [r \in Requests |-> Idle]

AllIdle == \A r \in Requests : tx[r].pc = "idle"

FreshManagers ==
  {m \in Managers \ (pooled \cup {app, local}) :
     \A r \in Requests : m \notin {tx[r].mgr, tx[r].new}}

\* lifespan: the end of the server disposes the manager it started with.
Stop ==
  /\ app # None
  /\ AllIdle
  /\ app' = None
  /\ pooled' = pooled \ {local}
  /\ UNCHANGED <<file, memory, local, url, data, acked, tx>>

Die ==
  /\ app' = None
  /\ pooled' = {}
  /\ tx' = [r \in Requests |-> Idle]
  /\ UNCHANGED <<memory, local, url, data, acked>>

\* The process is killed, perhaps between truncating and writing config.ini.
Crash ==
  /\ app # None
  /\ Die
  /\ \/ file' = file
     \/ (\E r \in Requests : tx[r].pc = "save") /\ file' = Torn

\* A config.ini without its sections stops the start with KeyError.  A
\* database without users gets its first administrator.
Start ==
  /\ app = None
  /\ file # Torn
  /\ memory' = file
  /\ \E m \in Managers : /\ app' = m /\ local' = m /\ pooled' = {m}
                         /\ url' = [url EXCEPT ![m] = Url(file)]
  /\ data' = [data EXCEPT ![Url(file)].users = TRUE]
  /\ UNCHANGED <<file, acked, tx>>

-----------------------------------------------------------------------------
(* Requests that write: the manager is looked up once, at the start *)

Take(r, t) ==
  /\ app # None
  /\ tx[r].pc = "idle"
  /\ tx' = [tx EXCEPT ![r] = t]
  /\ pooled' = pooled \cup {app}
  /\ UNCHANGED <<file, memory, app, local, data, acked>>

Add(r) ==
  /\ \E k \in Keys \ acked :
       /\ \A q \in Requests : tx[q].key # k
       /\ Take(r, [Idle EXCEPT !.pc = "write", !.mgr = app, !.key = k])
  /\ UNCHANGED url

Remove(r) ==
  /\ app # None
  /\ \E k \in data[url[app]].books :
       /\ \A q \in Requests : tx[q].key # k
       /\ Take(r, [Idle EXCEPT !.pc = "remove", !.mgr = app, !.key = k])
  /\ UNCHANGED url

\* The commit, in whatever database the manager belongs to, and the answer.
Finish(r, db, answered) ==
  /\ data' = [data EXCEPT ![url[tx[r].mgr]] = db]
  /\ acked' = answered
  /\ pooled' = pooled \cup {tx[r].mgr}
  /\ tx' = [tx EXCEPT ![r] = Idle]
  /\ UNCHANGED <<file, memory, app, local, url>>

Written(r) ==
  /\ tx[r].pc = "write"
  /\ LET db == data[url[tx[r].mgr]]
     IN Finish(r, [db EXCEPT !.books = @ \cup {tx[r].key}, !.chunks = @ \cup {tx[r].key}],
               acked \cup {tx[r].key})

Removed(r) ==
  /\ tx[r].pc = "remove"
  /\ LET db == data[url[tx[r].mgr]]
     IN Finish(r, [db EXCEPT !.books = @ \ {tx[r].key}, !.chunks = @ \ {tx[r].key}],
               acked \ {tx[r].key})

-----------------------------------------------------------------------------
(* PATCH /settings/ *)

\* _apply_payload
AppliedWhole(s, p) == p   \* fault: a field that is not given overwrites as well

Applied(s, p) == [backend |-> IF p.backend = None THEN s.backend ELSE p.backend,
                  path    |-> IF p.path = None THEN s.path ELSE p.path]

\* update_settings up to its first await.
Patch(r) ==
  \E p \in Payloads, m \in FreshManagers :
    /\ Take(r, [Idle EXCEPT !.pc = "schema", !.mgr = app, !.old = memory,
                            !.draft = Applied(memory, p), !.new = m])
    /\ url' = [url EXCEPT ![m] = Url(Applied(memory, p))]

Go(r, pc) == tx' = [tx EXCEPT ![r].pc = pc]

\* The exception leaves through the dispose of the new manager.
Fail(r) ==
  /\ pooled' = pooled \ {tx[r].new}
  /\ tx' = [tx EXCEPT ![r] = Idle]
  /\ UNCHANGED <<app, local, url, data, acked>>

\* The schema migrator or the copy cannot reach the database.
Error(r) ==
  /\ tx[r].pc \in {"schema", "books", "chunks", "insert"}
  /\ Fail(r)
  /\ UNCHANGED <<file, memory>>

\* run_migrations; migrate_to copies nothing between equal URLs.
Schema(r) ==
  /\ tx[r].pc = "schema"
  /\ Go(r, IF tx[r].old.backend # tx[r].draft.backend /\ url[tx[r].mgr] # url[tx[r].new]
           THEN "books" ELSE "save")
  /\ UNCHANGED <<file, memory, app, local, url, pooled, data, acked>>

\* migrate_to: one SELECT per table, each with a snapshot of its own.
ReadBooks(r) ==
  /\ tx[r].pc = "books"
  /\ tx' = [tx EXCEPT ![r].copied = [data[url[tx[r].mgr]] EXCEPT !.chunks = {}],
                      ![r].pc = "chunks"]
  /\ pooled' = pooled \cup {tx[r].mgr, tx[r].new}
  /\ UNCHANGED <<file, memory, app, local, url, data, acked>>

ReadChunks(r) ==
  /\ tx[r].pc = "chunks"
  /\ tx' = [tx EXCEPT ![r].copied.chunks = data[url[tx[r].mgr]].chunks, ![r].pc = "insert"]
  /\ UNCHANGED <<file, memory, app, local, url, pooled, data, acked>>

\* The target refuses rows it has already and chunks without their book.
RefusedOrphans(rows, db) ==   \* fault: INSERT OR IGNORE
  ~ rows.chunks \subseteq rows.books \cup db.books

Refused(rows, db) ==
  \/ rows.users /\ db.users
  \/ rows.books \cap db.books # {} \/ rows.chunks \cap db.chunks # {}
  \/ ~ rows.chunks \subseteq rows.books \cup db.books

Copy(r) ==
  /\ tx[r].pc = "insert"
  /\ LET target == data[url[tx[r].new]]
         rows == tx[r].copied
     IN IF Refused(rows, target)
        THEN Fail(r)
        ELSE /\ data' = [data EXCEPT ![url[tx[r].new]] =
                           [users |-> target.users \/ rows.users,
                            books |-> target.books \cup rows.books,
                            chunks |-> target.chunks \cup rows.chunks]]
             /\ Go(r, "save")
             /\ UNCHANGED <<app, local, url, pooled, acked>>
  /\ UNCHANGED <<file, memory>>

\* replace_settings and save, no await in between.
Save(r) ==
  /\ tx[r].pc = "save"
  /\ memory' = tx[r].draft
  /\ file' = tx[r].draft
  /\ Go(r, "dispose")
  /\ UNCHANGED <<app, local, url, pooled, data, acked>>

\* config.ini cannot be opened, or the write fails once it is truncated; the
\* settings the PATCH started from are put back.
UnsavedDraft(r) ==   \* fault: the draft stays in memory
  /\ tx[r].pc = "save"
  /\ memory' = tx[r].draft
  /\ file' \in {file, Torn}
  /\ Fail(r)

Unsaved(r) ==
  /\ tx[r].pc = "save"
  /\ memory' = tx[r].old
  /\ file' \in {file, Torn}
  /\ Fail(r)

Dispose(r) ==
  /\ tx[r].pc = "dispose"
  /\ pooled' = pooled \ {tx[r].mgr}
  /\ Go(r, "publish")
  /\ UNCHANGED <<file, memory, app, local, url, data, acked>>

\* The route stores the new manager.
Publish(r) ==
  /\ tx[r].pc = "publish"
  /\ app' = tx[r].new
  /\ tx' = [tx EXCEPT ![r] = Idle]
  /\ UNCHANGED <<file, memory, local, url, pooled, data, acked>>

-----------------------------------------------------------------------------

Next ==
  \/ Stop \/ Crash \/ Start
  \/ \E r \in Requests :
       \/ Add(r) \/ Remove(r) \/ Written(r) \/ Removed(r)
       \/ Patch(r) \/ Schema(r) \/ ReadBooks(r) \/ ReadChunks(r) \/ Copy(r) \/ Save(r)
       \/ Unsaved(r) \/ Dispose(r) \/ Publish(r) \/ Error(r)

Spec == Init /\ [][Next]_vars

-----------------------------------------------------------------------------
(* Properties *)

\* Every variable holds a value of the shape the code gives it.
TypeOK ==
  /\ file \in Setting \cup {Torn}
  /\ memory \in Setting
  /\ app \in Managers \cup {None}
  /\ local \in Managers
  /\ url \in [Managers -> Urls]
  /\ pooled \subseteq Managers
  /\ data \in [Urls -> Database]
  /\ acked \subseteq Keys
  /\ tx \in [Requests -> Tx]

Patching == \E r \in Requests : tx[r].pc \notin {"idle", "write", "remove"}

\* Between two PATCHes the settings in memory (GET /settings/), the file the
\* next start reads and the database requests work on are the same, whatever
\* step of the last PATCH failed.
SettingsAgree ==
  (app # None /\ ~ Patching) =>
    /\ url[app] = Url(memory)
    /\ file \in {memory, Torn}

\* The database that requests use, and the one the next start opens, hold
\* exactly the books that were acknowledged, with their chunks: no change of
\* backend loses, tears or resurrects one.
DataFollows ==
  LET whole(u) == data[u] = [users |-> TRUE, books |-> acked, chunks |-> acked]
  IN ~ Patching => /\ app # None => whole(url[app])
                   /\ file # Torn => whole(Url(file))

\* When the application has stopped its database connections are closed.
ConnectionsClosed == app = None => pooled = {}
=============================================================================
