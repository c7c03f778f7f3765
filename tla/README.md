# API Manager Books in TLA+

API Manager Books (`src/README.md`) is a FastAPI service that keeps books, their
covers and files, chapters, favourites and reading progress in SQLite or
PostgreSQL, for users with roles and sessions.  This directory holds TLA+
modules of its core, the TLC configurations that check them on small instances,
and TLAPS proofs of what matters most for instances of every size.

    tlc -config AccountsSessions.cfg MCAccounts      # one run
    tlapm AccountsProofs.tla                         # the proofs: every *Proofs.tla

## 1. The system

| Part | State | Operations | Interacts with | What makes it correct |
|---|---|---|---|---|
| Accounts (`user_service.py`, `user_repository.py`, `utils.py`) | table `users`: email, password hash, role, one session and refresh-token hash per row | log in, refresh, log out, add, delete, update | every request authenticates against it; writes the log; sends `re_login` messages | a token a client holds is live or dead for ever; rights change with the session; the last administrator and the default user are looked after; every change is logged |
| Books (`book_service.py`, `book_file_service.py`, `book_repository.py`) | table `books`; chunk tables of covers and files | add, rename, upload, delete, list, stream | favourites, chapters and progress cascade from a book; broadcasts | the chunk rows of a book are those of one upload; the row tells their size and number; no orphans |
| Favourites (`favorite_service.py`) | table `favorite_books` | add, remove | books, log | the log tells the real changes; rows only of existing books |
| Chapters and their files, reading progress | tables `book_chapters`, chapter files and chunks, `reading_progress` | add, update, read a chapter, upload and delete files, clear the history, list | books, log | one chapter per number; files with all their chunks; progress only of existing chapters; a clear forgets; pages complete and in order |
| Settings (`settings_service.py`, `config.py`, `manager.py`, `api.py`) | `config.ini`, settings in memory, the database manager in `app.state` | start, stop, change the settings (and copy the data) | every request takes its database from it | the three agree; acknowledged data is in the database in use |
| Notifications (`websocket/manager.py`, `websocket.py`) | open connections per user; the pool of database connections | connect, disconnect, send, broadcast | books and accounts call it inside their transaction; an open socket keeps a database connection | messages reach the connections that were open; none is lost from the table; a slow client holds nobody up for ever |
| Lists page by page (`book_repository.py`, `reading_progress_repository.py`) | the client's cursor | first page, next page | books and progress come and go | a row that stays is shown once |
| Throttle (`auth_throttle.py`) | times of failures per key | check, record, clear | log in, refresh | a key over its limit is refused for one window |
| Upload and body limits (`request_body_limit.py`, `upload_policy.py`) | counters per request | receive, read, stop | uploads | no body over its limit reaches the parser; a file is stored whole or not at all |
| Keys and certificates (`jwt_keys.py`) | key files | create when missing | tokens | both files of one pair |
| Log of actions, migrations, password rules, scripts | | | | |

All handlers are coroutines of one event loop.  One request is one database
session and one transaction (`api/dependencies.py`: `get_session` with
`scope="function"`), committed after the path function returned and before the
response leaves.  Between two statements any other request may run.  That is
where the hard behaviour is:

- *stale snapshots*: the ORM session keeps objects as they were loaded, compares
  with them and writes only the columns that differ (`update_user`,
  `update_book`);
- *check, then write* without a constraint behind it (last administrator, title
  and author, default user);
- *several statements for one fact* (chunk rows and their totals, a change and
  its log entry, password and session), with failures and crashes in between;
- *locks*: PostgreSQL locks rows, SQLite the database; a foreign key makes a log
  entry or a chunk row lock another row; circles of waits are broken by the
  deadlock detector;
- *state read before an await and used after it* (settings, database manager).

`PROJECT.json` lists these hazards with their lines.

## 2. How requests are modelled

The modules with transactions (`Accounts`, `BookStore`, `Favorites`, `Reading`)
share one scheme.  `tx[r]` is the request in slot `r`: its program counter `pc` names the
next SQL statement, the other fields are what the service method has in hand.
Each statement is one action; between two of them any other request may take a
step.  Variables named after tables are the committed rows; `work`, `inserted`,
`deleted` and `dropped` are uncommitted changes, visible to their request only.
`Commit` is the only action that changes committed rows (with the one exception
below); `Rollback` stands for every exception; `DbError` may end a request at
any statement (lost connection, `busy_timeout`, crash of the server).

The behaviour of the databases is not in this repository and is modelled from
how the code uses it (marked external in `PROJECT.json`):

- a statement sees the latest committed rows and the writes of its own
  transaction.  This is READ COMMITTED, the default on PostgreSQL.  On SQLite
  the driver begins the transaction at the first write, so reads before it see
  the latest commit as well, and after it nobody else can write;
- PostgreSQL: a write locks its row; inserting waits for an uncommitted row with
  the same unique key; a row that references another (foreign key) shares the
  key lock of that row and so waits for, and holds up, its deletion;
  `DeadlockVictim` rolls back a member of a circle of waits.  A DELETE that
  waited deletes only what it had seen when it began and is still there;
- SQLite: one write lock; and a SAVEPOINT opened before any write is the
  transaction itself, so that its RELEASE commits (the exception above, in
  `Favorites`).

`Backend` chooses between the two (in `Paging` too, where it decides how times
compare).  `Reading` is about PostgreSQL alone: with one
write lock, SQLite runs a subset of its orders.

## 3. The modules

**`Accounts`** models every request of `/users` that writes.  `Login`,
`Refresh`, `Logout`, `AddUser`, `DeleteUser` and `UpdateUser` are the arrivals
(authentication and first read); `Find`, `Count`, `Unique`, `Default`, `Insert`,
`Update`, `Clear`, `Store`, `Log`, `Drop` are the statements of
`UserService`/`UserRepository` in the order the methods run them.  `snap` is the
object in the identity map.  A session and its refresh token are one name
(`Sids`); both live in the same row and change together.  `delivered` is what
clients have received; `gone` and `retired` remember what must not come back.
Requests refused before their first write change nothing and are left out, as
are expiry and the throttle.  `SessionLife` is the abstract promise about
sessions that `Accounts` implements (`Sessions!Spec`).

**`BookStore`** models `/books`: adding a book with a cover, uploading a cover,
renaming, deleting.  The chunk rows are pairs of index and size.  `Wipe` and
`Wiped` are the two ends of `_delete_chunks` (what the statement saw, what it
deleted once its waits were over); `Store` is `_store_chunks`; `Meta` computes
the columns `_replace_cover` sets and `Flush` writes those that differ from
`snap`.  The file of a book is written by the same code over columns and a chunk
table of its own, so the model has the cover only.  `ContentStore` is the
abstract promise: a book has the whole content of one upload, or nothing.

**`Favorites`** models adding and removing favourites and the deletion of a book
with its cascade.  `last` is the newest log entry about a user and a book.
`FavoriteLog` is the abstract promise: a favourite and its log entry change in one
step, a book takes its favourites along in one, and nothing else happens to them
(`ChangesRefined`).  `SomeoneGoesOn` says which requests the locks hold up
(`LocksFree` for the statement each is at, `Referencing` for the foreign key), so it
needs no ENABLED and can be proved.

**`Reading`** models chapters, chapter files and the reading history, that is every
writing request under `/books/{id}/chapters` and `/books/{id}/history`, and the
deletion of the book they all cascade from.  Five tables take part, so here they
are one set `db` of rows, and what the ORM models declare does the work: `Keys`
(primary keys and unique constraints) and `Parents` (foreign keys) decide what a
statement waits for (`Blockers`), when it fails (`Refused`) and what a deletion
takes along (`Cascade`, one level of tables per step).  `ask` is what a request was
sent for, `tx` how far it is.  `FindBook` and `FindChapter` are the first reads;
`InsertChapter` is one row of `create_chapters`; `MarkRead` the upsert of
`mark_chapter_read`; `Count`, `Erase` and `Erased` the clearing of a history (the
DELETE in two, as in `BookStore`); `StoreFile` and `Fill` the two flushes of
`create_file`; `Belongs`, `DeleteChunks` and `DropFile` those of `delete_file`.
Texts, names, sizes in bytes, `read_at` and the log entry are left out.  A refused
upload is a `DbError`; a PATCH that changes nothing only reads and is left out.  A
new primary key is any unused one, always the same (`CHOOSE`), since no property
tells two of them apart.

**`Settings`** models `PATCH /settings/` (one action per await: `Schema`,
`ReadBooks`, `ReadChunks`, `Copy`, `Save`, `Dispose`, `Publish`), the start, stop
and crash of the application, and requests that add and remove books meanwhile
(here one commit each: what counts is in which database it lands).  `file`,
`memory` and `app` are the three places where the settings live.  Table `users`
is represented because it is never empty, so that a second copy into the same
database fails, as in the code.  Payloads change the backend or nothing that is
part of the URL; a new SQLite path alone copies nothing by design
(`tests/application/test_settings_service.py`) and is left out.  The first
administrator's credentials are assumed to be in the environment.

**`Notifications`** models the WebSocket endpoint (`Dial`, `Authenticate`, `Accept`,
`Close`), the requests that send (`Send`, `StartSend`, `Sent`, `SendFails`,
`Gathered`), the clients (which read, stall, read again or vanish) and the pool of
database connections that sockets, requests and downloads share.  `active` is
`active_connections`, `phase[s]` what the endpoint of socket `s` awaits, `req[r]` the
request in slot `r` with the sockets it copied from the table and what became of
each, `held[x]` the connections session `x` has checked out.  `get_current_user_from_ws`
is a dependency, so the session of an open socket keeps its connection until the
endpoint returns; a download (`LookUp`, then a second `Connect`) gives its first
connection back before it takes the next.  `PoolTimeout` and `Restart` are the pool's
timeout and the end of the process.  Three kinds of request stand for all:
`announce` (broadcast), `tell` (`send_to_user`) and `download`; what they do in the
database is in the other modules.

**`Paging`** models a list read page by page with a keyset cursor: the books by time of
creation and the read chapters by time of reading, whose statements have one form.
`After` is the WHERE of the cursor, `IsPage` the ORDER BY and LIMIT, and rows
`Appear`, `Vanish` and `Move` between two pages, also with a time before that of rows
already shown (a transaction commits later than its `now()`).

**`AuthThrottle`** models `check`, `record_failure` and `clear` as `login` and `refresh`
call them, around their await of the database.  A recorded time is kept as its age;
`Tick` makes all of them one older.  `failures[k][a]` counts, beside the code and
without ever removing anything but what `clear` forgets, the failures of key `k` that
are of age `a` or less; the properties compare the two.

**`Uploads`** follows one upload from its headers to its commit: the declared length,
the messages counted by `limited_receive`, the form, the policy and the loop of
`iter_upload_chunks_with_policy` inside the repository's loop over its chunks.

**`KeyFiles`** models `ensure_jwt_keys`: two files written one after the other, with a
kill between and inside the writes, and the tokens that were signed before it.

**`Parts`** composes `Settings`, `Favorites`, `Notifications`, `KeyFiles`, `Paging`,
`AuthThrottle` and `Uploads`: seven parts of one process that share no state, so
that a step of the server is a step of one of them and leaves the other six alone.
Its properties are those of its parts.  Each part keeps its own restart, which allows
more than the process does, where one restart is one of all.  `Accounts`, `BookStore` and
`Reading` are about transactions of the same database on tables of their own and
are checked alone.

`MC*` modules hold the instances.  In `MCParts` the variable `part` picks the part
that moves in a behaviour and the others stay in an initial state, so the numbers of
states add up and do not multiply; every behaviour of it is one of `Parts`.

What the constants of the parts must satisfy is the operator `Parameters` of each.
It is an operator and no ASSUME because TLC does not evaluate the assumptions of
an instance: `MCParts` assumes the `Parameters` of `Parts`, which are all seven of
them, of the values it checks, and the theorems have them as their assumption.

## 4. The runs

| Run | Question | Instance |
|---|---|---|
| `AccountsSessions` | Do tokens, sessions and rights survive every interleaving of log in, refresh, log out and update?  `TokenSafety`, `SessionsRefined`, `RightsChangeRevokes`, `NoCollateralChange`, `Audited` | PostgreSQL, 2 requests at a time, an administrator and a user, 3 sessions; symmetry of requests and unused sessions |
| `AccountsRace` | Default user, and waits: `DefaultStandsAlone`, `Answered` (fair) | PostgreSQL, 2 requests, 3 users, from a fresh installation and from two administrators |
| `AccountsLastAdmin` | Finding: the last administrator can be removed | SQLite, 2 requests |
| `BookStoreContents` | Are the bytes of a book always those of one upload, without orphans, and is every request answered?  `ContentsRefined`, `NoOrphans`, `Answered` (fair) | PostgreSQL, 2 requests, 1 book, uploads of one and of two chunks |
| `BookStoreTorn` | Finding: size and number of chunks of another upload | SQLite, 2 requests |
| `BookStoreTitles` | Finding: two books with one title and author | SQLite, 2 requests |
| `FavoritesSavepoint` | Finding: a favourite without its log entry | SQLite, 2 requests |
| `ReadingHistory` | Do numbers, history and files stay consistent while the book may go at any step, does a clear forget, is every request answered?  `NumbersUnique`, `HistorySound`, `FilesSound`, `ClearForgets`, `Answered` (fair) | PostgreSQL, 2 requests, 1 user, 1 book, 3 chapter keys, 1 file, lists of one and of two chapters and the two refused ones, files of 0 and 1 chunk |
| `ServerParts` | Seven questions at once, one per part, over `Parts`, whose variables have their types (`TypeOK`): do settings, file and database agree and is no book lost, whatever step of a request fails (`SettingsAgree`, `DataFollows`); does the log tell exactly the real changes of favourites (`ChangesLogged`, `Alternate`, `ChangesRefined`, `BooksKnown`), and can one of them always go on (`SomeoneGoesOn`); is the table of sockets right, does every socket get its message and every request its answer (`NoGhosts`, `Reachable`, `Informed`, `NoLeak`, `SendingGoesOn`, `Served`, fair); do keys survive a kill (`KeysAgree`); do pages miss or repeat nothing (`NoneTwice`, `NoneMissed`); does the throttle count its window (`CountsTheWindow`, `OvershootBounded`); are limits and uploads exact (`WithinLimit`, `StoredWhole`, `AcceptedUpToLimit`) | see below |
| `SettingsShutdown` | Finding: the stop leaves the manager in use open | 1 request at a time, 2 books, 2 managers |
| `SettingsLostWrite` | Finding: a book added during the copy is lost | 2 requests |
| `PagingCursor` | Finding: on SQLite a page begins with the book the last one ended with | SQLite, 2 books of one time, pages of one |

The instances of `ServerParts`:

| Part | Instance |
|---|---|
| `Settings` | 1 path, 2 books, 2 managers, 1 request at a time, either backend or none in the payload |
| `Favorites` | PostgreSQL, 2 users, 1 book, 3 requests |
| `Notifications` | 1 user, 2 sockets, 2 requests, a pool of 3, one send at a time |
| `KeyFiles` | 3 key pairs |
| `Paging` | PostgreSQL, 3 rows, 2 times, pages of 1 and of 2, both directions |
| `AuthThrottle` | 2 targets (limits 2 and 1), 1 address (limit 3), a window of 2, 2 requests |
| `Uploads` | limits of the body 5, 2 and none, of the files 2 and 5; declared lengths 1, 3, 5, 6 or none; messages of at most 2, bodies of at most 6, chunks of 2 |

**Bounds.**  Two overlapping requests show every pairwise race, and the slots are
reused, so a third request may commit between two statements of the first; the
interference of three at once is in the favourites of `ServerParts`.  Uploads of one and of two
chunks with the same total size are the smallest that can be mixed up in number
but not in size.  Three sessions allow a session to be replaced, the new one to
be replaced again, and the first to come back if it could.  In `AccountsRace` no
payload carries the email `default@default.ru`: an administrator who adds a user
under that name by hand makes a default user of it, and the code then removes it
with the next administrator; the property is about the user of a fresh
installation whose `INITIAL_ADMIN_EMAIL` is that address (`bootstrap/admin.py:21`); with
any other there is no default user, and the start from two administrators is that case.  `DeadlockVictim` needs a circle, which two requests can form: in
`ReadingHistory` the deletion of a file against the cascade of its book.  Two lists
of chapters in opposite order form one as well, but need four keys and are beyond
this instance.  One user is enough there, since rows of different users never meet
in a key, only in the chapter and book they refer to; that a clear leaves other
users alone is plain from its WHERE and not checked.

In `ServerParts`, two sockets and one send at a time make a socket wait behind a stalled
one, and a pool of three leaves one connection to two requests while both are open.
Two rows of one time and a third of another, in pages of one and two, put every tie
inside a page and on its edge.  The throttle has a target that one failure blocks, one
that two do and an address that both share; its window of two has an inside, an edge
and an outside.  The body limit of 5 is passed by one byte in a message of 1 and of 2,
the file limits are hit, missed and passed by one, in chunks that divide them and
that do not.  The kind with the limit 2 stands for covers and chapter files, whose
largest form is within the limit of the body; that with 5 for book files, where as in
the application the limit of the form and that of the file are equal.  Three key pairs are two crashes and the pair that tokens were
signed with.

**Fairness.**  `FairSpec` gives every request strong fairness of its steps: all
requests are coroutines of one event loop, which runs every ready one, and the
databases queue the waiters of a lock, so a request whose statement is possible
again and again is not passed over for ever.  Nothing is assumed of arrivals and
failures.  In `Notifications` the endpoints of sockets have weak fairness, the
requests strong fairness, because the pool serves its waiters in turn; the client of a
download reads it or leaves, those of sockets may stall for ever (the timeout of the
send is what saves the request).  `Served` is about pools with more connections than
open sockets: as each of these keeps one for life, `PoolSize` idle clients are enough
to leave the requests nothing but `PoolTimeout`.  `SomeoneGoesOn` needs no fairness: it says that never all are waiting.

**Deadlock checking** is off where the system may really stop: in `Accounts` and
`BookStore` when all bounded names (sessions, users, books) are used up, in
`ServerParts` when the same happens to a part or a crash has left a `config.ini` the
start refuses, and in `PagingCursor` when the client has read its list.

**Mutants.**  Operators marked `fault` are plausible bugs (a dropped guard, a
write of all columns instead of the changed ones, a response before the commit).
They are not part of the specifications; each property is violated when the one
named for it in `PROJECT.json` replaces the definition it imitates.

## 5. What the findings say

- *Last administrator* (`user_service.py:368`, `:394`): counting and removing are
  two statements, so two overlapping requests can remove both administrators.
  One such request at a time cannot, whatever else overlaps with it (`AdminKept`).
- *Torn totals* (`book_repository.py:235`): after two overlapping uploads of the
  same cover the row can tell the size or number of the other one, because only
  columns that differ from the loaded object are written.  The bytes themselves
  are never mixed (`ContentsRefined`): the primary key of the chunk tables turns
  the dangerous order into an error.
  Two uploads of one cover are the only way to it (`TotalsKept`).
- *Titles* (`book_service.py:146`): nothing but the earlier SELECT forbids a second book
  with the same title and author; once there are two, `scalar_one_or_none` raises
  for every later request with that title.
- *Savepoint* (`favorite_book_repository.py:39`): on SQLite the favourite is committed
  before its log entry.
- *Settings* (`settings_service.py:97`, `api.py:51`): writes during and right after the
  copy stay in the old database; the manager that replaced the first one is not
  disposed.  Two overlapping PATCHes also leave settings and database apart
  (without them `SettingsAgree` holds, see section 6).
- *Page cursor* (`book_repository.py:177`): `created_at` is filled by the server default,
  on SQLite a text without microseconds, and compared with a cursor that is bound
  with six digits of them.  A book is then less than its own cursor: in
  descending order it is shown again, in ascending order its neighbours of the
  same second are skipped.  The tests write their times through the ORM, with the
  same digits as the cursor.

Two disagreements were found in `Uploads` and have no run of their own:

- *Book files at their limit* (`request_body_limit.py:6`, `upload_policy.py:38`):
  `src/README.md:246` and `src/docs/api.md:82` give a book file 300 MiB.  The limit of
  the form that carries it is the same number, so a book file of that size, or less by
  no more than the frame of its form, is refused as a body.  `AcceptedUpToLimit` is
  therefore stated for the kinds whose largest form is within the limit of the body
  (`LeavesRoom`): covers and chapter files in a form of their own, for which the documented limits do
  hold to the last byte.  A form that adds a book with both a cover and a file has one of
  the two in the frame of the other.
- *413 or 400* (`request_body_limit.py:64`): the middleware and
  `src/tests/test_request_body_limit_middleware.py:110` mean a body without
  `Content-Length` that turns out too large to be answered with 413.  The test's
  endpoint calls `request.form()` itself.  The endpoints of the application declare form
  parameters, and FastAPI, which parses the form for them, turns whatever is raised
  meanwhile into a 400; the middleware never sees its exception.  `Receive` answers 400
  for that reason.  No property says which of the two it must be: `WithinLimit` says
  that the parser does not get the body, `AcceptedUpToLimit` that nothing within the
  limits gets either answer.

Not a disagreement, but visible in the models:

- in the application the throttle never turns anyone away, because each request gets one
  of its own (`api/dependencies.py:57`); `AuthThrottle` checks what it does for services
  that share one, as in the tests;
- a book is announced before its commit, which may still fail, so a client may hear of
  one that never was;
- a crash while `config.ini` is written leaves a file the next start refuses
  (`SettingsAgree` and `DataFollows` allow the torn file);
- as many open sockets as the pool has connections leave every request to the timeout of
  the pool (`Served` is about pools with more).

## 6. The proofs

`AccountsProofs` proves, for all constants that satisfy the assumptions of
`Accounts` (any number of users, sessions, passwords and overlapping requests,
any payloads, both backends):

- `TypeCorrect`: `Spec => []TypeOK`;
- `TokensSafe`: `Spec => []TokenSafety`;
- `SessionsHold`: `Spec => [](TypeInv /\ SessionInv)`, the inductive invariant.

`TokenSafety` alone is not inductive.  What keeps it true is: a row has an
uncommitted version only for its lock owner, who is at work (`WorkInv`,
`TxShape`); uncommitted versions carry no session but the committed one, none, or
the one their own request is opening (`WorkInv`); a session being opened is not
live, not retired, and nobody else is opening it (`FreshInv`); a session has one
user (`OneOwnerInv`); and a request about to commit a log in or refresh holds the
row with the new session (`PendingInv`).  Each action is one step of the proof;
`Commit` is the one that matters.

The same module goes on with the columns of a user, under the same assumptions:

- `RightsRevoked`: `Spec => RightsChangeRevokes`;
- `NothingCollateral`: `Spec => NoCollateralChange`;
- `ChangesAudited`: `Spec => Audited`;
- `SessionsImplemented`: `Spec => SessionsRefined`, that `Accounts` implements
  `SessionLife`.

All four are about commits, and `ColumnInv` says what a commit may bring: `Cell`
relates a committed row to the version of it a request sees.  A row appears only
by `add_user`, whose new id is nobody else's (`AddInv`); a column differs only if
the update of this row asked for it; if the rights differ, the session is gone from
the row, or `Clear` comes next and has fresh in its identity map what the row holds
(that is what the refresh after the flush is for); a log entry is there or still to
come; the session differs in one row at most, which is what makes a commit one step of
`SessionLife` or none.  That the session a commit brings is fresh comes from `SessionInv`.

- `DefaultAlone`: `Spec => []DefaultStandsAlone`, under `DefaultKept`: the table the
  server starts from has the property, and nobody asks for the email of the default
  user, for which the code has no check (an administrator may give it to a user).

`DefaultInv`: the email of the default user does not come back (`DefaultRowInv`), and an
`add_user` past its look at the table knows the default user, if there still is one, and
sees it deleted when it commits (`AddsInv`).  So the races end well although nobody
locks the table.

- `AdminKept`: `Spec /\ []OneRemoval => []AdminRemains`, under `AdminsFirst` (the server
  starts with an administrator, `create_initial_admin`): as long as no two requests that
  delete or update users overlap, an administrator remains, whatever logins, refreshes,
  logouts and additions run between their statements.

`AdminInv`: what a request takes from the administrators is replaced (`Replaced`).  An
`add_user` takes only the default user, and only once the administrator it adds is
written (`Adding`); a removal takes only its target, and from `count_admins` on there is
another administrator (`Counted`, `Spare`), which no overlapping request but an
`add_user` can remove, and that one brings its own.  A target that has been found is
not the id of a user being added (`Found`).  The hypothesis `OneRemoval` is what the
code does not see to: the run `AccountsLastAdmin` violates `AdminRemains` without it.

`BookStoreProofs` proves, for any books, uploads and number of overlapping requests
and on both backends:

- `TypeCorrect`: `Spec => []TypeOK`;
- `OrphansNone`: `Spec => []NoOrphans`;
- `ContentsImplemented`: `Spec => ContentsRefined`, that `BookStore` implements
  `ContentStore`.

Between two commits the bytes of a book are spread over the committed rows and what
the requests have deleted and inserted, so the inductive invariant `StoreInv` is about
those.  A request sees and deletes all the rows of the book or none, and
inserts only when none of the others is left (`ChunkInv`): `Store` has that from the
primary key, since every content that is not empty has a first chunk (`UploadRows`).
No two requests delete, and no two insert, rows of one book (`ApartInv`); on
PostgreSQL the waits of `Blockers` give that, on SQLite the write lock (`HoldInv`).
A book for which a request has inserted rows is there and nobody is deleting
it (`AliveInv`): `Store` waits for who deletes it, `Drop` for who inserts.  Who has deleted
a book has deleted its rows when its log entry comes (`DropInv`).  The id of
a book that is being added is nobody else's (`AddInv`), so its row is free although
`Insert` waits for nobody.  `StatementKeeps` says once what a statement must observe;
each action is then a case of it or of the end of a request, and `CommittedChunks` is
what a commit makes of the rows.

- `TotalsKept`: `Spec /\ []OneUpload => []MetadataAgrees`: as long as no two requests
  replace the cover of one book at the same time, the row of every book tells the size
  and number of its chunk rows, whatever additions, PATCHes, deletions and uploads to
  other books overlap.

`TotalsInv` says why: the snapshot an upload works from has the totals of the row it
will update (`Loaded`), so the columns that the UPDATE leaves out are right already; the
rows it deletes are all that are committed (`Replacing`); and the row any other request
sees, and writes back, has the totals of the committed one (`Seeing`), so that a PATCH
cannot bring old ones back.  A second upload of the same cover breaks `Loaded`: that is
the finding of `BookStoreTorn`, and `OneUpload` is what the code does not see to.

`ReadingProofs` proves, for any number of users, books, chapters, files and
requests and any lists:

- `TypeCorrect`: `Spec => []TypeOK`.  A request must be known to hold what its step
  uses (`Shape`: a chapter once it was found, a list that is not empty, an upload
  at the steps of an upload);
- `NumbersHold`: `Spec => []NumbersUnique`.  Uniqueness of the committed rows alone
  is not inductive, because rows reach the table only at a commit, long after they
  were checked.  `NumberInv` adds what has to hold meanwhile: the uncommitted rows
  of one request have different numbers, none has the number of a committed row
  that its request has not itself deleted, and no two requests have inserted the
  same number (the second had to wait for the first).  `InsertChapter` is the step
  that establishes it, `Commit` the one that needs it; every other step inserts no
  chapter and deletes no less (`NumberStep`).

The proofs assume only `ListsAssumption`, `ChunksAssumption` and `NoneAssumption`
of `Reading`, which TLC evaluates in the run.

The same module goes on with the rows, under the same assumptions:

- `HistoryHolds`: `Spec => []HistorySound`;
- `FilesHold`: `Spec => []FilesSound`;
- `ClearsForget`: `Spec => ClearForgets`, an action property.

Foreign keys are checked when a row is inserted, but must hold when it is committed.
`RowInv` says what keeps them true in between: `Tables` is true of the committed rows;
`Alone` of one request and the committed rows (what it inserts refers to rows that are
there or its own, what it leaves does not refer to what it deletes: that is what the
end of a cascade establishes); `Apart` of two requests (nobody inserts below what
another deletes, no two delete the same row or upload under one name).  `Apart` is what
the waits of `Blockers` are for.  A history row needs more than its foreign keys, since
the primary key of its chapter could have come back in another book: `Chaptered` says
that a chapter is one of its book for as long as the book is there, because
chapters go only with their book and books do not come back.  The files rest on the
order of `delete_file` (chunks, then the file) and on names that nobody shares.
`ClearsForget` needs in addition that what a clear knew and is still there, it has seen
when its DELETE starts (`ClearInv`); every commit takes what it inserted out of what is
known and what it deleted out of what was seen.

`FavoritesProofs` proves, for any users, books and number of requests:

- `TypeCorrect`: `Spec => []TypeOK`, on both backends;
- `FavouritesKnown`: `Spec => []BooksKnown`, on both backends;
- `NobodyStuck`: `Spec => []SomeoneGoesOn`, on both backends;
- `FavouritesTrue`: on PostgreSQL `Spec => [](ChangesLogged /\ BooksKnown)`;
- `EntriesAlternate`: on PostgreSQL `Spec => Alternate`;
- `ChangesImplemented`: on PostgreSQL `Spec => ChangesRefined`, that `Favorites`
  implements `FavoriteLog`.

On SQLite the last three are false, because the savepoint commits a favourite before
its log entry (`FavoritesSavepoint`), so the backend is in their assumption.  What has to be added to the properties is what the uncommitted work of a
request is worth: it is exactly what its log entry is going to tell (`Local`), it is
still possible on the committed rows, which its locks keep from changing underneath
(`Possible`), and no two requests touch the same favourite or a favourite and its book
(`Apart`).  The refinement follows from the same invariant: the one change a request
carries is what its commit makes of the table, and its entry is what the commit
makes of the log.  `NobodyStuck` has an invariant of its own, `Waiting`: requests
change favourites in the last statement before their log entry and books in the
last but one (`Late`), so on PostgreSQL one that is at its entry or its commit waits for
nobody, and if there is none, nor does one at its cascade, nor else anyone; on SQLite the
write lock belongs to a request that is at work (`Writing`), and it is the one.
`FavouritesKnown` follows on PostgreSQL from the same invariant as the log; on SQLite, where a
favourite is committed before its request ends, from the write lock: nobody else adds one
between the cascade of a book and its commit (`Kept`).

`NotificationsProofs` proves, for any users, sockets, requests, pool and number of
concurrent sends, `TypeCorrect`, `TableSound` (`NoGhosts` and `Reachable`),
`BroadcastComplete` (`Informed`), `ConnectionsReturned` (`NoLeak`) and
`SendingUndisturbed` (`SendingGoesOn`).  `NoteInv` adds that a broadcast knows only
sockets that receive or have returned, and that those it will remove do not listen
any more: that is why removing them after the sends does not take out a client that
reads, although they were copied before.

`LimitsProofs` is about the three parts that count.  For `AuthThrottle`, with any
keys, limits, window and overlapping requests: `ThrottleTypeCorrect`, `WindowCounted`
(`CountsTheWindow`) and `Overshoot` (`OvershootBounded`).  `TableInv` ties the list of
times the code keeps per key to the independent count (`Fits`): the failures of age
`a` or less are the last `failures[k][a]` of the list.  Because the counts are cumulative,
pruning the old head of the list touches none of them and no sum has to be taken,
which would need induction.
`OvershootBounded` needs nothing beside it: a request adds one to what is awaited
only while the key is below its limit.

For `Paging`: `PagingTypeCorrect`, and on PostgreSQL `EachRowOnce` (`NoneTwice` and
`NoneMissed`) for any rows, times and page size: what was shown and stayed is not
after the cursor, what stayed and was not shown is.

For `Uploads`: `UploadsTypeCorrect`, `BodyLimited` (`WithinLimit`), `FilesWhole`
(`StoredWhole`) and `NotTurnedAway` (`AcceptedUpToLimit`), for any limits, chunk size and
messages.  `UploadInv` adds what each answer says of the upload it refuses (`Reasons`) and
that the file is no longer than its form without the frame (`Framed`), so that a file
within its policy is within every limit it meets on its way.

`FilesProofs` is about what the server keeps in files of its own.  For `Settings`, with
any paths, payloads and managers:

- `TypeCorrect`;
- `SettingsKept`: `Spec /\ []OnePatch => []SettingsAgree`.  As long as no two PATCHes
  overlap, memory, `config.ini` and the database in use agree between them, whatever
  other requests run beside, whichever step fails and wherever the process is
  killed; a new SQLite path is among the payloads here.  `AgreeInv` says why: a
  PATCH leaves the three alone until it has saved, and holds a manager of the
  new settings from then on (`PatchShape`).
- `DataKept`: `Spec /\ []PatchAlone => []DataFollows` when no payload asks for another
  file: while a PATCH runs no other request does, but requests that write may overlap
  with each other.  `DataInv` adds what a request carries: a copy that got so far has all
  rows, and a database without users is empty, so a copy that is not refused is
  complete; a write ends in the database in use (`Carries`).

The two assumptions on the behaviour are what the code does not enforce: no lock
keeps PATCHes or other requests apart.  The run `SettingsLostWrite` shows what
happens to `DataFollows` without the second.

For `KeyFiles`: `KeysTypeCorrect` and `PairHolds` (`KeysAgree`), for any number of pairs
and kills.  The public key is the mark of a finished pair (`Finished`): while it
is missing no token has been signed, and once it is there nothing is written again.

`PartsProofs` carries these results to the whole: what a run of `ServerParts` checks of
`Parts` is a theorem of `Parts`, with the liveness of `Served` as the one exception.
Every step of `Parts` is a step of each part or leaves its variables alone
(`PartSteps`), so a behaviour of the server is a behaviour of every part (`SettingsBehaves`,
`FavoritesBehaves`, and so on) and has its properties.  The operators of a part are reached
through `Parts` and through the module with its proofs, which the prover takes for different ones;
lemmas like `SettingsSame` and `FavoritesSame` prove them equal first.  Conditions stay what
they were: `SettingsAgreed` holds while no two PATCHes overlap, `DataFollowed` while
no request that writes runs beside a PATCH and none asks for another path,
`FavouritesTrue`, `EntriesAlternate`, `ChangesImplemented`, `RowsOnce` and `RowsAll` on
PostgreSQL; everything else holds of every behaviour of the server.

Besides the conditions named with a theorem, all assume only `Parameters` of their module.

Checked by TLC only: the liveness properties `Answered` (in three modules) and `Served`,
which rest on fairness and ENABLED and are out of the prover's reach.  Every other property of a
run that passes is the statement of a theorem.

## 7. Not modelled, and the plan

Left out for good:

- password rules and hashing, token encoding, Alembic scripts, logging setup, scripts
  (pure functions, libraries, or nothing concurrent);
- the TLS key and certificate (`api/security/utils.py`), written in the same order as
  the JWT keys, before the server starts;
- lists by offset, title or progress: one query without state, for which the code
  promises nothing while rows come and go;
- the bytes of a download: one SELECT reads them, after the headers are out; name and
  type of the old file with the bytes of a new one are possible, and no length is
  sent that could disagree;
- `disconnect_all`, `delete_chapter_by_number`, listing and pruning of the log: they
  have no caller;
- the throttle inside `Accounts`: one per request, it never refuses.

Left: a PATCH that changes the server alone (a second PostgreSQL database), larger
instances of one that changes the path, and the preflight of `run_migrations`, in `Settings`.
