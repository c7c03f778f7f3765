----------------------------- MODULE BookStore -----------------------------
(***************************************************************************)
(* Books and their binary data (the cover; the file has columns, chunk     *)
(* table and code of its own of the same shape), as the requests of /books *)
(* change them.  A request is one transaction, run statement by statement; *)
(* see Accounts for what a statement sees and what its snapshot keeps.     *)
(*                                                                         *)
(* The bytes are rows of a chunk table with primary key (book, index); the *)
(* row of the book repeats their type, total size and number.  An upload   *)
(* deletes the chunk rows it sees, inserts its own, then writes the        *)
(* columns that differ from the snapshot of the book it loaded first.      *)
(***************************************************************************)
EXTENDS Naturals, FiniteSets, Sequences, FiniteSetsExt

CONSTANTS
  Books,         \* primary keys of table books
  Titles,        \* a title and an author
  Mimes,
  Uploads,       \* uploaded files: the sizes of their chunks
  Requests,
  Ops,           \* operations the clients of this instance call
  Backend,       \* "sqlite" or "postgresql"
  InitialBooks,  \* contents of table books the runs start from
  None           \* NULL, no row, no lock owner

Operations == {"add", "put", "patch", "delete"}

\* The chunk rows <<index, size>> an upload leaves in the chunk table.
Rows(upload) == {<<i, upload[i]>> : i \in DOMAIN upload}

Contents == {Rows(upload) : upload \in Uploads} \cup {{}}

Size(rows) == MapThenSumSet(LAMBDA c : c[2], rows)

Indices(rows) == {c[1] : c \in rows}

Sizes == {Size(c) : c \in Contents}
Counts == {Cardinality(c) : c \in Contents}

Row == [title : Titles, mime : Mimes \cup {None}, size : Sizes, count : Counts]

Table == [Books -> Row \cup {None}]

ASSUME NoneAssumption ==
  None \notin Books \cup Titles \cup Mimes \cup Requests \cup Row \cup Operations

ASSUME UploadsAssumption == Uploads \subseteq Seq(Nat \ {0})

ASSUME OpsAssumption == Ops \subseteq Operations

ASSUME BackendAssumption == Backend \in {"sqlite", "postgresql"}

\* Books to start from have no binary data yet.
ASSUME TableAssumption ==
  \A t \in InitialBooks :
    t \in Table /\ \A b \in Books : t[b] # None => t[b].size = 0 /\ t[b].count = 0

Steps == {"idle", "duplicate", "insert", "find", "mime", "wipe", "wiping", "store",
          "meta", "title", "drop", "cascade", "log", "commit"}

\* `seen' are the chunk rows a running DELETE statement found; `deleted' and
\* `inserted' are the request's uncommitted changes of the chunk table.
Tx == [pc       : Steps,
       op       : Operations \cup {None},
       book     : Books \cup {None},
       title    : Titles \cup {None},
       mime     : Mimes \cup {None},
       upload   : Uploads \cup {<<>>},
       snap     : Row \cup {None},           \* identity map: the book as loaded
       seen     : SUBSET UNION Contents,
       deleted  : SUBSET UNION Contents,
       inserted : SUBSET UNION Contents]

Idle == [pc |-> "idle", op |-> None, book |-> None, title |-> None, mime |-> None,
         upload |-> <<>>, snap |-> None, seen |-> {}, deleted |-> {}, inserted |-> {}]

VARIABLES
  books,     \* committed table books
  chunks,    \* committed chunk rows of each book
  work,      \* uncommitted version of the book rows that are locked
  owner,     \* owner[b]: request that holds the write lock of row b
  tx         \* tx[r]: the request in slot r

vars == <<books, chunks, work, owner, tx>>

-----------------------------------------------------------------------------
(* The database *)

View(r) == [b \in Books |-> IF owner[b] = r THEN work[b] ELSE books[b]]

\* SQLite has one write lock for the database, PostgreSQL one per row.
Locked(b) == IF Backend = "sqlite" THEN Books ELSE {b}

Write(r, b, row) ==
  /\ owner' = [v \in Books |-> IF v \in Locked(b) THEN r ELSE owner[v]]
  /\ work' = [v \in Books |-> IF v = b THEN row
                              ELSE IF v \in Locked(b) THEN View(r)[v] ELSE work[v]]

\* A statement on another table takes the write lock of SQLite only.
Touch(r) ==
  IF Backend = "sqlite" THEN Write(r, tx[r].book, View(r)[tx[r].book])
  ELSE UNCHANGED <<work, owner>>

\* Chunk rows of b as request r sees them.
Chunks(r, b) == IF tx[r].book = b THEN (chunks[b] \ tx[r].deleted) \cup tx[r].inserted
                ELSE chunks[b]

\* Requests other than r at work on the same book.
Peers(r) == {q \in Requests \ {r} : tx[q].book = tx[r].book}

\* Attributes of the book once _replace_cover has stored the chunks.
MetaOffByOne(t) ==   \* fault: the index after the last one is counted
  LET stored == Rows(t.upload)
  IN [t.snap EXCEPT !.size = Size(stored), !.count = Cardinality(stored) + 1]

Meta(t) ==
  LET stored == Rows(t.upload)
  IN [t.snap EXCEPT !.mime = IF stored = {} THEN None ELSE @,
                    !.size = Size(stored), !.count = Cardinality(stored)]

\* An UPDATE carries the attributes whose value differs from the snapshot.
Patched(row, snap, object) ==
  [c \in DOMAIN row |-> IF object[c] = snap[c] THEN row[c] ELSE object[c]]

\* The attributes that the statement at r's pc flushes.
Object(r) ==
  CASE tx[r].pc = "mime"  -> [tx[r].snap EXCEPT !.mime = tx[r].mime]
    [] tx[r].pc = "meta"  -> Meta(tx[r])
    [] tx[r].pc = "title" -> [tx[r].snap EXCEPT !.title = tx[r].title]

Flushes(r) == tx[r].pc \in {"mime", "meta", "title"} /\ Object(r) # tx[r].snap

\* Inserting a chunk row waits for the request that has inserted or deleted
\* one with the same key (PostgreSQL), and for the one that deletes the book.
InsertRivals(r) ==
  LET b == tx[r].book
      mine == Indices(Rows(tx[r].upload))
  IN {q \in Peers(r) : mine \cap Indices(tx[q].inserted \cup (tx[q].deleted \cap chunks[b])) # {}}
     \cup {owner[v] : v \in {v \in {b} : mine # {} /\ work[v] = None}}

\* Requests that r's next statement waits for.  A chunk row locks the key of
\* its book, so deleting the book waits for those who insert some.
Blockers(r) ==
  LET b == tx[r].book
      pc == tx[r].pc
  IN IF Backend = "sqlite"
     THEN IF pc \in {"insert", "wipe", "drop", "log"} \/ Flushes(r)
          THEN {owner[v] : v \in Books} \ {r, None} ELSE {}
     ELSE CASE Flushes(r) -> {owner[b]} \ {r, None}
            [] pc = "wiping" -> {q \in Peers(r) : tx[q].deleted \cap tx[r].seen # {}}
            [] pc = "store" -> InsertRivals(r) \ {r, None}
            [] pc = "drop" -> ({owner[b]} \cup {q \in Peers(r) : tx[q].inserted # {}}) \ {r, None}
            [] pc = "cascade" -> {q \in Peers(r) : tx[q].deleted \cap chunks[b] # {}}
            [] OTHER -> {}

-----------------------------------------------------------------------------
(* Ends of a request *)

ReleaseLeaks(r, removed) ==   \* fault: the session is never closed
  /\ UNCHANGED <<owner, work>>
  /\ tx' = [tx EXCEPT ![r] = Idle]

Release(r, removed) ==
  /\ owner' = [b \in Books |-> IF owner[b] = r THEN None ELSE owner[b]]
  /\ work' = [b \in Books |-> IF owner[b] = r THEN None ELSE work[b]]
  /\ tx' = [q \in Requests |->
              IF q = r THEN Idle
              ELSE IF q \in Peers(r) THEN [tx[q] EXCEPT !.seen = @ \ removed] ELSE tx[q]]

\* Any exception, a refused upload (415, 413) included, rolls back.
Rollback(r) ==
  /\ Release(r, {})
  /\ UNCHANGED <<books, chunks>>

\* The chunk rows that r deleted are gone from what waiting statements saw.
Commit(r) ==
  /\ tx[r].pc = "commit"
  /\ books' = View(r)
  /\ chunks' = [chunks EXCEPT ![tx[r].book] = Chunks(r, tx[r].book)]
  /\ Release(r, tx[r].deleted)

\* Lost connection, expired busy_timeout, crash of the server.
DbError(r) ==
  /\ tx[r].pc # "idle"
  /\ Rollback(r)

\* PostgreSQL rolls back a member of a cycle of waiting transactions.
DeadlockVictim(r) ==
  /\ \E C \in SUBSET Requests : r \in C /\ \A c \in C : Blockers(c) \cap C # {}
  /\ Rollback(r)

-----------------------------------------------------------------------------
(* Arrival *)

Begin(r, op, t) ==
  /\ op \in Ops
  /\ tx[r].pc = "idle"
  /\ tx' = [tx EXCEPT ![r] = t]
  /\ UNCHANGED <<books, chunks, work, owner>>

\* A uuid4 that nobody uses.
FreshBooks == {b \in Books : books[b] = None /\ \A q \in Requests : tx[q].book # b}

\* POST /books/add_book, with a cover or (<<>>) without.
AddBook(r) ==
  \E b \in FreshBooks, n \in Titles, m \in Mimes \cup {None}, u \in Uploads \cup {<<>>} :
    Begin(r, "add", [Idle EXCEPT !.pc = "duplicate", !.op = "add", !.book = b, !.title = n,
                                 !.mime = m, !.upload = u])

\* PUT /books/{id}/cover
PutCover(r) ==
  \E b \in Books, m \in Mimes \cup {None}, u \in Uploads :
    Begin(r, "put", [Idle EXCEPT !.pc = "find", !.op = "put", !.book = b, !.mime = m,
                                 !.upload = u])

\* PATCH /books/{id}, whose schema has text columns only.
PatchBook(r) ==
  \E b \in Books, n \in Titles :
    Begin(r, "patch", [Idle EXCEPT !.pc = "find", !.op = "patch", !.book = b, !.title = n])

\* DELETE /books/{id}
DeleteBook(r) ==
  \E b \in Books : Begin(r, "delete", [Idle EXCEPT !.pc = "find", !.op = "delete", !.book = b])

-----------------------------------------------------------------------------
(* Statements *)

At(r, pc) == tx[r].pc = pc /\ Blockers(r) = {}

Go(r, pc) == tx' = [tx EXCEPT ![r].pc = pc]

\* get_by_title_author: one match is refused, several raise MultipleResultsFound.
Duplicate(r) ==
  /\ At(r, "duplicate")
  /\ IF \E b \in Books : books[b] # None /\ books[b].title = tx[r].title
     THEN Rollback(r)
     ELSE Go(r, "insert") /\ UNCHANGED <<books, chunks, work, owner>>

Insert(r) ==
  /\ At(r, "insert")
  /\ LET row == [title |-> tx[r].title, mime |-> tx[r].mime, size |-> 0, count |-> 0]
     IN /\ Write(r, tx[r].book, row)
        /\ tx' = [tx EXCEPT ![r].snap = row, ![r].pc = "wipe"]
  /\ UNCHANGED <<books, chunks>>

\* ensure_exists / get_by_id: 404, or the snapshot of the request.
Find(r) ==
  /\ At(r, "find")
  /\ IF books[tx[r].book] = None
     THEN Rollback(r)
     ELSE /\ tx' = [tx EXCEPT ![r].snap = books[tx[r].book],
                              ![r].pc = CASE tx[r].op = "put" -> "mime"
                                          [] tx[r].op = "patch" -> "title"
                                          [] tx[r].op = "delete" -> "drop"]
          /\ UNCHANGED <<books, chunks, work, owner>>

\* The UPDATE that a flush issues, if any; it fails when the row is gone.
Flush(r, pc) ==
  /\ IF Flushes(r)
     THEN Write(r, tx[r].book, Patched(View(r)[tx[r].book], tx[r].snap, Object(r)))
     ELSE UNCHANGED <<work, owner>>
  /\ tx' = [tx EXCEPT ![r].snap = Object(r), ![r].pc = pc]
  /\ UNCHANGED <<books, chunks>>

\* The new type is flushed before the DELETE of the chunk rows.
Mime(r) ==
  /\ At(r, "mime")
  /\ IF Flushes(r) /\ View(r)[tx[r].book] = None THEN Rollback(r) ELSE Flush(r, "wipe")

\* _delete_chunks.  The statement sees the rows committed when it starts; it
\* waits for the requests that are deleting one of them.
Wipe(r) ==
  /\ At(r, "wipe")
  /\ Touch(r)
  /\ tx' = [tx EXCEPT ![r].seen = chunks[tx[r].book], ![r].pc = "wiping"]
  /\ UNCHANGED <<books, chunks>>

\* It deletes what is left of them when the wait ends.
Wiped(r) ==
  /\ At(r, "wiping")
  /\ tx' = [tx EXCEPT ![r].deleted = tx[r].seen, ![r].seen = {}, ![r].pc = "store"]
  /\ UNCHANGED <<books, chunks, work, owner>>

\* A row with one of these keys is there already.
ClashNever(r) == FALSE   \* fault: (book_id, chunk_index) is not the primary key

Clash(r) ==
  Indices(Rows(tx[r].upload)) \cap Indices(Chunks(r, tx[r].book)) # {}

\* _store_chunks: IntegrityError on a taken key or without the book.
Store(r) ==
  /\ At(r, "store")
  /\ IF Clash(r) \/ (tx[r].upload # <<>> /\ View(r)[tx[r].book] = None)
     THEN Rollback(r)
     ELSE /\ tx' = [tx EXCEPT ![r].inserted = Rows(tx[r].upload), ![r].pc = "meta"]
          /\ UNCHANGED <<books, chunks, work, owner>>

\* The final flush and refresh of create_book and update_book.
SaveMeta(r) ==
  /\ At(r, "meta")
  /\ IF View(r)[tx[r].book] = None THEN Rollback(r) ELSE Flush(r, "log")

SaveTitle(r) ==
  /\ At(r, "title")
  /\ IF View(r)[tx[r].book] = None THEN Rollback(r) ELSE Flush(r, "log")

\* session.delete: a row that is gone already is only warned about.
Drop(r) ==
  /\ At(r, "drop")
  /\ IF View(r)[tx[r].book] = None THEN Touch(r) ELSE Write(r, tx[r].book, None)
  /\ Go(r, "cascade")
  /\ UNCHANGED <<books, chunks>>

\* ON DELETE CASCADE, a part of the same statement.
CascadeOff(r) ==   \* fault: PRAGMA foreign_keys is not set
  /\ At(r, "cascade")
  /\ Go(r, "log")
  /\ UNCHANGED <<books, chunks, work, owner>>

Cascade(r) ==
  /\ At(r, "cascade")
  /\ tx' = [tx EXCEPT ![r].deleted = chunks[tx[r].book], ![r].pc = "log"]
  /\ UNCHANGED <<books, chunks, work, owner>>

\* log_from_dto / log_action.
Log(r) ==
  /\ At(r, "log")
  /\ Touch(r)
  /\ Go(r, "commit")
  /\ UNCHANGED <<books, chunks>>

-----------------------------------------------------------------------------

Init ==
  /\ books \in InitialBooks
  /\ chunks = [b \in Books |-> {}]
  /\ work = [b \in Books |-> None]
  /\ owner = [b \in Books |-> None]
  /\ tx = [r \in Requests |-> Idle]

Arrive(r) == AddBook(r) \/ PutCover(r) \/ PatchBook(r) \/ DeleteBook(r)

Step(r) ==
  \/ Duplicate(r) \/ Insert(r) \/ Find(r) \/ Mime(r) \/ Wipe(r) \/ Wiped(r) \/ Store(r)
  \/ SaveMeta(r) \/ SaveTitle(r) \/ Drop(r) \/ Cascade(r) \/ Log(r) \/ Commit(r)
  \/ DeadlockVictim(r)

Next == \E r \in Requests : Arrive(r) \/ Step(r) \/ DbError(r)

Spec == Init /\ [][Next]_vars

\* Requests are coroutines of one event loop, and locks are granted in turn.
Fairness == \A r \in Requests : SF_vars(Step(r))

FairSpec == Spec /\ Fairness

-----------------------------------------------------------------------------
(* Properties *)

\* Every variable holds a value of the shape the code gives it.
TypeOK ==
  /\ books \in Table
  /\ chunks \in [Books -> SUBSET UNION Contents]
  /\ work \in Table
  /\ owner \in [Books -> Requests \cup {None}]
  /\ tx \in [Requests -> Tx]

\* Whatever uploads and deletions overlap, the chunk rows of a book are those
\* of one upload, complete, or none: _delete_chunks and _store_chunks never
\* leave a mixture of two uploads or part of one.
Content == INSTANCE ContentStore WITH content <- chunks

ContentsRefined == Content!Spec

\* Chunk rows exist only for books that exist: an upload that races the
\* deletion of its book leaves nothing behind.
NoOrphans == \A b \in Books : books[b] = None => chunks[b] = {}

\* validate_cover_integrity is true of every book: its row tells the size and
\* number of its chunk rows.
MetadataAgrees ==
  \A b \in Books : books[b] # None =>
    books[b].size = Size(chunks[b]) /\ books[b].count = Cardinality(chunks[b])

\* No two books have the same title and author (BookAlreadyExistsError).
UniqueTitles ==
  \A b, c \in Books :
    (b # c /\ books[b] # None /\ books[c] # None) => books[b].title # books[c].title

\* Every request is answered: row locks of books, chunk rows and the cascade
\* of a deletion never leave a request waiting for ever.
Answered == \A r \in Requests : (tx[r].pc # "idle") ~> (tx[r].pc = "idle")
=============================================================================
