------------------------------ MODULE Reading ------------------------------
(***************************************************************************)
(* Chapters of books, their files and the history of who read them, as the *)
(* requests under /books/{id}/chapters and the deletion of a book change   *)
(* them.  A request is one transaction on PostgreSQL, run statement by     *)
(* statement (see Accounts); on SQLite the write lock leaves fewer orders. *)
(*                                                                         *)
(* The five tables are one set of rows.  What the ORM models declare       *)
(* unique (Keys) and the foreign keys, all ON DELETE CASCADE (Parents),    *)
(* decide what a statement waits for and when it fails.  Texts, names and  *)
(* the log entry of a request are left out: no property is about them.     *)
(***************************************************************************)
EXTENDS Integers, Sequences

CONSTANTS
  Users,
  Books,      \* books that exist at the start
  Chapters,   \* primary keys (uuid4) of table book_chapters
  Files,      \* and of table book_chapter_files
  Lists,      \* numbers of the chapters a POST sends
  MaxChunks,  \* bound: chunks of an uploaded file
  Requests,
  None

Numbers == UNION {{l[i] : i \in DOMAIN l} : l \in Lists}

ASSUME ListsAssumption == Lists \subseteq Seq(Int)

ASSUME ChunksAssumption == MaxChunks \in Nat

-----------------------------------------------------------------------------
(* Tables *)

ChapterRows == {"chapter"} \X Chapters \X Books \X Numbers
HistoryRows == {"history"} \X Users \X Chapters \X Books
FileRows    == {"file"} \X Files \X Chapters \X (0 .. MaxChunks)   \* chunks_count
ChunkRows   == {"chunk"} \X Files \X (0 .. MaxChunks)              \* chunk_index
Rows        == ({"book"} \X Books) \cup ChapterRows \cup HistoryRows \cup FileRows \cup ChunkRows

\* Primary keys and unique constraints.
KeysWithoutNumber(x) ==   \* fault: uq_book_chapter_num is missing
  IF x[1] = "history" THEN {<<"history", x[2], x[3]>>}
  ELSE IF x[1] = "chunk" THEN {x} ELSE {<<x[1], x[2]>>}

Keys(x) ==
  CASE x[1] = "chapter" -> {<<"chapter", x[2]>>, <<"number", x[3], x[4]>>}
    [] x[1] = "history" -> {<<"history", x[2], x[3]>>}
    [] x[1] = "chunk"   -> {x}
    [] OTHER            -> {<<x[1], x[2]>>}

\* Keys that the foreign keys of a row refer to (that of the user is left out).
ParentsButHistory(x) ==   \* fault: reading_progress has no foreign keys
  CASE x[1] = "chapter" -> {<<"book", x[3]>>}
    [] x[1] = "file"    -> {<<"chapter", x[3]>>}
    [] x[1] = "chunk"   -> {<<"file", x[2]>>}
    [] OTHER            -> {}

Parents(x) ==
  CASE x[1] = "chapter" -> {<<"book", x[3]>>}
    [] x[1] = "history" -> {<<"book", x[4]>>, <<"chapter", x[3]>>}
    [] x[1] = "file"    -> {<<"chapter", x[3]>>}
    [] x[1] = "chunk"   -> {<<"file", x[2]>>}
    [] x[1] = "book"    -> {}

KeysOf(rows) == UNION {Keys(x) : x \in rows}
ParentsOf(rows) == UNION {Parents(x) : x \in rows}

\* What a client asks for.
Asks ==
  [op : {"add"}, book : Books, rows : Seq(ChapterRows)]
  \cup [op : {"read"}, user : Users, book : Books, number : Numbers]
  \cup [op : {"clear"}, user : Users, book : Books]
  \cup [op : {"patch"}, book : Books, number : Numbers]
  \cup [op : {"upload"}, book : Books, number : Numbers, file : Files, size : 0 .. MaxChunks]
  \cup [op : {"deleteFile"}, book : Books, number : Numbers, file : Files]
  \cup [op : {"deleteBook"}, book : Books]

Steps == {"idle", "find", "insert", "mark", "count", "erase", "erasing", "write", "store",
          "fill", "belongs", "chunks", "file", "drop", "cascade", "commit"}

Tx == [pc       : Steps,
       chapter  : Chapters \cup {None},   \* the chapter of the number asked for
       rows     : Seq(ChapterRows),       \* chapters still to insert
       seen     : SUBSET HistoryRows,     \* rows a running DELETE found
       inserted : SUBSET Rows,            \* uncommitted changes
       deleted  : SUBSET Rows,
       locked   : SUBSET Rows,            \* rows it has updated
       known    : SUBSET HistoryRows]     \* history that was there when a clear
                                          \* arrived and was not read again

Idle == [pc |-> "idle", chapter |-> None, rows |-> <<>>, seen |-> {}, inserted |-> {},
         deleted |-> {}, locked |-> {}, known |-> {}]

ASSUME NoneAssumption ==
  None \notin Requests \cup Users \cup Books \cup Chapters \cup Files \cup Asks

VARIABLES
  db,    \* committed rows of all tables
  ask,   \* ask[r]: what the request in slot r was sent for
  tx     \* tx[r]: how far it is

vars == <<db, ask, tx>>

Init ==
  /\ db = {"book"} \X Books
  /\ ask = [r \in Requests |-> None]
  /\ tx = [r \in Requests |-> Idle]

-----------------------------------------------------------------------------
(* Statements and locks *)

Others(r) == Requests \ {r}

View(r) == (db \ tx[r].deleted) \cup tx[r].inserted

History(u, b) == {x \in db : x[1] = "history" /\ x[2] = u /\ x[4] = b}

Mark(r) == <<"history", ask[r].user, tx[r].chapter, ask[r].book>>

NewFile(r, n) == <<"file", ask[r].file, tx[r].chapter, n>>

\* Rows that the cascade of r's DELETE removes next.
Children(r) == {x \in db \ tx[r].deleted : Parents(x) \cap KeysOf(tx[r].deleted) # {}}

\* What the statement at r's pc inserts, updates and deletes.
Inserts(r) ==
  CASE tx[r].pc = "insert" -> {Head(tx[r].rows)}
    [] tx[r].pc = "mark"   -> {Mark(r)} \ db
    [] tx[r].pc = "store"  -> {NewFile(r, 0)}
    [] OTHER               -> {}

Updates(r) ==
  CASE tx[r].pc = "mark"  -> {Mark(r)} \cap db
    [] tx[r].pc = "write" -> {x \in db : x[1] = "chapter" /\ x[2] = tx[r].chapter}
    [] OTHER              -> {}

Deletes(r) ==
  CASE tx[r].pc = "erasing" -> tx[r].seen
    [] tx[r].pc = "chunks"  -> {x \in db : x[1] = "chunk" /\ x[2] = ask[r].file}
    [] tx[r].pc = "file"    -> {x \in db : x[1] = "file" /\ x[2] = ask[r].file}
    [] tx[r].pc = "drop"    -> {x \in db : x[1] = "book" /\ x[2] = ask[r].book}
    [] tx[r].pc = "cascade" -> Children(r)
    [] OTHER                -> {}

\* Requests that r's statement waits for: those that have the same row, or a
\* row with the same key, in an uncommitted change; a row that was inserted
\* also keeps the rows it refers to from being deleted.
Blockers(r) ==
  {q \in {q \in Others(r) : tx[q].inserted \cup tx[q].deleted \cup tx[q].locked # {}} :
     \/ (Updates(r) \cup Deletes(r)) \cap (tx[q].locked \cup tx[q].deleted) # {}
     \/ KeysOf(Inserts(r)) \cap KeysOf(tx[q].inserted \cup tx[q].deleted) # {}
     \/ ParentsOf(Inserts(r)) \cap KeysOf(tx[q].deleted) # {}
     \/ KeysOf(Deletes(r)) \cap ParentsOf(tx[q].inserted) # {}}

At(r, pc) == tx[r].pc = pc /\ Blockers(r) = {}

\* IntegrityError: the key is taken or the row referred to is gone.
Refused(r, x) ==
  Keys(x) \cap KeysOf(View(r)) # {} \/ ~ (Parents(x) \subseteq KeysOf(View(r)))

Go(r, pc) == tx' = [tx EXCEPT ![r].pc = pc] /\ UNCHANGED <<db, ask>>

Insert(r, x, pc) ==
  /\ tx' = [tx EXCEPT ![r].inserted = @ \cup {x}, ![r].pc = pc]
  /\ UNCHANGED <<db, ask>>

Delete(r, pc) ==
  /\ tx' = [tx EXCEPT ![r].deleted = @ \cup Deletes(r), ![r].pc = pc]
  /\ UNCHANGED <<db, ask>>

-----------------------------------------------------------------------------
(* Ends of a request *)

Rollback(r) ==
  /\ tx' = [tx EXCEPT ![r] = Idle]
  /\ ask' = [ask EXCEPT ![r] = None]
  /\ UNCHANGED db

\* What r deleted is gone from what a waiting DELETE found.
CommitLeaks(r) ==   \* fault: the session is never closed
  /\ tx[r].pc = "commit"
  /\ db' = View(r)
  /\ tx' = [tx EXCEPT ![r].pc = "idle"]
  /\ UNCHANGED ask

Commit(r) ==
  /\ tx[r].pc = "commit"
  /\ db' = View(r)
  /\ ask' = [ask EXCEPT ![r] = None]
  /\ tx' = [q \in Requests |->
              IF q = r THEN Idle
              ELSE [tx[q] EXCEPT !.seen = @ \ tx[r].deleted,
                                 !.known = @ \ (tx[r].inserted \cup tx[r].locked)]]

\* Lost connection, refused upload (413, 415), crash of the server.
DbError(r) == tx[r].pc # "idle" /\ Rollback(r)

\* PostgreSQL rolls back a member of a circle of waiting transactions.
DeadlockVictim(r) ==
  /\ Blockers(r) # {}
  /\ \E C \in SUBSET Requests : r \in C /\ \A c \in C : Blockers(c) \cap C # {}
  /\ Rollback(r)

-----------------------------------------------------------------------------
(* Arrival *)

Begin(r, what) ==
  /\ tx[r].pc = "idle"
  /\ ask' = [ask EXCEPT ![r] = what]
  /\ tx' = [tx EXCEPT ![r].pc = "find"]
  /\ UNCHANGED db

\* A uuid4 is one that no row has and no request names; which one of them makes
\* no difference.
FreshChapters ==
  LET added(q) == IF ask[q] # None /\ ask[q].op = "add"
                  THEN {ask[q].rows[i] : i \in DOMAIN ask[q].rows} ELSE {}
      used == db \cup UNION {added(q) : q \in Requests}
  IN Chapters \ {x[2] : x \in {x \in used : x[1] = "chapter"}}

FreshFiles ==
  LET named == {q \in Requests : ask[q] # None /\ ask[q].op \in {"upload", "deleteFile"}}
  IN Files \ ({x[2] : x \in {x \in db : x[1] = "file"}} \cup {ask[q].file : q \in named})

Plans(l) ==
  {ids \in [DOMAIN l -> FreshChapters] : \A i, j \in DOMAIN l : ids[i] = ids[j] => i = j}

Plan(l) == CHOOSE ids \in Plans(l) : TRUE

Planned(b, l) == [i \in DOMAIN l |-> <<"chapter", Plan(l)[i], b, l[i]>>]

\* POST /books/{id}/chapters
AddChapters(r) ==
  \E b \in Books, l \in Lists :
    Plans(l) # {} /\ Begin(r, [op |-> "add", book |-> b, rows |-> Planned(b, l)])

\* GET /books/{id}/chapters/{number}
GetChapter(r) ==
  \E u \in Users, b \in Books, n \in Numbers :
    Begin(r, [op |-> "read", user |-> u, book |-> b, number |-> n])

\* DELETE /books/{id}/history
ClearHistory(r) ==
  /\ tx[r].pc = "idle"
  /\ \E u \in Users, b \in Books :
       /\ ask' = [ask EXCEPT ![r] = [op |-> "clear", user |-> u, book |-> b]]
       /\ tx' = [tx EXCEPT ![r].pc = "count", ![r].known = History(u, b)]
  /\ UNCHANGED db

\* PATCH /books/{id}/chapters/{number}, with a new text or name: the schema
\* has no number.
UpdateChapter(r) ==
  \E b \in Books, n \in Numbers : Begin(r, [op |-> "patch", book |-> b, number |-> n])

\* POST /books/{id}/chapters/{number}/files
CreateFile(r) ==
  \E b \in Books, n \in Numbers, f \in FreshFiles, k \in 0 .. MaxChunks :
    Begin(r, [op |-> "upload", book |-> b, number |-> n, file |-> f, size |-> k])

\* DELETE /books/{id}/chapters/{number}/files/{file}
DeleteFile(r) ==
  \E b \in Books, n \in Numbers, f \in Files :
    Begin(r, [op |-> "deleteFile", book |-> b, number |-> n, file |-> f])

\* DELETE /books/{id}
DeleteBook(r) == \E b \in Books : Begin(r, [op |-> "deleteBook", book |-> b])

Arrive(r) ==
  \/ AddChapters(r) \/ GetChapter(r) \/ ClearHistory(r) \/ UpdateChapter(r)
  \/ CreateFile(r) \/ DeleteFile(r) \/ DeleteBook(r)

-----------------------------------------------------------------------------
(* Statements *)

\* A chapter list may not be empty or name a number twice.
ListRefused(rows) ==
  rows = <<>> \/ \E i, j \in DOMAIN rows : i # j /\ rows[i][4] = rows[j][4]

\* ensure_exists / get_by_id of the book
FindBook(r) ==
  /\ tx[r].pc = "find" /\ ask[r].op \in {"add", "deleteBook"}
  /\ IF \/ <<"book", ask[r].book>> \notin db
        \/ ask[r].op = "add" /\ ListRefused(ask[r].rows)
     THEN Rollback(r)
     ELSE /\ tx' = IF ask[r].op = "add"
                   THEN [tx EXCEPT ![r].rows = ask[r].rows, ![r].pc = "insert"]
                   ELSE [tx EXCEPT ![r].pc = "drop"]
          /\ UNCHANGED <<db, ask>>

\* The step that follows once the chapter is found.
AfterFind(op) ==
  CASE op = "read"       -> "mark"
    [] op = "patch"      -> "write"
    [] op = "upload"     -> "store"
    [] op = "deleteFile" -> "belongs"

\* ensure_exists_by_book_and_number
FindChapter(r) ==
  /\ tx[r].pc = "find" /\ ask[r].op \notin {"add", "deleteBook"}
  /\ LET found == {x \in db : x[1] = "chapter" /\ x[3] = ask[r].book /\ x[4] = ask[r].number}
     IN IF found = {}
        THEN Rollback(r)
        ELSE /\ \E x \in found :
                  tx' = [tx EXCEPT ![r].chapter = x[2], ![r].pc = AfterFind(ask[r].op)]
             /\ UNCHANGED <<db, ask>>

\* create_chapters, one row after the other.
InsertChapter(r) ==
  /\ At(r, "insert")
  /\ LET x == Head(tx[r].rows)
         rest == Tail(tx[r].rows)
     IN IF Refused(r, x)
        THEN Rollback(r)
        ELSE /\ tx' = [tx EXCEPT ![r].inserted = @ \cup {x}, ![r].rows = rest,
                                 ![r].pc = IF rest = <<>> THEN "commit" ELSE "insert"]
             /\ UNCHANGED <<db, ask>>

\* mark_chapter_read: INSERT ... ON CONFLICT DO UPDATE
MarkRead(r) ==
  /\ At(r, "mark")
  /\ IF Mark(r) \in db
     THEN tx' = [tx EXCEPT ![r].locked = {Mark(r)}, ![r].pc = "commit"] /\ UNCHANGED <<db, ask>>
     ELSE IF Refused(r, Mark(r)) THEN Rollback(r) ELSE Insert(r, Mark(r), "commit")

\* clear_read_history_for_user_and_book counts the rows first ...
CountOthers(r) ==   \* fault: the rows of other users are counted
  /\ tx[r].pc = "count"
  /\ Go(r, IF \E u \in Users \ {ask[r].user} : History(u, ask[r].book) # {} THEN "erase" ELSE "commit")

Count(r) ==
  /\ tx[r].pc = "count"
  /\ Go(r, IF History(ask[r].user, ask[r].book) = {} THEN "commit" ELSE "erase")

\* ... and deletes the rows that are committed when the DELETE starts.
Erase(r) ==
  /\ tx[r].pc = "erase"
  /\ tx' = [tx EXCEPT ![r].seen = History(ask[r].user, ask[r].book), ![r].pc = "erasing"]
  /\ UNCHANGED <<db, ask>>

Erased(r) ==
  /\ At(r, "erasing")
  /\ tx' = [tx EXCEPT ![r].deleted = @ \cup tx[r].seen, ![r].seen = {}, ![r].pc = "commit"]
  /\ UNCHANGED <<db, ask>>

\* update_chapter_by_number: StaleDataError when the row is gone.
WriteChapter(r) ==
  /\ At(r, "write")
  /\ IF Updates(r) = {}
     THEN Rollback(r)
     ELSE tx' = [tx EXCEPT ![r].locked = Updates(r), ![r].pc = "commit"] /\ UNCHANGED <<db, ask>>

\* create_file: the row first, its size still 0 ...
StoreFile(r) ==
  /\ At(r, "store")
  /\ IF Refused(r, NewFile(r, 0)) THEN Rollback(r) ELSE Insert(r, NewFile(r, 0), "fill")

\* ... then the chunks and the size.
FillOffByOne(r) ==   \* fault: chunks_count starts at one
  /\ tx[r].pc = "fill"
  /\ tx' = [tx EXCEPT ![r].inserted = {NewFile(r, ask[r].size + 1)} \cup
                                      {<<"chunk", ask[r].file, i>> : i \in 0 .. ask[r].size - 1},
                      ![r].pc = "commit"]
  /\ UNCHANGED <<db, ask>>

Fill(r) ==
  /\ tx[r].pc = "fill"
  /\ tx' = [tx EXCEPT ![r].inserted = {NewFile(r, ask[r].size)} \cup
                                      {<<"chunk", ask[r].file, i>> : i \in 0 .. ask[r].size - 1},
                      ![r].pc = "commit"]
  /\ UNCHANGED <<db, ask>>

\* ensure_file_belongs_to_chapter
Belongs(r) ==
  /\ tx[r].pc = "belongs"
  /\ IF \E x \in db : x[1] = "file" /\ x[2] = ask[r].file /\ x[3] = tx[r].chapter
     THEN Go(r, "chunks") ELSE Rollback(r)

DeleteChunks(r) == At(r, "chunks") /\ Delete(r, "file")

\* session.delete of a row that is gone already only warns.
DropFile(r) == At(r, "file") /\ Delete(r, "commit")

DropBook(r) == At(r, "drop") /\ Delete(r, "cascade")

\* One level of ON DELETE CASCADE.
Cascade(r) ==
  /\ At(r, "cascade")
  /\ IF Children(r) = {} THEN Go(r, "commit") ELSE Delete(r, "cascade")

Step(r) ==
  \/ FindBook(r) \/ FindChapter(r) \/ InsertChapter(r) \/ MarkRead(r)
  \/ Count(r) \/ Erase(r) \/ Erased(r) \/ WriteChapter(r)
  \/ StoreFile(r) \/ Fill(r) \/ Belongs(r) \/ DeleteChunks(r) \/ DropFile(r)
  \/ DropBook(r) \/ Cascade(r) \/ Commit(r) \/ DeadlockVictim(r)

Next == \E r \in Requests : Arrive(r) \/ Step(r) \/ DbError(r)

Spec == Init /\ [][Next]_vars

\* Requests are coroutines of one event loop, and locks are granted in turn.
Fairness == \A r \in Requests : SF_vars(Step(r))

FairSpec == Spec /\ Fairness

-----------------------------------------------------------------------------
(* Properties *)

\* Every variable holds a value of the shape the code gives it.
TypeOK ==
  /\ db \subseteq Rows
  /\ ask \in [Requests -> Asks \cup {None}]
  /\ tx \in [Requests -> Tx]

\* "One book cannot have two chapters of the same number" (comment of
\* BookChapter), whatever additions overlap: a number names one chapter.
NumbersUnique ==
  \A x, y \in db : x[1] = "chapter" /\ y[1] = "chapter" /\ <<x[3], x[4]>> = <<y[3], y[4]>> => x = y

\* The history of a book names only chapters of this book, and the book is
\* there: counts and lists of read chapters never include one of a book that
\* was deleted while it was read.
HistorySound ==
  \A x \in db : x[1] = "history" =>
    /\ <<"book", x[4]>> \in db
    /\ \E y \in db : y[1] = "chapter" /\ y[2] = x[3] /\ y[3] = x[4]

\* validate_integrity is true of every file of a chapter, and no chunk is
\* left without its file: uploads, deletions of files and of books overlap.
FilesSound ==
  /\ \A x \in db : x[1] = "file" =>
       {y[3] : y \in {y \in db : y[1] = "chunk" /\ y[2] = x[2]}} = 0 .. x[4] - 1
  /\ \A y \in db : y[1] = "chunk" => \E x \in db : x[1] = "file" /\ x[2] = y[2]

\* When a history was cleared, nothing is left of what was there when the
\* request arrived and was not read again meanwhile.
ClearForgets ==
  [][\A r \in Requests : Commit(r) /\ ask[r].op = "clear" => tx[r].known \cap db' = {}]_vars

\* Every request is answered: the circle of waits between the deletion of a
\* file (chunks, then the file) and the cascade of its book (the file, then
\* chunks), or between two lists of chapters, does not last.
Answered == \A r \in Requests : (tx[r].pc # "idle") ~> (tx[r].pc = "idle")
=============================================================================
