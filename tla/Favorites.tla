----------------------------- MODULE Favorites -----------------------------
(***************************************************************************)
(* Favourite books and the log of their changes, as POST and DELETE of     *)
(* /books/{id}/favorite and the deletion of a book change them.  A request *)
(* is one transaction, run statement by statement (see Accounts).          *)
(*                                                                         *)
(* add_favorite inserts inside a savepoint.  On PostgreSQL the savepoint   *)
(* is part of the transaction of the request.  On SQLite the driver begins *)
(* no transaction before SAVEPOINT, so the savepoint is the transaction    *)
(* and its RELEASE commits.                                                *)
(***************************************************************************)
EXTENDS FiniteSets

CONSTANTS
  Users,
  Books,      \* primary keys of table books (uuid4, never reused)
  Requests,   \* requests the server runs at the same time
  Backend,    \* "sqlite" or "postgresql"
  None

Pairs == Users \X Books

Entries == {"favorite_book", "unfavorite_book"}

\* What the values of the constants must satisfy.
Parameters ==
  /\ None \notin Users \cup Requests \cup Entries \cup Books \cup Pairs
  /\ Backend \in {"sqlite", "postgresql"}

Steps == {"idle", "find", "lookup", "insert", "again", "erase", "erasing",
          "drop", "cascade", "log", "commit"}

Tx == [pc       : Steps,
       op       : {"favorite", "unfavorite", "delete", None},
       pair     : ((Users \cup {None}) \X Books) \cup {None},
                                       \* the user, None for "delete", and the book it names
       seen     : SUBSET Pairs,        \* rows a running DELETE statement found
       inserted : SUBSET Pairs,        \* uncommitted changes of the favourites
       deleted  : SUBSET Pairs,
       dropped  : SUBSET Books,        \* and of the books
       entry    : Entries \cup {None}] \* and of the log

Idle == [pc |-> "idle", op |-> None, pair |-> None, seen |-> {}, inserted |-> {},
         deleted |-> {}, dropped |-> {}, entry |-> None]

VARIABLES
  books,    \* committed ids of table books
  fav,      \* committed rows of table favorite_books
  last,     \* last[p]: the latest committed log entry about pair p
  writer,   \* request that holds the write lock of SQLite
  tx        \* tx[r]: the request in slot r

vars == <<books, fav, last, writer, tx>>

Init ==
  /\ books = Books
  /\ fav = {}
  /\ last = [p \in Pairs |-> None]
  /\ writer = None
  /\ tx = [r \in Requests |-> Idle]

-----------------------------------------------------------------------------
(* Locks *)

Others(r) == Requests \ {r}

\* On SQLite every write takes the write lock; on PostgreSQL the conflicts
\* of the single rows count.
Acquire(r) == writer' = IF Backend = "sqlite" THEN r ELSE writer

\* No other request has this pair's row inserted or deleted, or its book
\* dropped, without having committed yet.
InsertFree(r) ==
  \A q \in Others(r) : /\ tx[r].pair \notin tx[q].inserted \cup tx[q].deleted
                       /\ tx[r].pair[2] \notin tx[q].dropped

\* No other request is deleting one of these rows.
DeleteFree(r, rows) == \A q \in Others(r) : tx[q].deleted \cap rows = {}

\* Nobody has inserted a row that references the book, or is dropping it.
DropFree(r, b) ==
  \A q \in Others(r) : b \notin tx[q].dropped /\ \A p \in tx[q].inserted : p[2] # b

\* The favourites that reference the book.
Referencing(b) == {p \in fav : p[2] = b}

\* Nobody holds a lock that the next statement of r waits for.
LocksFree(r) ==
  LET t == tx[r]
  IN /\ (Backend = "sqlite" /\ t.pc \in {"insert", "erase", "drop", "log"}) => writer \in {None, r}
     /\ t.pc = "insert" => InsertFree(r)
     /\ t.pc = "erasing" => DeleteFree(r, t.seen)
     /\ t.pc = "drop" => DropFree(r, t.pair[2])
     /\ t.pc = "cascade" => DeleteFree(r, Referencing(t.pair[2]))

-----------------------------------------------------------------------------
(* Ends of a request *)

ReleaseLeaks(r, removed) ==   \* fault: the session is never closed
  /\ UNCHANGED writer
  /\ tx' = [tx EXCEPT ![r].pc = "idle"]

Release(r, removed) ==
  /\ writer' = IF writer = r THEN None ELSE writer
  /\ tx' = [q \in Requests |-> IF q = r THEN Idle ELSE [tx[q] EXCEPT !.seen = @ \ removed]]

Rollback(r) ==
  /\ Release(r, {})
  /\ UNCHANGED <<books, fav, last>>

Commit(r) ==
  /\ tx[r].pc = "commit"
  /\ books' = books \ tx[r].dropped
  /\ fav' = (fav \ tx[r].deleted) \cup tx[r].inserted
  /\ last' = IF tx[r].entry = None THEN last ELSE [last EXCEPT ![tx[r].pair] = tx[r].entry]
  /\ Release(r, tx[r].deleted)

\* Lost connection, expired busy_timeout, crash of the server.
DbError(r) ==
  /\ tx[r].pc # "idle"
  /\ Rollback(r)

-----------------------------------------------------------------------------
(* Requests *)

Arrive(r, op, p) ==
  /\ tx[r].pc = "idle"
  /\ tx' = [tx EXCEPT ![r] = [Idle EXCEPT !.pc = "find", !.op = op, !.pair = p]]
  /\ UNCHANGED <<books, fav, last, writer>>

Favorite(r) == \E p \in Pairs : Arrive(r, "favorite", p)

Unfavorite(r) == \E p \in Pairs : Arrive(r, "unfavorite", p)

DeleteBook(r) == \E b \in Books : Arrive(r, "delete", <<None, b>>)

Go(r, pc) == tx' = [tx EXCEPT ![r].pc = pc]

AfterFind == [favorite |-> "lookup", unfavorite |-> "erase", delete |-> "drop"]

\* ensure_exists / get_by_id
Find(r) ==
  /\ tx[r].pc = "find"
  /\ IF tx[r].pair[2] \notin books
     THEN Rollback(r)
     ELSE /\ Go(r, AfterFind[tx[r].op])
          /\ UNCHANGED <<books, fav, last, writer>>

\* get_by_user_and_book: nothing to do, nothing to log.
Lookup(r) ==
  /\ tx[r].pc = "lookup"
  /\ Go(r, IF tx[r].pair \in fav THEN "commit" ELSE "insert")
  /\ UNCHANGED <<books, fav, last, writer>>

\* The insertion in its savepoint.
Insert(r) ==
  /\ tx[r].pc = "insert"
  /\ \/ /\ tx[r].pair \in fav \/ tx[r].pair[2] \notin books
        /\ Acquire(r)
        /\ Go(r, "again")
        /\ UNCHANGED <<books, fav, last>>
     \/ /\ tx[r].pair \notin fav /\ tx[r].pair[2] \in books
        /\ IF Backend = "sqlite"
           THEN /\ fav' = fav \cup {tx[r].pair}
                /\ writer' = None
                /\ Go(r, "log")
           ELSE /\ tx' = [tx EXCEPT ![r].inserted = {tx[r].pair}, ![r].pc = "log"]
                /\ UNCHANGED <<fav, writer>>
        /\ UNCHANGED <<books, last>>

\* After IntegrityError: the favourite of another request, or an error.
AgainLogged(r) ==   \* fault: the lost race counts as an addition
  /\ tx[r].pc = "again"
  /\ Go(r, "log")
  /\ UNCHANGED <<books, fav, last, writer>>

Again(r) ==
  /\ tx[r].pc = "again"
  /\ IF tx[r].pair \in fav
     THEN Go(r, "commit") /\ UNCHANGED <<books, fav, last, writer>>
     ELSE Rollback(r)

\* remove_favorite: the DELETE sees the committed rows when it starts ...
EraseOthers(r) ==   \* fault: the DELETE names the book alone
  /\ tx[r].pc = "erase"
  /\ Acquire(r)
  /\ tx' = [tx EXCEPT ![r].seen = Referencing(tx[r].pair[2]), ![r].pc = "erasing"]
  /\ UNCHANGED <<books, fav, last>>

Erase(r) ==
  /\ tx[r].pc = "erase"
  /\ Acquire(r)
  /\ tx' = [tx EXCEPT ![r].seen = fav \cap {tx[r].pair}, ![r].pc = "erasing"]
  /\ UNCHANGED <<books, fav, last>>

\* ... and removes what is left of them when it need not wait any more.
ErasedLogged(r) ==   \* fault: RETURNING is ignored
  /\ tx[r].pc = "erasing"
  /\ tx' = [tx EXCEPT ![r].deleted = tx[r].seen, ![r].seen = {}, ![r].pc = "log"]
  /\ UNCHANGED <<books, fav, last, writer>>

Erased(r) ==
  /\ tx[r].pc = "erasing"
  /\ tx' = [tx EXCEPT ![r].deleted = tx[r].seen, ![r].seen = {},
                      ![r].pc = IF tx[r].seen = {} THEN "commit" ELSE "log"]
  /\ UNCHANGED <<books, fav, last, writer>>

\* DELETE of the book ...
Drop(r) ==
  /\ tx[r].pc = "drop"
  /\ Acquire(r)
  /\ tx' = [tx EXCEPT ![r].dropped = {tx[r].pair[2]}, ![r].pc = "cascade"]
  /\ UNCHANGED <<books, fav, last>>

\* ... and, ON DELETE CASCADE, of the favourites that reference it.
CascadeOff(r) ==   \* fault: the foreign key is not enforced
  /\ tx[r].pc = "cascade"
  /\ Go(r, "log")
  /\ UNCHANGED <<books, fav, last, writer>>

Cascade(r) ==
  /\ tx[r].pc = "cascade"
  /\ tx' = [tx EXCEPT ![r].deleted = Referencing(tx[r].pair[2]), ![r].pc = "log"]
  /\ UNCHANGED <<books, fav, last, writer>>

\* The entry; that of a deletion is not about a favourite.
Entry == [favorite |-> "favorite_book", unfavorite |-> "unfavorite_book", delete |-> None]

Log(r) ==
  /\ tx[r].pc = "log"
  /\ Acquire(r)
  /\ tx' = [tx EXCEPT ![r].entry = Entry[tx[r].op], ![r].pc = "commit"]
  /\ UNCHANGED <<books, fav, last>>

\* The next statement of r, once nothing holds it up any more.
Step(r) ==
  /\ LocksFree(r)
  /\ \/ Find(r) \/ Lookup(r) \/ Insert(r) \/ Again(r) \/ Erase(r) \/ Erased(r)
     \/ Drop(r) \/ Cascade(r) \/ Log(r) \/ Commit(r)

Next ==
  \E r \in Requests :
    Favorite(r) \/ Unfavorite(r) \/ DeleteBook(r) \/ Step(r) \/ DbError(r)

Spec == Init /\ [][Next]_vars

-----------------------------------------------------------------------------
(* Properties *)

\* Every variable holds a value of the shape the code gives it.
TypeOK ==
  /\ books \subseteq Books
  /\ fav \subseteq Pairs
  /\ last \in [Pairs -> Entries \cup {None}]
  /\ writer \in Requests \cup {None}
  /\ tx \in [Requests -> Tx]

\* "Добавить книгу в избранное и залогировать реальное изменение": while the
\* book exists, a pair is a favourite exactly if the latest log entry about it
\* says so.
ChangesLogged ==
  \A p \in Pairs : p[2] \in books => (p \in fav <=> last[p] = "favorite_book")

\* Only real changes are logged: the entries about a pair alternate, however
\* many requests add or remove the same favourite at the same time.
Alternate ==
  [][\A r \in Requests : (Commit(r) /\ tx[r].entry # None) => tx[r].entry # last[tx[r].pair]]_vars

\* A favourite is one of an existing book, whatever adds it while the book is
\* deleted.
BooksKnown == \A p \in fav : p[2] \in books

\* Requests never wait for each other in a circle: favourites, their books and
\* the cascade are locked in an order that always lets one of them go on.
SomeoneGoesOn ==
  LET busy == {r \in Requests : tx[r].pc # "idle"}
  IN busy # {} => \E r \in busy : LocksFree(r)

\* To clients that read between transactions, favourites, their log and the
\* books change together and one at a time: what add_favorite,
\* remove_favorite and delete_book do in several statements is one step of
\* FavoriteLog or none.
Changes == INSTANCE FavoriteLog

ChangesRefined == Changes!Spec
=============================================================================
