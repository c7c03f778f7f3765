-------------------------------- MODULE Paging --------------------------------
(***************************************************************************)
(* A client reads a list page by page, each page continued after the key   *)
(* of the last row of the one before, while rows come, go and move.  Two   *)
(* lists are paged this way: the books, by the time of their creation, and *)
(* the chapters a user has read, by the time of reading; ids break ties.   *)
(*                                                                         *)
(* PostgreSQL compares times with times.  SQLite compares text: the key of *)
(* a book was stored by CURRENT_TIMESTAMP, without microseconds, the one   *)
(* of the cursor is bound by SQLAlchemy, with six digits of them.          *)
(***************************************************************************)
EXTENDS Naturals, FiniteSets

CONSTANTS
  Ids,       \* primary keys, which are ordered
  Times,
  Limits,    \* values of the parameter limit
  Backend,   \* "sqlite" or "postgresql"
  None

Cursors == [time : Times, id : Ids]

\* What the values of the constants must satisfy.
Parameters ==
  /\ Ids \subseteq Nat /\ Times \subseteq Nat
  /\ Limits \subseteq Nat \ {0}
  /\ Backend \in {"sqlite", "postgresql"}
  /\ None \notin Cursors

VARIABLES
  rows,      \* ids of the committed rows that match the filter
  time,      \* time[i]: created_at or read_at of row i
  dir,       \* sort_dir
  limit,
  cursor,    \* key of the last row of the last page; None: first page
  reading,   \* the client has not seen the last page yet
  shown,     \* rows on the pages so far
  twice,     \* rows on two of them
  stayed     \* rows that have been there, unmoved, since the first page

vars == <<rows, time, dir, limit, cursor, reading, shown, twice, stayed>>

pass == <<dir, limit, cursor, reading, shown, twice>>

Init ==
  /\ rows = {}
  /\ time \in [Ids -> Times]
  /\ dir \in {"asc", "desc"}
  /\ limit \in Limits
  /\ cursor = None
  /\ reading = FALSE
  /\ shown = {}
  /\ twice = {}
  /\ stayed = {}

-----------------------------------------------------------------------------
(* The statement *)

Earlier(s, t) == IF dir = "desc" THEN s > t ELSE s < t

\* ORDER BY
Before(i, j) == Earlier(time[i], time[j]) \/ (time[i] = time[j] /\ i < j)

\* WHERE
AfterTime(i) ==   \* fault: the id does not break ties
  cursor = None \/ Earlier(cursor.time, time[i])

AfterOrAt(i) ==   \* fault: the row of the cursor itself
  \/ cursor = None
  \/ Earlier(cursor.time, time[i])
  \/ time[i] = cursor.time /\ cursor.id <= i

\* With SQLite the stored text of an equal time is the shorter one, and less.
After(i) ==
  \/ cursor = None
  \/ Earlier(cursor.time, time[i])
  \/ time[i] = cursor.time /\ IF Backend = "sqlite" THEN dir = "desc" ELSE cursor.id < i

Rest == {i \in rows : After(i)}

\* LIMIT
IsPage(page) ==
  /\ page \subseteq Rest
  /\ page = Rest \/ Cardinality(page) = limit
  /\ Cardinality(page) <= limit
  /\ \A i \in page, j \in Rest \ page : Before(i, j)

-----------------------------------------------------------------------------
(* Actions *)

\* The client asks for a first page.
Open ==
  /\ ~ reading
  /\ dir' \in {"asc", "desc"}
  /\ limit' \in Limits
  /\ cursor' = None
  /\ reading' = TRUE
  /\ shown' = {}
  /\ twice' = {}
  /\ stayed' = rows
  /\ UNCHANGED <<rows, time>>

\* It asks again while the pages are full.
Page ==
  /\ reading
  /\ \E page \in SUBSET rows :
       /\ IsPage(page)
       /\ \/ page = {} /\ cursor' = cursor
          \/ \E last \in page :
               /\ \A i \in page \ {last} : Before(i, last)
               /\ cursor' = [time |-> time[last], id |-> last]
       /\ shown' = shown \cup page
       /\ twice' = twice \cup (page \cap shown)
       /\ reading' = (Cardinality(page) = limit)
  /\ UNCHANGED <<rows, time, dir, limit, stayed>>

\* A book is added or matches the filter from now on, a chapter is read for
\* the first time.  The time is that of the start of the transaction, which
\* may be earlier than that of any row committed before.
Appear(i) ==
  /\ i \notin rows
  /\ rows' = rows \cup {i}
  /\ \E t \in Times : time' = [time EXCEPT ![i] = t]
  /\ UNCHANGED <<pass, stayed>>

\* A book is deleted or does not match the filter any more; the history of
\* a book is cleared or goes with it.
Vanish(i) ==
  /\ i \in rows
  /\ rows' = rows \ {i}
  /\ stayed' = stayed \ {i}
  /\ UNCHANGED <<pass, time>>

\* A chapter is read again.
Move(i) ==
  /\ i \in rows
  /\ \E t \in Times \ {time[i]} : time' = [time EXCEPT ![i] = t]
  /\ stayed' = stayed \ {i}
  /\ UNCHANGED <<pass, rows>>

Next == Open \/ Page \/ \E i \in Ids : Appear(i) \/ Vanish(i) \/ Move(i)

Spec == Init /\ [][Next]_vars

-----------------------------------------------------------------------------
(* Properties *)

\* Every variable holds a value of the shape the code gives it.
TypeOK ==
  /\ rows \subseteq Ids
  /\ time \in [Ids -> Times]
  /\ dir \in {"asc", "desc"}
  /\ limit \in Limits
  /\ cursor \in Cursors \cup {None}
  /\ reading \in BOOLEAN
  /\ shown \subseteq Ids
  /\ twice \subseteq Ids
  /\ stayed \subseteq rows

\* A row that stays where it is while the client turns the pages is on one of
\* them at most, whatever rows around it, that of the cursor included, come,
\* go or move between two pages.
NoneTwice == twice \cap stayed = {}

\* When the client has come to the last page, it has seen every row that
\* stayed where it is.
NoneMissed == ~ reading => stayed \subseteq shown
=============================================================================
