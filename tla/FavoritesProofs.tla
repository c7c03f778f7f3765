--------------------------- MODULE FavoritesProofs ---------------------------
(***************************************************************************)
(* Proofs about Favorites for any users, books and requests: on both       *)
(* backends the shape of requests, that one of them can always go on, and  *)
(* that favourites are of existing books; on PostgreSQL, where the         *)
(* savepoint of add_favorite is part of its transaction, the log.          *)
(***************************************************************************)
EXTENDS Favorites, TLAPS

\* The steps an operation goes through.
Path == [favorite   |-> {"find", "lookup", "insert", "again", "log", "commit"},
         unfavorite |-> {"find", "erase", "erasing", "log", "commit"},
         delete     |-> {"find", "drop", "cascade", "log", "commit"}]

\* A slot is empty, or holds one of the three operations at a step of its own.
Known(t) ==
  \/ t = Idle
  \/ /\ t.op \in {"favorite", "unfavorite", "delete"}
     /\ t.pc \in Path[t.op]
     /\ t.pair \in IF t.op = "delete" THEN {None} \X Books ELSE Pairs

Shape == TypeOK /\ \A r \in Requests : Known(tx[r])

-----------------------------------------------------------------------------
(* The shape, on both backends *)

LEMMA KnownBusy ==
  ASSUME Shape, NEW r \in Requests, tx[r].pc # "idle"
  PROVE  /\ tx[r] \in Tx /\ tx[r].pair[2] \in Books
         /\ tx[r].op \in {"favorite", "unfavorite", "delete"}
         /\ tx[r].pc \in Path[tx[r].op]
         /\ tx[r].pair \in IF tx[r].op = "delete" THEN {None} \X Books ELSE Pairs
<1>1. tx[r] \in Tx /\ tx[r] # Idle
  BY DEF Shape, TypeOK, Idle
<1>2. Known(tx[r])
  BY DEF Shape
<1>3. QED
  BY <1>1, <1>2 DEF Known, Pairs

LEMMA IdleShape == Idle \in Tx /\ Known(Idle)
BY DEF Idle, Tx, Steps, Known

LEMMA ShapeKept ==
  ASSUME Shape, NEW r \in Requests, NEW q \in Tx, Known(q), tx' = [tx EXCEPT ![r] = q],
         books' \subseteq Books, fav' \subseteq Pairs, last' \in [Pairs -> Entries \cup {None}],
         writer' \in Requests \cup {None}
  PROVE  Shape'
<1>1. tx' \in [Requests -> Tx] /\ \A s \in Requests : Known(tx'[s])
  BY DEF Shape, TypeOK
<1>2. QED
  BY <1>1 DEF Shape, TypeOK

LEMMA ShapeReleased ==
  ASSUME Shape, NEW r \in Requests, NEW removed, Release(r, removed),
         books' \subseteq Books, fav' \subseteq Pairs, last' \in [Pairs -> Entries \cup {None}]
  PROVE  Shape'
<1>1. writer' \in Requests \cup {None}
  BY DEF Shape, TypeOK, Release
<1>2. ASSUME NEW s \in Requests PROVE tx'[s] \in Tx /\ Known(tx'[s])
  <2>1. CASE s = r
    BY <2>1, IdleShape DEF Release
  <2>2. CASE s # r
    <3> DEFINE q == [tx[s] EXCEPT !.seen = @ \ removed]
    <3>1. tx'[s] = q /\ tx[s] \in Tx /\ Known(tx[s])
      BY <2>2 DEF Shape, TypeOK, Release
    <3>2. q \in Tx
      BY <3>1 DEF Tx
    <3>3. CASE tx[s] = Idle
      <4>1. q = Idle
        BY <3>3 DEF Idle
      <4>2. QED
        BY <3>1, <4>1, IdleShape
    <3>4. CASE tx[s] # Idle
      <4>1. q.op = tx[s].op /\ q.pc = tx[s].pc /\ q.pair = tx[s].pair
        BY <3>1 DEF Tx
      <4>2. Known(q)
        BY <3>1, <3>4, <4>1 DEF Known
      <4>3. QED
        BY <3>1, <3>2, <4>2
    <3>5. QED
      BY <3>3, <3>4
  <2>3. QED
    BY <2>1, <2>2
<1>3. tx' \in [Requests -> Tx]
  BY <1>2 DEF Release
<1>4. QED
  BY <1>1, <1>2, <1>3 DEF Shape, TypeOK

LEMMA ShapeRollback ==
  ASSUME Shape, NEW r \in Requests, Rollback(r) PROVE Shape'
BY ShapeReleased DEF Rollback, Shape, TypeOK

LEMMA ShapeInit == ASSUME Init PROVE Shape
BY IdleShape DEF Init, Shape, TypeOK

-----------------------------------------------------------------------------
(* What a statement does to its request *)

\* The request goes on to step pc with these uncommitted changes.
Turn(r, pc, seen, inserted, deleted, dropped, entry) ==
  tx' = [tx EXCEPT ![r] = [pc |-> pc, op |-> tx[r].op, pair |-> tx[r].pair, seen |-> seen,
                           inserted |-> inserted, deleted |-> deleted, dropped |-> dropped,
                           entry |-> entry]]

Moved(r, pc) ==
  Turn(r, pc, tx[r].seen, tx[r].inserted, tx[r].deleted, tx[r].dropped, tx[r].entry)

LEMMA GoMoves == ASSUME Shape, NEW r \in Requests, NEW pc, Go(r, pc) PROVE Moved(r, pc)
<1> DEFINE q == [tx[r] EXCEPT !.pc = pc]
<1>1. tx[r] \in Tx /\ tx' = [tx EXCEPT ![r] = q]
  BY DEF Shape, TypeOK, Go
<1>2. q = [pc |-> pc, op |-> tx[r].op, pair |-> tx[r].pair, seen |-> tx[r].seen,
           inserted |-> tx[r].inserted, deleted |-> tx[r].deleted, dropped |-> tx[r].dropped,
           entry |-> tx[r].entry]
  BY <1>1 DEF Tx
<1>3. QED
  BY <1>1, <1>2 DEF Moved, Turn

LEMMA ShapeTurned ==
  ASSUME Shape, NEW r \in Requests, tx[r].pc # "idle",
         NEW pc \in Path[tx[r].op], NEW seen \in SUBSET Pairs, NEW inserted \in SUBSET Pairs,
         NEW deleted \in SUBSET Pairs, NEW dropped \in SUBSET Books,
         NEW entry \in Entries \cup {None}, Turn(r, pc, seen, inserted, deleted, dropped, entry),
         books' = books, last' = last, fav' \subseteq Pairs, writer' \in Requests \cup {None}
  PROVE  Shape'
<1> DEFINE q == [pc |-> pc, op |-> tx[r].op, pair |-> tx[r].pair, seen |-> seen,
                 inserted |-> inserted, deleted |-> deleted, dropped |-> dropped, entry |-> entry]
<1>1. tx' = [tx EXCEPT ![r] = q]
  BY DEF Turn
<1>2. pc \in Steps
  BY KnownBusy DEF Path, Steps
<1>3. q \in Tx /\ Known(q)
  BY <1>2, KnownBusy DEF Tx, Known
<1> HIDE DEF q
<1>4. QED
  BY <1>1, <1>3, ShapeKept DEF Shape, TypeOK

LEMMA Typed ==
  ASSUME Shape
  PROVE  /\ books \subseteq Books /\ fav \subseteq Pairs /\ writer \in Requests \cup {None}
         /\ \A r \in Requests : Acquire(r) => writer' \in Requests \cup {None}
BY DEF Shape, TypeOK, Acquire

\* Statements that touch nothing but the step of their request.
LEMMA Steady ==
  ASSUME Shape, NEW r \in Requests, Find(r) \/ Lookup(r) \/ Again(r)
  PROVE  \/ Rollback(r)
         \/ /\ UNCHANGED <<books, fav, last, writer>>
            /\ \/ /\ tx[r].pc = "find" /\ Moved(r, AfterFind[tx[r].op])
               \/ /\ tx[r].pc \in {"lookup", "again"} /\ tx[r].op = "favorite"
                  /\ Moved(r, "commit") \/ Moved(r, "insert")
<1>1. tx[r].pc # "idle"
  BY DEF Find, Lookup, Again
<1>2. tx[r].op \in {"favorite", "unfavorite", "delete"} /\ tx[r].pc \in Path[tx[r].op]
  BY <1>1, KnownBusy
<1>3. CASE Find(r)
  BY <1>3, GoMoves DEF Find
<1>4. CASE Lookup(r)
  BY <1>2, <1>4, GoMoves DEF Lookup, Path
<1>5. CASE Again(r)
  BY <1>2, <1>5, GoMoves DEF Again, Path
<1>6. QED
  BY <1>3, <1>4, <1>5

LEMMA InsertTurns ==
  ASSUME Shape, NEW r \in Requests, Insert(r)
  PROVE  /\ tx[r].pc = "insert" /\ tx[r].op = "favorite"
         /\ books' = books /\ last' = last
         /\ \/ Moved(r, "again") /\ fav' = fav /\ Acquire(r)
            \/ /\ Backend = "sqlite" /\ Moved(r, "log")
               /\ fav' = fav \cup {tx[r].pair} /\ writer' = None
            \/ /\ Backend # "sqlite" /\ UNCHANGED <<fav, writer>>
               /\ tx[r].pair \notin fav /\ tx[r].pair[2] \in books
               /\ Turn(r, "log", tx[r].seen, {tx[r].pair}, tx[r].deleted, tx[r].dropped,
                       tx[r].entry)
<1>1. tx[r].pc = "insert" /\ books' = books /\ last' = last
  BY DEF Insert
<1>2. tx[r].op = "favorite" /\ tx[r] \in Tx
  BY <1>1, KnownBusy DEF Path
<1>3. CASE Go(r, "again") /\ fav' = fav /\ Acquire(r)
  BY <1>1, <1>2, <1>3, GoMoves
<1>4. CASE Backend = "sqlite" /\ Go(r, "log") /\ fav' = fav \cup {tx[r].pair} /\ writer' = None
  BY <1>1, <1>2, <1>4, GoMoves
<1>5. CASE /\ Backend # "sqlite" /\ UNCHANGED <<fav, writer>>
           /\ tx[r].pair \notin fav /\ tx[r].pair[2] \in books
           /\ tx' = [tx EXCEPT ![r].inserted = {tx[r].pair}, ![r].pc = "log"]
  <2>1. Turn(r, "log", tx[r].seen, {tx[r].pair}, tx[r].deleted, tx[r].dropped, tx[r].entry)
    <3> DEFINE rows == {tx[r].pair}
               mid == [tx[r] EXCEPT !.inserted = rows]
               q == [mid EXCEPT !.pc = "log"]
    <3>1. tx' = [tx EXCEPT ![r] = q]
      BY <1>5 DEF Shape, TypeOK
    <3> HIDE DEF rows
    <3>2. mid = [pc |-> tx[r].pc, op |-> tx[r].op, pair |-> tx[r].pair, seen |-> tx[r].seen,
                 inserted |-> rows, deleted |-> tx[r].deleted, dropped |-> tx[r].dropped,
                 entry |-> tx[r].entry]
      BY <1>2 DEF Tx
    <3> HIDE DEF mid
    <3>3. q = [pc |-> "log", op |-> tx[r].op, pair |-> tx[r].pair, seen |-> tx[r].seen,
               inserted |-> rows, deleted |-> tx[r].deleted, dropped |-> tx[r].dropped,
               entry |-> tx[r].entry]
      BY <3>2
    <3>4. QED
      BY <3>1, <3>3 DEF Turn, rows
  <2>2. QED
    BY <1>1, <1>2, <1>5, <2>1
<1>6. QED
  BY <1>3, <1>4, <1>5 DEF Insert

LEMMA EraseTurns ==
  ASSUME Shape, NEW r \in Requests, Erase(r)
  PROVE  /\ tx[r].pc = "erase" /\ tx[r].op = "unfavorite"
         /\ UNCHANGED <<books, fav, last>> /\ Acquire(r)
         /\ Turn(r, "erasing", fav \cap {tx[r].pair}, tx[r].inserted, tx[r].deleted,
                 tx[r].dropped, tx[r].entry)
<1>1. tx[r].op = "unfavorite" /\ tx[r] \in Tx
  BY KnownBusy DEF Path, Erase
<1>2. QED
  BY <1>1 DEF Erase, Turn, Tx, Shape, TypeOK

LEMMA ErasedTurns ==
  ASSUME Shape, NEW r \in Requests, Erased(r)
  PROVE  /\ tx[r].pc = "erasing" /\ tx[r].op = "unfavorite"
         /\ UNCHANGED <<books, fav, last, writer>>
         /\ Turn(r, IF tx[r].seen = {} THEN "commit" ELSE "log", {}, tx[r].inserted,
                 tx[r].seen, tx[r].dropped, tx[r].entry)
<1>1. tx[r].op = "unfavorite" /\ tx[r] \in Tx
  BY KnownBusy DEF Path, Erased
<1>2. QED
  BY <1>1 DEF Erased, Turn, Tx, Shape, TypeOK

LEMMA DropTurns ==
  ASSUME Shape, NEW r \in Requests, Drop(r)
  PROVE  /\ tx[r].pc = "drop" /\ tx[r].op = "delete"
         /\ UNCHANGED <<books, fav, last>> /\ Acquire(r)
         /\ Turn(r, "cascade", tx[r].seen, tx[r].inserted, tx[r].deleted, {tx[r].pair[2]},
                 tx[r].entry)
<1>1. tx[r].op = "delete" /\ tx[r] \in Tx
  BY KnownBusy DEF Path, Drop
<1>2. QED
  BY <1>1 DEF Drop, Turn, Tx, Shape, TypeOK

LEMMA CascadeTurns ==
  ASSUME Shape, NEW r \in Requests, Cascade(r)
  PROVE  /\ tx[r].pc = "cascade" /\ tx[r].op = "delete"
         /\ UNCHANGED <<books, fav, last, writer>>
         /\ Turn(r, "log", tx[r].seen, tx[r].inserted, Referencing(tx[r].pair[2]),
                 tx[r].dropped, tx[r].entry)
<1>1. tx[r].op = "delete" /\ tx[r] \in Tx
  BY KnownBusy DEF Path, Cascade
<1>2. QED
  BY <1>1 DEF Cascade, Turn, Tx, Shape, TypeOK

LEMMA LogTurns ==
  ASSUME Shape, NEW r \in Requests, Log(r)
  PROVE  /\ tx[r].pc = "log" /\ UNCHANGED <<books, fav, last>> /\ Acquire(r)
         /\ Turn(r, "commit", tx[r].seen, tx[r].inserted, tx[r].deleted, tx[r].dropped,
                 Entry[tx[r].op])
<1>1. tx[r] \in Tx
  BY DEF Shape, TypeOK
<1>2. QED
  BY <1>1 DEF Log, Turn, Tx, Shape, TypeOK

-----------------------------------------------------------------------------
(* Type correctness *)

LEMMA ArriveShape ==
  ASSUME Shape, NEW r \in Requests, NEW op, NEW p, Arrive(r, op, p),
         \/ op \in {"favorite", "unfavorite"} /\ p \in Pairs
         \/ op = "delete" /\ p \in {None} \X Books
  PROVE  Shape'
<1> DEFINE q == [Idle EXCEPT !.pc = "find", !.op = op, !.pair = p]
<1>1. tx' = [tx EXCEPT ![r] = q] /\ UNCHANGED <<books, fav, last, writer>>
  BY DEF Arrive
<1>2. /\ q \in Tx /\ q.pc = "find" /\ q.op = op /\ q.pair = p
  BY IdleShape DEF Tx, Steps, Pairs
<1> HIDE DEF q
<1>3. Known(q)
  BY <1>2 DEF Known, Path
<1>4. QED
  BY <1>1, <1>2, <1>3, ShapeKept DEF Shape, TypeOK

LEMMA ShapeStep == ASSUME Shape, NEW r \in Requests, Step(r) PROVE Shape'
<1>1. /\ books \subseteq Books /\ fav \subseteq Pairs /\ writer \in Requests \cup {None}
      /\ Acquire(r) => writer' \in Requests \cup {None}
      /\ last \in [Pairs -> Entries \cup {None}]
  BY Typed DEF Shape, TypeOK
<1>2. CASE Commit(r)
  <2>1. /\ tx[r].pc # "idle" /\ tx[r].inserted \subseteq Pairs
        /\ tx[r].entry \in Entries \cup {None}
    BY <1>2 DEF Commit, Shape, TypeOK, Tx
  <2>2. last' \in [Pairs -> Entries \cup {None}]
    BY <1>1, <1>2, <2>1 DEF Commit
  <2>3. QED
    BY <1>1, <1>2, <2>1, <2>2, ShapeReleased DEF Commit
<1>3. CASE ~ Commit(r)
  <2>1. CASE Rollback(r)
    BY <2>1, ShapeRollback
  <2>2. CASE ~ Rollback(r)
    <3>1. tx[r].pc # "idle"
      BY <1>3 DEF Step, Find, Lookup, Insert, Again, Erase, Erased, Drop, Cascade, Log
    <3>2. /\ tx[r].seen \in SUBSET Pairs /\ tx[r].inserted \in SUBSET Pairs
          /\ tx[r].deleted \in SUBSET Pairs /\ tx[r].dropped \in SUBSET Books
          /\ tx[r].entry \in Entries \cup {None} /\ tx[r].pair[2] \in Books
          /\ tx[r].op \in {"favorite", "unfavorite", "delete"} /\ tx[r].pc \in Path[tx[r].op]
          /\ tx[r].op # "delete" => tx[r].pair \in Pairs
      BY <3>1, KnownBusy DEF Tx
    <3>3. ASSUME NEW pc \in Path[tx[r].op], Moved(r, pc), books' = books, last' = last,
                 fav' \subseteq Pairs, writer' \in Requests \cup {None}
          PROVE  Shape'
      BY <3>1, <3>2, <3>3, ShapeTurned DEF Moved
    <3>4. CASE Find(r) \/ Lookup(r) \/ Again(r)
      <4>1. /\ AfterFind[tx[r].op] \in Path[tx[r].op]
            /\ tx[r].op = "favorite" => {"commit", "insert"} \subseteq Path[tx[r].op]
        BY <3>2 DEF AfterFind, Path
      <4>2. QED
        BY <1>1, <2>2, <3>3, <3>4, <4>1, Steady
    <3>5. CASE Insert(r)
      <4>1. tx[r].op = "favorite" /\ tx[r].pair \in Pairs
        BY <3>2, <3>5, InsertTurns
      <4>2. {"again", "log"} \subseteq Path[tx[r].op] /\ {tx[r].pair} \in SUBSET Pairs
        BY <4>1 DEF Path
      <4>3. QED
        BY <1>1, <3>1, <3>2, <3>3, <3>5, <4>2, InsertTurns, ShapeTurned
    <3>6. CASE Erase(r)
      <4>1. tx[r].op = "unfavorite"
        BY <3>6, EraseTurns
      <4>2. "erasing" \in Path[tx[r].op] /\ fav \cap {tx[r].pair} \in SUBSET Pairs
        BY <1>1, <4>1 DEF Path
      <4>3. QED
        BY <1>1, <3>1, <3>2, <3>6, <4>2, EraseTurns, ShapeTurned
    <3>7. CASE Erased(r)
      <4>1. {"commit", "log"} \subseteq Path[tx[r].op] /\ {} \in SUBSET Pairs
        BY <3>7, ErasedTurns DEF Path
      <4>2. QED
        BY <1>1, <3>1, <3>2, <3>7, <4>1, ErasedTurns, ShapeTurned
    <3>8. CASE Drop(r)
      <4>1. tx[r].op = "delete"
        BY <3>8, DropTurns
      <4>2. "cascade" \in Path[tx[r].op] /\ {tx[r].pair[2]} \in SUBSET Books
        BY <3>2, <4>1 DEF Path
      <4>3. QED
        BY <1>1, <3>1, <3>2, <3>8, <4>2, DropTurns, ShapeTurned
    <3>9. CASE Cascade(r)
      <4> DEFINE rows == Referencing(tx[r].pair[2])
      <4>1. /\ tx[r].op = "delete" /\ UNCHANGED <<books, fav, last, writer>>
            /\ Turn(r, "log", tx[r].seen, tx[r].inserted, rows, tx[r].dropped, tx[r].entry)
        BY <3>9, CascadeTurns
      <4>2. "log" \in Path[tx[r].op] /\ rows \in SUBSET Pairs
        BY <1>1, <4>1 DEF Path, Referencing
      <4> HIDE DEF rows
      <4>3. QED
        BY <1>1, <3>1, <3>2, <4>1, <4>2, ShapeTurned
    <3>10. CASE Log(r)
      <4>1. "commit" \in Path[tx[r].op] /\ Entry[tx[r].op] \in Entries \cup {None}
        BY <3>2 DEF Path, Entry, Entries
      <4>2. QED
        BY <1>1, <3>1, <3>2, <3>10, <4>1, LogTurns, ShapeTurned
    <3>11. QED
      BY <1>3, <3>4, <3>5, <3>6, <3>7, <3>8, <3>9, <3>10 DEF Step
  <2>3. QED
    BY <2>1, <2>2
<1>4. QED
  BY <1>2, <1>3

LEMMA ShapeNext == ASSUME Shape, [Next]_vars PROVE Shape'
<1>1. CASE UNCHANGED vars
  BY <1>1 DEF vars, Shape, TypeOK
<1>2. ASSUME NEW r \in Requests, Favorite(r) \/ Unfavorite(r) \/ DeleteBook(r) PROVE Shape'
  <2>1. ASSUME NEW p \in Pairs, Arrive(r, "favorite", p) \/ Arrive(r, "unfavorite", p)
        PROVE  Shape'
    BY <2>1, ArriveShape
  <2>2. ASSUME NEW b \in Books, Arrive(r, "delete", <<None, b>>) PROVE Shape'
    BY <2>2, ArriveShape
  <2>3. QED
    BY <1>2, <2>1, <2>2 DEF Favorite, Unfavorite, DeleteBook
<1>3. ASSUME NEW r \in Requests, DbError(r) PROVE Shape'
  BY <1>3, ShapeRollback DEF DbError
<1>4. QED
  BY <1>1, <1>2, <1>3, ShapeStep DEF Next

\* Every variable keeps the shape the code gives it, and every request its
\* operation and the user and book it names, on both backends and for any
\* users, books and requests.
THEOREM TypeCorrect == Spec => []TypeOK
<1>1. Spec => []Shape
  BY ShapeInit, ShapeNext, PTL DEF Spec
<1>2. Shape => TypeOK
  BY DEF Shape
<1>3. QED
  BY <1>1, <1>2, PTL

-----------------------------------------------------------------------------
(* Rows and log, on PostgreSQL *)

\* A change of a favourite has been made, its log entry follows or is there.
Changed(t) == t.pc = "log" \/ t.entry # None

\* The uncommitted changes are those of the operation so far.
Local(t) ==
  /\ t.entry # None => t.pc = "commit" /\ t.entry = Entry[t.op]
  /\ t.inserted = IF t.op = "favorite" /\ Changed(t) THEN {t.pair} ELSE {}
  /\ t.dropped = IF t.op = "delete" /\ t.pc \in {"cascade", "log", "commit"}
                 THEN {t.pair[2]} ELSE {}
  /\ t.op # "unfavorite" => t.seen = {}
  /\ t.op = "favorite" => t.deleted = {}
  /\ t.op = "unfavorite" => /\ t.seen \subseteq {t.pair}
                            /\ t.deleted = IF Changed(t) THEN {t.pair} ELSE {}
  /\ t.op = "delete" => \A p \in t.deleted : p[2] = t.pair[2]

\* They are still possible on the committed rows: locks keep those from
\* changing underneath.  A deletion of a book has all its favourites.
Possible(t) ==
  /\ t.seen \subseteq fav /\ t.deleted \subseteq fav
  /\ \A p \in t.inserted : p \notin fav /\ p[2] \in books
  /\ (t.op = "delete" /\ t.pc \in {"log", "commit"}) =>
       \A p \in fav : p[2] = t.pair[2] => p \in t.deleted

\* Changes of two requests do not touch each other.
Apart(t, u) ==
  /\ t.inserted \cap u.inserted = {} /\ t.deleted \cap u.deleted = {}
  /\ \A p \in t.inserted : p[2] \notin u.dropped
  /\ \A p \in u.inserted : p[2] \notin t.dropped

Rows ==
  /\ \A r \in Requests : Local(tx[r]) /\ Possible(tx[r])
  /\ \A r \in Requests, s \in Requests : r # s => Apart(tx[r], tx[s])

Sound == Shape /\ Rows /\ BooksKnown /\ ChangesLogged

LEMMA IdleRows ==
  /\ Local(Idle) /\ Possible(Idle)
  /\ \A t \in Tx : Apart(Idle, t) /\ Apart(t, Idle)
<1>1. /\ Idle.pc = "idle" /\ Idle.entry = None /\ Idle.seen = {} /\ Idle.inserted = {}
      /\ Idle.deleted = {} /\ Idle.dropped = {}
  BY DEF Idle
<1>2. ~ Changed(Idle)
  BY <1>1 DEF Changed
<1>3. Local(Idle)
  BY <1>1, <1>2 DEF Local
<1>4. Possible(Idle)
  BY <1>1 DEF Possible
<1>5. \A t \in Tx : Apart(Idle, t) /\ Apart(t, Idle)
  BY <1>1 DEF Apart, Tx
<1>6. QED
  BY <1>3, <1>4, <1>5

LEMMA SoundInit == ASSUME Parameters, Init PROVE Sound
<1>1. Shape
  BY ShapeInit
<1>2. Rows
  BY IdleRows, IdleShape DEF Init, Rows
<1>3. BooksKnown /\ ChangesLogged
  BY DEF Parameters, Entries, Init, BooksKnown, ChangesLogged
<1>4. QED
  BY <1>1, <1>2, <1>3 DEF Sound

\* A statement that commits nothing.
LEMMA RowsTurned ==
  ASSUME Sound, Shape', NEW r \in Requests, NEW q, tx' = [tx EXCEPT ![r] = q],
         UNCHANGED <<books, fav, last>>, Local(q), Possible(q),
         \A s \in Others(r) : Apart(q, tx[s])
  PROVE  Sound'
<1>1. ASSUME NEW s \in Requests PROVE (Local(tx[s]) /\ Possible(tx[s]))'
  BY DEF Sound, Rows, Shape, TypeOK, Possible
<1>2. ASSUME NEW s \in Requests, NEW t \in Requests, s # t
      PROVE  Apart(tx[s], tx[t])'
  <2>1. \A u, v : Apart(u, v) => Apart(v, u)
    BY DEF Apart
  <2>2. QED
    BY <1>2, <2>1 DEF Sound, Rows, Shape, TypeOK, Others
<1>3. Rows'
  BY <1>1, <1>2 DEF Rows, Local, Apart, Changed
<1>4. BooksKnown' /\ ChangesLogged'
  BY DEF Sound, BooksKnown, ChangesLogged
<1>5. QED
  BY <1>3, <1>4 DEF Sound

LEMMA SoundBusy ==
  ASSUME Sound, NEW r \in Requests, tx[r].pc # "idle"
  PROVE  /\ Local(tx[r]) /\ Possible(tx[r]) /\ \A s \in Others(r) : Apart(tx[r], tx[s])
         /\ tx[r].op \in {"favorite", "unfavorite", "delete"} /\ tx[r].pc \in Path[tx[r].op]
<1>1. Shape /\ Rows
  BY DEF Sound
<1>2. QED
  BY <1>1, KnownBusy DEF Rows, Others

LEMMA SoundMoved ==
  ASSUME Sound, Shape', NEW r \in Requests, NEW pc, Moved(r, pc), UNCHANGED <<books, fav, last>>,
         tx[r].pc \in {"find", "lookup", "insert", "again"},
         \/ pc \in {"lookup", "insert", "again", "erase", "drop"}
         \/ pc = "commit" /\ tx[r].op = "favorite"
  PROVE  Sound'
<1> DEFINE q == [pc |-> pc, op |-> tx[r].op, pair |-> tx[r].pair, seen |-> tx[r].seen,
                 inserted |-> tx[r].inserted, deleted |-> tx[r].deleted,
                 dropped |-> tx[r].dropped, entry |-> tx[r].entry]
<1>1. tx' = [tx EXCEPT ![r] = q]
  BY DEF Moved, Turn
<1>2. /\ q.pc = pc /\ q.op = tx[r].op /\ q.pair = tx[r].pair /\ q.seen = tx[r].seen
      /\ q.inserted = tx[r].inserted /\ q.deleted = tx[r].deleted
      /\ q.dropped = tx[r].dropped /\ q.entry = tx[r].entry
  OBVIOUS
<1> HIDE DEF q
<1>3. Local(tx[r]) /\ Possible(tx[r]) /\ \A s \in Others(r) : Apart(tx[r], tx[s])
  BY SoundBusy
<1>4. tx[r].entry = None /\ ~ Changed(tx[r]) /\ ~ Changed(q)
  BY <1>2, <1>3 DEF Local, Changed
<1>5. Local(q)
  BY <1>2, <1>3, <1>4 DEF Local
<1>6. Possible(q)
  BY <1>2, <1>3 DEF Possible
<1>7. \A s \in Others(r) : Apart(q, tx[s])
  BY <1>2, <1>3 DEF Apart
<1>8. QED
  BY <1>1, <1>5, <1>6, <1>7, RowsTurned

LEMMA SoundInsert ==
  ASSUME Sound, Shape', NEW r \in Requests, Backend = "postgresql", LocksFree(r), Insert(r)
  PROVE  Sound'
<1>1. Shape
  BY DEF Sound
<1>2. CASE Moved(r, "again") /\ fav' = fav
  BY <1>1, <1>2, InsertTurns, SoundMoved
<1>3. CASE /\ UNCHANGED fav /\ tx[r].pair \notin fav /\ tx[r].pair[2] \in books
           /\ Turn(r, "log", tx[r].seen, {tx[r].pair}, tx[r].deleted, tx[r].dropped,
                   tx[r].entry)
  <2> DEFINE q == [pc |-> "log", op |-> tx[r].op, pair |-> tx[r].pair, seen |-> tx[r].seen,
                   inserted |-> {tx[r].pair}, deleted |-> tx[r].deleted,
                   dropped |-> tx[r].dropped, entry |-> tx[r].entry]
  <2>1. tx' = [tx EXCEPT ![r] = q] /\ UNCHANGED <<books, fav, last>>
    BY <1>1, <1>3, InsertTurns DEF Turn
  <2>2. /\ q.pc = "log" /\ q.op = "favorite" /\ q.pair = tx[r].pair /\ q.seen = tx[r].seen
        /\ q.inserted = {tx[r].pair} /\ q.deleted = tx[r].deleted
        /\ q.dropped = tx[r].dropped /\ q.entry = tx[r].entry
    BY <1>1, InsertTurns
  <2> HIDE DEF q
  <2>3. /\ tx[r].op = "favorite" /\ tx[r].pc = "insert" /\ InsertFree(r)
        /\ Local(tx[r]) /\ Possible(tx[r]) /\ \A s \in Others(r) : Apart(tx[r], tx[s])
    BY <1>1, InsertTurns, SoundBusy DEF LocksFree
  <2>4. tx[r].dropped = {} /\ tx[r].deleted = {} /\ tx[r].seen = {} /\ tx[r].entry = None
    BY <2>3 DEF Local
  <2>5. Local(q)
    BY <2>2, <2>4 DEF Local, Changed
  <2>6. Possible(q)
    BY <1>3, <2>2, <2>4 DEF Possible
  <2>7. \A s \in Others(r) : Apart(q, tx[s])
    BY <2>2, <2>3, <2>4 DEF Apart, InsertFree
  <2>8. QED
    BY <2>1, <2>5, <2>6, <2>7, RowsTurned
<1>4. QED
  BY <1>1, <1>2, <1>3, InsertTurns

LEMMA SoundErase ==
  ASSUME Sound, Shape', NEW r \in Requests, Erase(r) PROVE Sound'
<1> DEFINE q == [pc |-> "erasing", op |-> tx[r].op, pair |-> tx[r].pair,
                 seen |-> fav \cap {tx[r].pair}, inserted |-> tx[r].inserted,
                 deleted |-> tx[r].deleted, dropped |-> tx[r].dropped, entry |-> tx[r].entry]
<1>1. Shape
  BY DEF Sound
<1>2. tx' = [tx EXCEPT ![r] = q] /\ UNCHANGED <<books, fav, last>>
  BY <1>1, EraseTurns DEF Turn
<1>3. /\ q.pc = "erasing" /\ q.op = "unfavorite" /\ q.pair = tx[r].pair
      /\ q.seen = fav \cap {tx[r].pair} /\ q.inserted = tx[r].inserted
      /\ q.deleted = tx[r].deleted /\ q.dropped = tx[r].dropped /\ q.entry = tx[r].entry
  BY <1>1, EraseTurns
<1> HIDE DEF q
<1>4. /\ tx[r].op = "unfavorite" /\ tx[r].pc = "erase"
      /\ Local(tx[r]) /\ Possible(tx[r]) /\ \A s \in Others(r) : Apart(tx[r], tx[s])
  BY <1>1, EraseTurns, SoundBusy
<1>5. Local(q)
  BY <1>3, <1>4 DEF Local, Changed
<1>6. Possible(q)
  BY <1>3, <1>4 DEF Possible
<1>7. \A s \in Others(r) : Apart(q, tx[s])
  BY <1>3, <1>4 DEF Apart
<1>8. QED
  BY <1>2, <1>5, <1>6, <1>7, RowsTurned

LEMMA SoundErased ==
  ASSUME Sound, Shape', NEW r \in Requests, LocksFree(r), Erased(r) PROVE Sound'
<1> DEFINE next == IF tx[r].seen = {} THEN "commit" ELSE "log"
           q == [pc |-> next, op |-> tx[r].op, pair |-> tx[r].pair,
                 seen |-> {}, inserted |-> tx[r].inserted,
                 deleted |-> tx[r].seen, dropped |-> tx[r].dropped, entry |-> tx[r].entry]
<1>1. Shape
  BY DEF Sound
<1>2. tx' = [tx EXCEPT ![r] = q] /\ UNCHANGED <<books, fav, last>>
  BY <1>1, ErasedTurns DEF Turn
<1>3. /\ q.pc = next /\ q.op = "unfavorite" /\ q.pair = tx[r].pair
      /\ q.seen = {} /\ q.inserted = tx[r].inserted
      /\ q.deleted = tx[r].seen /\ q.dropped = tx[r].dropped /\ q.entry = tx[r].entry
  BY <1>1, ErasedTurns
<1> HIDE DEF q
<1>4. /\ tx[r].op = "unfavorite" /\ tx[r].pc = "erasing" /\ DeleteFree(r, tx[r].seen)
      /\ Local(tx[r]) /\ Possible(tx[r]) /\ \A s \in Others(r) : Apart(tx[r], tx[s])
  BY <1>1, ErasedTurns, SoundBusy DEF LocksFree
<1>5. Local(q)
  <2>1. tx[r].entry = None /\ tx[r].inserted = {} /\ tx[r].dropped = {}
        /\ tx[r].seen \subseteq {tx[r].pair}
    BY <1>4 DEF Local
  <2>2. CASE tx[r].seen = {}
    BY <1>3, <2>1, <2>2 DEF Local, Changed
  <2>3. CASE tx[r].seen = {tx[r].pair}
    BY <1>3, <2>1, <2>3 DEF Local, Changed
  <2>4. QED
    BY <2>1, <2>2, <2>3
<1>6. Possible(q)
  BY <1>3, <1>4 DEF Possible
<1>7. \A s \in Others(r) : Apart(q, tx[s])
  BY <1>3, <1>4 DEF Apart, DeleteFree
<1>8. QED
  BY <1>2, <1>5, <1>6, <1>7, RowsTurned

LEMMA SoundDrop ==
  ASSUME Sound, Shape', NEW r \in Requests, LocksFree(r), Drop(r) PROVE Sound'
<1> DEFINE q == [pc |-> "cascade", op |-> tx[r].op, pair |-> tx[r].pair, seen |-> tx[r].seen,
                 inserted |-> tx[r].inserted, deleted |-> tx[r].deleted,
                 dropped |-> {tx[r].pair[2]}, entry |-> tx[r].entry]
<1>1. Shape
  BY DEF Sound
<1>2. tx' = [tx EXCEPT ![r] = q] /\ UNCHANGED <<books, fav, last>>
  BY <1>1, DropTurns DEF Turn
<1>3. /\ q.pc = "cascade" /\ q.op = "delete" /\ q.pair = tx[r].pair /\ q.seen = tx[r].seen
      /\ q.inserted = tx[r].inserted /\ q.deleted = tx[r].deleted
      /\ q.dropped = {tx[r].pair[2]} /\ q.entry = tx[r].entry
  BY <1>1, DropTurns
<1> HIDE DEF q
<1>4. /\ tx[r].op = "delete" /\ tx[r].pc = "drop" /\ DropFree(r, tx[r].pair[2])
      /\ Local(tx[r]) /\ Possible(tx[r]) /\ \A s \in Others(r) : Apart(tx[r], tx[s])
  BY <1>1, DropTurns, SoundBusy DEF LocksFree
<1>5. tx[r].entry = None /\ tx[r].inserted = {} /\ tx[r].seen = {}
  BY <1>4 DEF Local
<1>6. Local(q)
  BY <1>3, <1>4, <1>5 DEF Local
<1>7. Possible(q)
  BY <1>3, <1>4 DEF Possible
<1>8. \A s \in Others(r) : Apart(q, tx[s])
  BY <1>3, <1>4, <1>5 DEF Apart, DropFree
<1>9. QED
  BY <1>2, <1>6, <1>7, <1>8, RowsTurned

LEMMA SoundCascade ==
  ASSUME Sound, Shape', NEW r \in Requests, LocksFree(r), Cascade(r) PROVE Sound'
<1> DEFINE rows == Referencing(tx[r].pair[2])
           q == [pc |-> "log", op |-> tx[r].op, pair |-> tx[r].pair, seen |-> tx[r].seen,
                 inserted |-> tx[r].inserted, deleted |-> rows,
                 dropped |-> tx[r].dropped, entry |-> tx[r].entry]
<1>1. /\ tx[r].op = "delete" /\ tx[r].pc = "cascade" /\ DeleteFree(r, rows)
      /\ UNCHANGED <<books, fav, last>> /\ tx' = [tx EXCEPT ![r] = q]
  BY CascadeTurns DEF Sound, Turn, LocksFree
<1>2. /\ q.pc = "log" /\ q.op = "delete" /\ q.pair = tx[r].pair /\ q.seen = tx[r].seen
      /\ q.inserted = tx[r].inserted /\ q.deleted = rows
      /\ q.dropped = tx[r].dropped /\ q.entry = tx[r].entry
  BY <1>1
<1>3. rows \subseteq fav /\ \A p \in fav : p \in rows <=> p[2] = tx[r].pair[2]
  BY DEF Referencing
<1> HIDE DEF q, rows
<1>4. Local(tx[r]) /\ Possible(tx[r]) /\ \A s \in Others(r) : Apart(tx[r], tx[s])
  BY <1>1, SoundBusy
<1>5. Local(q)
  BY <1>1, <1>2, <1>3, <1>4 DEF Local
<1>6. Possible(q)
  BY <1>2, <1>3, <1>4 DEF Possible
<1>7. \A s \in Others(r) : Apart(q, tx[s])
  BY <1>1, <1>2, <1>4 DEF Apart, DeleteFree
<1>8. QED
  BY <1>1, <1>5, <1>6, <1>7, RowsTurned

LEMMA SoundLog ==
  ASSUME Sound, Shape', Parameters, NEW r \in Requests, Log(r) PROVE Sound'
<1> DEFINE q == [pc |-> "commit", op |-> tx[r].op, pair |-> tx[r].pair, seen |-> tx[r].seen,
                 inserted |-> tx[r].inserted, deleted |-> tx[r].deleted,
                 dropped |-> tx[r].dropped, entry |-> Entry[tx[r].op]]
<1>1. tx[r].pc = "log" /\ UNCHANGED <<books, fav, last>> /\ tx' = [tx EXCEPT ![r] = q]
  BY LogTurns DEF Sound, Turn
<1>2. /\ q.pc = "commit" /\ q.op = tx[r].op /\ q.pair = tx[r].pair /\ q.seen = tx[r].seen
      /\ q.inserted = tx[r].inserted /\ q.deleted = tx[r].deleted
      /\ q.dropped = tx[r].dropped /\ q.entry = Entry[tx[r].op]
  OBVIOUS
<1> HIDE DEF q
<1>3. /\ Local(tx[r]) /\ Possible(tx[r]) /\ \A s \in Others(r) : Apart(tx[r], tx[s])
      /\ tx[r].op \in {"favorite", "unfavorite", "delete"}
  BY <1>1, SoundBusy
<1>4. tx[r].op \in {"favorite", "unfavorite"} => Entry[tx[r].op] # None
  BY DEF Parameters, Entry, Entries
<1>5. Changed(tx[r]) /\ (tx[r].op \in {"favorite", "unfavorite"} => Changed(q))
  BY <1>1, <1>2, <1>4 DEF Changed
<1>6. Local(q)
  BY <1>1, <1>2, <1>3, <1>5 DEF Local
<1>7. Possible(q)
  BY <1>1, <1>2, <1>3 DEF Possible
<1>8. \A s \in Others(r) : Apart(q, tx[s])
  BY <1>2, <1>3 DEF Apart
<1>9. QED
  BY <1>1, <1>6, <1>7, <1>8, RowsTurned

-----------------------------------------------------------------------------
(* The end of a request *)

LEMMA Rest ==
  ASSUME Shape, NEW r \in Requests, NEW removed, Release(r, removed), NEW s \in Requests, s # r
  PROVE  /\ tx'[s].pc = tx[s].pc /\ tx'[s].op = tx[s].op /\ tx'[s].pair = tx[s].pair
         /\ tx'[s].seen = tx[s].seen \ removed /\ tx'[s].inserted = tx[s].inserted
         /\ tx'[s].deleted = tx[s].deleted /\ tx'[s].dropped = tx[s].dropped
         /\ tx'[s].entry = tx[s].entry
<1>1. tx[s] \in Tx /\ tx'[s] = [tx[s] EXCEPT !.seen = @ \ removed]
  BY DEF Shape, TypeOK, Release
<1>2. QED
  BY <1>1 DEF Tx

\* What is left to show when a request ends: the changes of the others stay
\* possible.
LEMMA RowsReleased ==
  ASSUME Sound, Shape', NEW r \in Requests, NEW removed, Release(r, removed),
         \A s \in Others(r) :
           /\ tx[s].seen \ removed \subseteq fav' /\ tx[s].deleted \subseteq fav'
           /\ \A p \in tx[s].inserted : p \notin fav' /\ p[2] \in books'
           /\ (tx[s].op = "delete" /\ tx[s].pc \in {"log", "commit"}) =>
                \A p \in fav' : p[2] = tx[s].pair[2] => p \in tx[s].deleted
  PROVE  Rows'
<1>1. tx'[r] = Idle /\ Shape /\ Rows
  BY DEF Release, Sound
<1>2. ASSUME NEW s \in Requests PROVE (Local(tx[s]) /\ Possible(tx[s]))'
  <2>1. CASE s = r
    <3>1. Local(tx'[r])
      BY <1>1, IdleRows
    <3>2. Possible(tx[r])'
      BY <1>1 DEF Possible, Idle
    <3>3. QED
      BY <2>1, <3>1, <3>2 DEF Local, Changed
  <2>2. CASE s # r
    <3>1. Local(tx[s])
      BY <1>1 DEF Rows
    <3>2. Local(tx[s])'
      <4>1. (Changed(tx[s]))' <=> Changed(tx[s])
        BY <1>1, <2>2, Rest DEF Changed
      <4>2. /\ tx'[s].pc = tx[s].pc /\ tx'[s].op = tx[s].op /\ tx'[s].pair = tx[s].pair
            /\ tx'[s].seen \subseteq tx[s].seen /\ tx'[s].inserted = tx[s].inserted
            /\ tx'[s].deleted = tx[s].deleted /\ tx'[s].dropped = tx[s].dropped
            /\ tx'[s].entry = tx[s].entry
        BY <1>1, <2>2, Rest
      <4>3. tx[s].seen = {} => tx'[s].seen = {}
        BY <4>2
      <4>4. QED
        BY <3>1, <4>1, <4>2, <4>3 DEF Local
    <3>3. Possible(tx[s])'
      BY <1>1, <2>2, Rest DEF Possible, Others
    <3>4. QED
      BY <3>2, <3>3
  <2>3. QED
    BY <2>1, <2>2
<1>3. ASSUME NEW s \in Requests, NEW t \in Requests, s # t PROVE Apart(tx[s], tx[t])'
  <2>1. tx'[s] \in Tx /\ tx'[t] \in Tx
    BY DEF Shape, TypeOK
  <2>2. CASE s = r \/ t = r
    <3>1. Apart(tx'[s], tx'[t])
      BY <1>1, <2>1, <2>2, IdleRows
    <3>2. QED
      BY <3>1 DEF Apart
  <2>3. CASE s # r /\ t # r
    <3>1. Apart(tx[s], tx[t])
      BY <1>1, <1>3 DEF Rows
    <3>2. QED
      BY <1>1, <2>3, <3>1, Rest DEF Apart
  <2>4. QED
    BY <2>2, <2>3
<1>4. QED
  BY <1>2, <1>3 DEF Rows

LEMMA SoundRollback ==
  ASSUME Sound, Shape', NEW r \in Requests, Rollback(r) PROVE Sound'
<1>1. UNCHANGED <<books, fav, last>> /\ Release(r, {})
  BY DEF Rollback
<1>2. \A s \in Others(r) : Possible(tx[s])
  BY DEF Sound, Rows, Others
<1>3. Rows'
  BY <1>1, <1>2, RowsReleased DEF Possible
<1>4. BooksKnown' /\ ChangesLogged'
  BY <1>1 DEF Sound, BooksKnown, ChangesLogged
<1>5. QED
  BY <1>3, <1>4 DEF Sound

LEMMA SoundCommit ==
  ASSUME Sound, Shape', Parameters, NEW r \in Requests, Commit(r) PROVE Sound'
<1>1. /\ books' = books \ tx[r].dropped
      /\ fav' = (fav \ tx[r].deleted) \cup tx[r].inserted
      /\ last' = IF tx[r].entry = None THEN last ELSE [last EXCEPT ![tx[r].pair] = tx[r].entry]
      /\ Release(r, tx[r].deleted) /\ tx[r].pc = "commit"
  BY DEF Commit
<1>2. /\ Local(tx[r]) /\ Possible(tx[r]) /\ \A s \in Others(r) : Apart(tx[r], tx[s])
      /\ tx[r].op \in {"favorite", "unfavorite", "delete"}
  BY <1>1, SoundBusy
<1>3. ASSUME NEW s \in Others(r)
      PROVE  /\ tx[s].seen \ tx[r].deleted \subseteq fav' /\ tx[s].deleted \subseteq fav'
             /\ \A p \in tx[s].inserted : p \notin fav' /\ p[2] \in books'
             /\ (tx[s].op = "delete" /\ tx[s].pc \in {"log", "commit"}) =>
                  \A p \in fav' : p[2] = tx[s].pair[2] => p \in tx[s].deleted
  <2>1. Local(tx[s]) /\ Possible(tx[s]) /\ Apart(tx[r], tx[s])
    BY <1>2 DEF Sound, Rows, Others
  <2>2. (tx[s].op = "delete" /\ tx[s].pc \in {"log", "commit"}) => tx[s].pair[2] \in tx[s].dropped
    BY <2>1 DEF Local
  <2>3. QED
    BY <1>1, <2>1, <2>2 DEF Possible, Apart
<1>4. Rows'
  BY <1>1, <1>3, RowsReleased
<1>5. /\ \A p \in fav : p[2] \in books
      /\ fav \subseteq Pairs /\ last \in [Pairs -> Entries \cup {None}]
  BY DEF Sound, BooksKnown, Shape, TypeOK
<1>6. CASE tx[r].op = "favorite"
  <2>1. /\ tx[r].deleted = {} /\ tx[r].dropped = {} /\ tx[r].pair \in Pairs
        /\ IF tx[r].entry = None THEN tx[r].inserted = {}
           ELSE tx[r].inserted = {tx[r].pair} /\ tx[r].entry = "favorite_book"
    BY <1>1, <1>2, <1>6, KnownBusy DEF Sound, Local, Changed, Entry
  <2>2. BooksKnown'
    BY <1>1, <1>2, <1>5, <2>1 DEF BooksKnown, Possible
  <2>3. ChangesLogged'
    BY <1>1, <1>5, <2>1 DEF Sound, ChangesLogged
  <2>4. QED
    BY <1>4, <2>2, <2>3 DEF Sound
<1>7. CASE tx[r].op = "unfavorite"
  <2>1. /\ tx[r].inserted = {} /\ tx[r].dropped = {} /\ tx[r].pair \in Pairs
        /\ IF tx[r].entry = None THEN tx[r].deleted = {}
           ELSE tx[r].deleted = {tx[r].pair} /\ tx[r].entry = "unfavorite_book"
    BY <1>1, <1>2, <1>7, KnownBusy DEF Sound, Local, Changed, Entry
  <2>2. BooksKnown'
    BY <1>1, <1>5, <2>1 DEF BooksKnown
  <2>3. ChangesLogged'
    BY <1>1, <1>5, <2>1 DEF Sound, ChangesLogged
  <2>4. QED
    BY <1>4, <2>2, <2>3 DEF Sound
<1>8. CASE tx[r].op = "delete"
  <2>1. /\ tx[r].inserted = {} /\ tx[r].dropped = {tx[r].pair[2]} /\ tx[r].entry = None
        /\ \A p \in fav : p \in tx[r].deleted <=> p[2] = tx[r].pair[2]
    BY <1>1, <1>2, <1>8 DEF Local, Possible, Entry
  <2>2. BooksKnown'
    BY <1>1, <1>5, <2>1 DEF BooksKnown
  <2>3. ChangesLogged'
    BY <1>1, <1>5, <2>1 DEF Sound, ChangesLogged
  <2>4. QED
    BY <1>4, <2>2, <2>3 DEF Sound
<1>9. QED
  BY <1>2, <1>6, <1>7, <1>8

-----------------------------------------------------------------------------
(* The theorem *)

LEMMA SoundArrive ==
  ASSUME Sound, Shape', NEW r \in Requests, NEW op, NEW p, Arrive(r, op, p),
         op \in {"favorite", "unfavorite", "delete"}
  PROVE  Sound'
<1> DEFINE q == [Idle EXCEPT !.pc = "find", !.op = op, !.pair = p]
<1>1. tx' = [tx EXCEPT ![r] = q] /\ UNCHANGED <<books, fav, last>> /\ Shape
  BY DEF Arrive, Sound
<1>2. /\ q.pc = "find" /\ q.op = op /\ q.seen = {} /\ q.inserted = {} /\ q.deleted = {}
      /\ q.dropped = {} /\ q.entry = None
  BY DEF Idle
<1> HIDE DEF q
<1>3. Local(q)
  BY <1>2 DEF Local, Changed
<1>4. Possible(q)
  BY <1>2 DEF Possible
<1>5. ASSUME NEW s \in Others(r) PROVE Apart(q, tx[s])
  <2>1. tx[s] \in Tx
    BY <1>1 DEF Shape, TypeOK, Others
  <2>2. QED
    BY <1>2, <2>1 DEF Apart, Tx
<1>6. QED
  BY <1>1, <1>3, <1>4, <1>5, RowsTurned

LEMMA SoundNext ==
  ASSUME Sound, Parameters, Backend = "postgresql", [Next]_vars PROVE Sound'
<1>1. Shape /\ Shape'
  BY ShapeNext DEF Sound
<1>2. CASE UNCHANGED vars
  <2>1. Rows /\ BooksKnown /\ ChangesLogged /\ UNCHANGED <<books, fav, last, tx>>
    BY <1>2 DEF vars, Sound
  <2>2. \A r \in Requests, s \in Requests : r # s => Apart(tx[r], tx[s])'
    BY <2>1 DEF Rows, Apart
  <2>3. \A r \in Requests : Local(tx[r])'
    BY <2>1 DEF Rows, Local, Changed
  <2>4. \A r \in Requests : Possible(tx[r])'
    BY <2>1 DEF Rows, Possible
  <2>5. BooksKnown' /\ ChangesLogged'
    BY <2>1 DEF BooksKnown, ChangesLogged
  <2>6. QED
    BY <1>1, <2>2, <2>3, <2>4, <2>5 DEF Sound, Rows
<1>3. ASSUME NEW r \in Requests, Favorite(r) \/ Unfavorite(r) \/ DeleteBook(r) PROVE Sound'
  BY <1>1, <1>3, SoundArrive DEF Favorite, Unfavorite, DeleteBook
<1>4. ASSUME NEW r \in Requests, DbError(r) PROVE Sound'
  BY <1>1, <1>4, SoundRollback DEF DbError
<1>5. ASSUME NEW r \in Requests, Step(r) PROVE Sound'
  <2>1. CASE Find(r) \/ Lookup(r) \/ Again(r)
    <3>1. CASE Rollback(r)
      BY <1>1, <3>1, SoundRollback
    <3>2. CASE tx[r].pc = "find" /\ Moved(r, AfterFind[tx[r].op]) /\ UNCHANGED <<books, fav, last>>
      <4>1. tx[r].op \in {"favorite", "unfavorite", "delete"}
        BY <1>1, <3>2, KnownBusy
      <4>2. Moved(r, "lookup") \/ Moved(r, "erase") \/ Moved(r, "drop")
        BY <3>2, <4>1 DEF AfterFind
      <4>3. tx[r].pc = "find" /\ UNCHANGED <<books, fav, last>>
        BY <3>2
      <4>4. QED
        BY <1>1, <4>2, <4>3, SoundMoved
    <3>3. CASE /\ tx[r].pc \in {"lookup", "again"} /\ tx[r].op = "favorite"
               /\ Moved(r, "commit") \/ Moved(r, "insert")
               /\ UNCHANGED <<books, fav, last>>
      BY <1>1, <3>3, SoundMoved
    <3>4. QED
      BY <1>1, <2>1, <3>1, <3>2, <3>3, Steady
  <2>2. QED
    BY <1>1, <1>5, <2>1, SoundInsert, SoundErase, SoundErased, SoundDrop, SoundCascade,
       SoundLog, SoundCommit DEF Step
<1>6. QED
  BY <1>2, <1>3, <1>4, <1>5 DEF Next

\* On PostgreSQL a favourite is one of an existing book and the log tells the
\* truth about it, whatever requests add and remove it and delete its book.
THEOREM FavouritesTrue ==
  ASSUME Parameters, Backend = "postgresql" PROVE Spec => [](ChangesLogged /\ BooksKnown)
<1>1. Spec => []Sound
  BY SoundInit, SoundNext, PTL DEF Spec
<1>2. Sound => ChangesLogged /\ BooksKnown
  BY DEF Sound
<1>3. QED
  BY <1>1, <1>2, PTL

\* On PostgreSQL only real changes are logged: the entries about a pair
\* alternate.
THEOREM EntriesAlternate ==
  ASSUME Parameters, Backend = "postgresql" PROVE Spec => Alternate
<1> DEFINE Real == \A r \in Requests :
                     (Commit(r) /\ tx[r].entry # None) => tx[r].entry # last[tx[r].pair]
<1>1. Sound => Real
  <2>1. SUFFICES ASSUME Sound, NEW r \in Requests, Commit(r), tx[r].entry # None
                 PROVE  tx[r].entry # last[tx[r].pair]
    OBVIOUS
  <2>2. /\ tx[r].pc = "commit" /\ Local(tx[r]) /\ Possible(tx[r])
        /\ tx[r].op \in {"favorite", "unfavorite", "delete"}
    BY <2>1, SoundBusy DEF Commit
  <2>3. tx[r].op # "delete"
    BY <2>1, <2>2 DEF Local, Entry
  <2>4. tx[r].pair \in Pairs /\ BooksKnown /\ ChangesLogged
    BY <2>1, <2>2, <2>3, KnownBusy DEF Sound
  <2>5. CASE tx[r].op = "favorite"
    <3>1. tx[r].pair \in tx[r].inserted /\ tx[r].entry = "favorite_book"
      BY <2>1, <2>2, <2>5 DEF Local, Changed, Entry
    <3>2. QED
      BY <2>2, <2>4, <3>1 DEF Possible, ChangesLogged
  <2>6. CASE tx[r].op = "unfavorite"
    <3>1. tx[r].pair \in tx[r].deleted /\ tx[r].entry = "unfavorite_book"
      BY <2>1, <2>2, <2>6 DEF Local, Changed, Entry
    <3>2. last[tx[r].pair] = "favorite_book"
      BY <2>2, <2>4, <3>1 DEF Possible, BooksKnown, ChangesLogged
    <3>3. QED
      BY <3>1, <3>2
  <2>7. QED
    BY <2>2, <2>3, <2>5, <2>6
<1>2. Spec => []Sound
  BY SoundInit, SoundNext, PTL DEF Spec
<1>3. QED
  BY <1>1, <1>2, PTL DEF Spec, Alternate

-----------------------------------------------------------------------------
(* Whole changes, on PostgreSQL *)

\* What is left alone by every step but a commit.
LEMMA Uncommitted ==
  ASSUME Shape, Backend = "postgresql", NEW r \in Requests,
         \/ Favorite(r) \/ Unfavorite(r) \/ DeleteBook(r) \/ DbError(r)
         \/ Step(r) /\ ~ Commit(r)
  PROVE  UNCHANGED <<books, fav, last>>
<1>1. CASE Favorite(r) \/ Unfavorite(r) \/ DeleteBook(r) \/ DbError(r)
  BY <1>1 DEF Favorite, Unfavorite, DeleteBook, DbError, Arrive, Rollback
<1>2. CASE Step(r) /\ ~ Commit(r)
  BY <1>2 DEF Step, Find, Lookup, Insert, Again, Erase, Erased, Drop, Cascade, Log, Rollback
<1>3. QED
  BY <1>1, <1>2

\* A commit is one change, or none.
LEMMA CommitChanges ==
  ASSUME Parameters, Backend = "postgresql", Sound, NEW r \in Requests, Commit(r)
  PROVE  [Changes!Next]_Changes!vars
<1> DEFINE t == tx[r]
<1> HIDE DEF t
<1>1. /\ Local(t) /\ Possible(t) /\ t.pc = "commit"
      /\ t.op \in {"favorite", "unfavorite", "delete"}
  BY SoundBusy DEF Commit, t
<1>2. /\ books' = books \ t.dropped
      /\ fav' = (fav \ t.deleted) \cup t.inserted
      /\ last' = IF t.entry = None THEN last ELSE [last EXCEPT ![t.pair] = t.entry]
  BY DEF Commit, t
<1>3. t.op # "delete" => t.pair \in Pairs
  BY <1>1, KnownBusy DEF Sound, t
<1>4. t.op = "delete" => t.pair[2] \in Books
  BY <1>1, KnownBusy DEF Sound, t
<1>5. Entry[t.op] = CASE t.op = "favorite" -> "favorite_book"
                      [] t.op = "unfavorite" -> "unfavorite_book"
                      [] t.op = "delete" -> None
  BY <1>1 DEF Entry
<1>6. "favorite_book" # None /\ "unfavorite_book" # None
  BY DEF Parameters, Entries
<1>7. CASE t.op = "favorite"
  <2>1. t.dropped = {} /\ t.deleted = {}
    BY <1>1, <1>7 DEF Local
  <2>2. CASE t.entry = None
    <3>1. t.inserted = {}
      BY <1>1, <1>7, <2>2 DEF Local, Changed
    <3>2. UNCHANGED <<books, fav, last>>
      BY <1>2, <2>1, <2>2, <3>1
    <3>3. QED
      BY <3>2 DEF Changes!vars
  <2>3. CASE t.entry # None
    <3>1. t.inserted = {t.pair} /\ t.entry = "favorite_book"
      BY <1>1, <1>5, <1>7, <2>3 DEF Local, Changed
    <3>2. t.pair \notin fav /\ t.pair[2] \in books
      BY <1>1, <3>1 DEF Possible
    <3>3. Changes!Add(t.pair)
      BY <1>2, <2>1, <2>3, <3>1, <3>2 DEF Changes!Add
    <3>4. QED
      BY <1>3, <1>7, <3>3 DEF Changes!Next, Changes!Pairs, Pairs
  <2>4. QED
    BY <2>2, <2>3
<1>8. CASE t.op = "unfavorite"
  <2>1. t.dropped = {} /\ t.inserted = {}
    BY <1>1, <1>8 DEF Local
  <2>2. CASE t.entry = None
    <3>1. t.deleted = {}
      BY <1>1, <1>8, <2>2 DEF Local, Changed
    <3>2. UNCHANGED <<books, fav, last>>
      BY <1>2, <2>1, <2>2, <3>1
    <3>3. QED
      BY <3>2 DEF Changes!vars
  <2>3. CASE t.entry # None
    <3>1. t.deleted = {t.pair} /\ t.entry = "unfavorite_book"
      BY <1>1, <1>5, <1>8, <2>3 DEF Local, Changed
    <3>2. t.pair \in fav
      BY <1>1, <3>1 DEF Possible
    <3>3. Changes!Remove(t.pair)
      BY <1>2, <2>1, <2>3, <3>1, <3>2 DEF Changes!Remove
    <3>4. QED
      BY <1>3, <1>8, <3>3 DEF Changes!Next, Changes!Pairs, Pairs
  <2>4. QED
    BY <2>2, <2>3
<1>9. CASE t.op = "delete"
  <2>1. t.dropped = {t.pair[2]} /\ t.inserted = {} /\ t.entry = None
    BY <1>1, <1>5, <1>9 DEF Local
  <2>2. \A p \in fav : p \in t.deleted <=> p[2] = t.pair[2]
    BY <1>1, <1>9 DEF Local, Possible
  <2>3. fav' = {p \in fav : p[2] # t.pair[2]} /\ books' = books \ {t.pair[2]} /\ last' = last
    BY <1>2, <2>1, <2>2
  <2>4. CASE t.pair[2] \in books
    <3>1. Changes!Delete(t.pair[2])
      BY <2>3, <2>4 DEF Changes!Delete
    <3>2. QED
      BY <1>4, <1>9, <3>1 DEF Changes!Next
  <2>5. CASE t.pair[2] \notin books
    <3>1. \A p \in fav : p[2] # t.pair[2]
      BY <2>5 DEF Sound, BooksKnown
    <3>2. UNCHANGED <<books, fav, last>>
      BY <2>3, <2>5, <3>1
    <3>3. QED
      BY <3>2 DEF Changes!vars
  <2>6. QED
    BY <2>4, <2>5
<1>10. QED
  BY <1>1, <1>7, <1>8, <1>9

\* On PostgreSQL Favorites implements FavoriteLog: whatever requests overlap,
\* every commit is one addition or one removal with its log entry, the
\* deletion of a book with all its favourites, or changes nothing.
THEOREM ChangesImplemented ==
  ASSUME Parameters, Backend = "postgresql" PROVE Spec => ChangesRefined
<1>1. Init => Changes!Init
  BY DEF Init, Changes!Init, Changes!Pairs, Pairs
<1>2. Sound /\ [Next]_vars => [Changes!Next]_Changes!vars
  <2> SUFFICES ASSUME Sound, [Next]_vars PROVE [Changes!Next]_Changes!vars
    OBVIOUS
  <2>1. CASE UNCHANGED vars
    BY <2>1 DEF vars, Changes!vars
  <2>2. ASSUME NEW r \in Requests, Commit(r) PROVE [Changes!Next]_Changes!vars
    BY <2>2, CommitChanges
  <2>3. ASSUME NEW r \in Requests,
               \/ Favorite(r) \/ Unfavorite(r) \/ DeleteBook(r) \/ DbError(r)
               \/ Step(r) /\ ~ Commit(r)
        PROVE  UNCHANGED Changes!vars
    BY <2>3, Uncommitted DEF Sound, Changes!vars
  <2>4. QED
    BY <2>1, <2>2, <2>3 DEF Next
<1>3. Spec => []Sound
  BY SoundInit, SoundNext, PTL DEF Spec
<1>4. QED
  BY <1>1, <1>2, <1>3, PTL DEF Spec, ChangesRefined, Changes!Spec

-----------------------------------------------------------------------------
(* Waiting, on both backends *)

\* Changes are made late: when a request waits, it holds no inserted or
\* deleted favourite, and only at the cascade a dropped book.
Late(t) ==
  /\ t.inserted # {} \/ t.deleted # {} => t.pc \in {"log", "commit"}
  /\ t.dropped # {} => t.pc \in {"cascade", "log", "commit"}

\* On SQLite who has changed something holds the write lock w.
Writing(r, t, w) ==
  Backend = "sqlite" =>
    /\ t.inserted = {}
    /\ t.deleted # {} \/ t.dropped # {} \/ t.pc \in {"erasing", "cascade"} => w = r

\* The write lock is held by a request that is at work.
Waiting ==
  /\ Shape
  /\ \A r \in Requests : Late(tx[r]) /\ Writing(r, tx[r], writer)
  /\ writer # None => Backend = "sqlite" /\ tx[writer].pc # "idle"

\* A circle would need a request that waits and holds what another waits for.
LEMMA NoCircle == ASSUME Parameters, Waiting PROVE SomeoneGoesOn
<1> SUFFICES ASSUME NEW r \in Requests, tx[r].pc # "idle"
             PROVE  \E s \in Requests : tx[s].pc # "idle" /\ LocksFree(s)
  BY DEF SomeoneGoesOn
<1>1. \A s \in Requests : Late(tx[s]) /\ Writing(s, tx[s], writer)
  BY DEF Waiting
<1>2. CASE Backend = "sqlite"
  <2>1. \A s \in Requests : /\ tx[s].inserted = {}
                            /\ writer # s => tx[s].deleted = {} /\ tx[s].dropped = {}
    BY <1>1, <1>2 DEF Writing
  <2>2. ASSUME NEW s \in Requests, writer \in {None, s} PROVE LocksFree(s)
    <3>1. \A q \in Others(s) : tx[q].inserted = {} /\ tx[q].deleted = {} /\ tx[q].dropped = {}
      BY <2>1, <2>2 DEF Others, Parameters
    <3>2. QED
      BY <2>2, <3>1 DEF LocksFree, InsertFree, DeleteFree, DropFree
  <2>3. CASE writer = None
    BY <2>2, <2>3
  <2>4. CASE writer # None
    BY <2>2, <2>4 DEF Waiting, Shape, TypeOK
  <2>5. QED
    BY <2>3, <2>4
<1>3. CASE Backend # "sqlite"
  <2>1. CASE \E s \in Requests : tx[s].pc \in {"log", "commit"}
    BY <1>3, <2>1 DEF LocksFree
  <2>2. CASE ~ \E s \in Requests : tx[s].pc \in {"log", "commit"}
    <3>1. \A s \in Requests : tx[s].inserted = {} /\ tx[s].deleted = {}
      BY <1>1, <2>2 DEF Late
    <3>2. CASE \E s \in Requests : tx[s].pc = "cascade"
      BY <1>3, <3>1, <3>2 DEF LocksFree, DeleteFree, Others
    <3>3. CASE ~ \E s \in Requests : tx[s].pc = "cascade"
      <4>1. \A s \in Requests : tx[s].dropped = {}
        BY <1>1, <2>2, <3>3 DEF Late
      <4>2. LocksFree(r)
        BY <1>3, <3>1, <4>1 DEF LocksFree, InsertFree, DeleteFree, DropFree, Others
      <4>3. QED
        BY <4>2
    <3>4. QED
      BY <3>2, <3>3
  <2>3. QED
    BY <2>1, <2>2
<1>4. QED
  BY <1>2, <1>3

LEMMA WaitingInit == ASSUME Parameters, Init PROVE Waiting
BY ShapeInit DEF Init, Idle, Waiting, Late, Writing

\* A statement of r, which leaves the changes of the others alone.
LEMMA WaitingTurned ==
  ASSUME Parameters, Waiting, Shape', NEW r \in Requests, NEW q, tx' = [tx EXCEPT ![r] = q],
         Late(q), q.pc # "idle", Writing(r, q, writer'),
         writer' = writer \/ (Backend = "sqlite" /\ writer \in {None, r} /\ writer' \in {None, r})
  PROVE  Waiting'
<1>1. tx \in [Requests -> Tx] /\ writer \in Requests \cup {None} /\ tx'[r] = q
  BY DEF Waiting, Shape, TypeOK
<1>2. ASSUME NEW s \in Requests PROVE Late(tx'[s]) /\ Writing(s, tx'[s], writer')
  <2>1. CASE s = r
    BY <1>1, <2>1
  <2>2. CASE s # r
    <3>1. tx'[s] = tx[s] /\ Late(tx[s]) /\ Writing(s, tx[s], writer)
      BY <1>1, <2>2 DEF Waiting
    <3>2. writer = s => writer' = s
      BY <2>2, <1>1 DEF Parameters
    <3>3. QED
      BY <3>1, <3>2 DEF Writing
  <2>3. QED
    BY <2>1, <2>2
<1>3. ASSUME writer' # None PROVE Backend = "sqlite" /\ tx'[writer'].pc # "idle"
  <2>1. CASE writer' = r
    BY <1>1, <1>3, <2>1 DEF Waiting
  <2>2. CASE writer' # r
    BY <1>1, <1>3, <2>2 DEF Waiting
  <2>3. QED
    BY <2>1, <2>2
<1>4. QED
  BY <1>2, <1>3 DEF Waiting

LEMMA WaitingReleased ==
  ASSUME Parameters, Waiting, Shape', NEW r \in Requests, NEW removed, Release(r, removed)
  PROVE  Waiting'
<1>1. /\ Shape /\ tx'[r] = Idle /\ writer \in Requests \cup {None}
      /\ writer' = IF writer = r THEN None ELSE writer
  BY DEF Release, Waiting, Shape, TypeOK
<1>2. ASSUME NEW s \in Requests PROVE Late(tx'[s]) /\ Writing(s, tx'[s], writer')
  <2>1. CASE s = r
    BY <1>1, <2>1 DEF Late, Writing, Idle
  <2>2. CASE s # r
    <3>1. Late(tx[s]) /\ Writing(s, tx[s], writer)
      BY DEF Waiting
    <3>2. writer = s => writer' = s
      BY <1>1, <2>2
    <3>3. QED
      BY <1>1, <2>2, <3>1, <3>2, Rest DEF Late, Writing
  <2>3. QED
    BY <2>1, <2>2
<1>3. ASSUME writer' # None PROVE Backend = "sqlite" /\ tx'[writer'].pc # "idle"
  <2>1. writer' = writer /\ writer # r /\ writer \in Requests
    BY <1>1, <1>3
  <2>2. tx'[writer].pc = tx[writer].pc
    BY <1>1, <2>1, Rest
  <2>3. QED
    BY <1>3, <2>1, <2>2 DEF Waiting
<1>4. QED
  BY <1>2, <1>3 DEF Waiting

\* The same, said of the fields of the request.
LEMMA WaitingStep ==
  ASSUME Parameters, Waiting, Shape', NEW r \in Requests, NEW pc, NEW seen, NEW inserted,
         NEW deleted, NEW dropped, NEW entry, Turn(r, pc, seen, inserted, deleted, dropped, entry),
         pc # "idle",
         inserted # {} \/ deleted # {} => pc \in {"log", "commit"},
         dropped # {} => pc \in {"cascade", "log", "commit"},
         Backend = "sqlite" =>
           /\ inserted = {}
           /\ deleted # {} \/ dropped # {} \/ pc \in {"erasing", "cascade"} => writer' = r,
         writer' = writer \/ (Backend = "sqlite" /\ writer \in {None, r} /\ writer' \in {None, r})
  PROVE  Waiting'
<1> DEFINE q == [pc |-> pc, op |-> tx[r].op, pair |-> tx[r].pair, seen |-> seen,
                 inserted |-> inserted, deleted |-> deleted, dropped |-> dropped, entry |-> entry]
<1>1. tx' = [tx EXCEPT ![r] = q]
  BY DEF Turn
<1>2. Late(q) /\ q.pc # "idle" /\ Writing(r, q, writer')
  BY DEF Late, Writing
<1> HIDE DEF q
<1>3. QED
  BY <1>1, <1>2, WaitingTurned

LEMMA WaitingNext == ASSUME Parameters, Waiting, [Next]_vars PROVE Waiting'
<1>1. Shape /\ Shape'
  BY ShapeNext DEF Waiting
<1>2. CASE UNCHANGED vars
  BY <1>1, <1>2 DEF vars, Waiting
<1>3. ASSUME NEW r \in Requests, DbError(r) PROVE Waiting'
  BY <1>1, <1>3, WaitingReleased DEF DbError, Rollback
<1>4. ASSUME NEW r \in Requests, NEW op, NEW p, Arrive(r, op, p) PROVE Waiting'
  <2> DEFINE q == [Idle EXCEPT !.pc = "find", !.op = op, !.pair = p]
  <2>1. tx' = [tx EXCEPT ![r] = q] /\ writer' = writer
    BY <1>4 DEF Arrive
  <2>2. Late(q) /\ q.pc # "idle" /\ Writing(r, q, writer')
    BY DEF Late, Writing, Idle
  <2> HIDE DEF q
  <2>3. QED
    BY <1>1, <2>1, <2>2, WaitingTurned
<1>5. ASSUME NEW r \in Requests, Step(r) PROVE Waiting'
  <2>1. Late(tx[r]) /\ Writing(r, tx[r], writer) /\ LocksFree(r)
    BY <1>5 DEF Waiting, Step
  <2>2. CASE Rollback(r) \/ Commit(r)
    BY <1>1, <2>2, WaitingReleased DEF Rollback, Commit
  <2>3. CASE (Find(r) \/ Lookup(r) \/ Again(r)) /\ ~ Rollback(r)
    <3>1. /\ UNCHANGED writer
          /\ tx[r].inserted = {} /\ tx[r].deleted = {} /\ tx[r].dropped = {}
          /\ \E pc \in {"lookup", "erase", "drop", "commit", "insert"} : Moved(r, pc)
      <4>1. tx[r].pc \in {"find", "lookup", "again"}
        BY <2>3 DEF Find, Lookup, Again
      <4>2. AfterFind[tx[r].op] \in {"lookup", "erase", "drop"}
        BY <1>1, <4>1, KnownBusy DEF AfterFind
      <4>3. QED
        BY <1>1, <2>1, <2>3, <4>1, <4>2, Steady DEF Late
    <3>2. QED
      BY <1>1, <3>1, WaitingStep DEF Moved
  <2>4. CASE Insert(r)
    <3>1. /\ tx[r].inserted = {} /\ tx[r].deleted = {} /\ tx[r].dropped = {}
          /\ Backend = "sqlite" => writer \in {None, r}
      BY <1>1, <2>1, <2>4, InsertTurns DEF Late, LocksFree
    <3>2. CASE Moved(r, "again") /\ Acquire(r)
      BY <1>1, <3>1, <3>2, WaitingStep DEF Moved, Acquire
    <3>3. CASE Backend = "sqlite" /\ Moved(r, "log") /\ writer' = None
      BY <1>1, <3>1, <3>3, WaitingStep DEF Moved
    <3>4. CASE /\ Backend # "sqlite" /\ writer' = writer
               /\ Turn(r, "log", tx[r].seen, {tx[r].pair}, tx[r].deleted, tx[r].dropped,
                       tx[r].entry)
      BY <1>1, <3>1, <3>4, WaitingStep
    <3>5. QED
      BY <1>1, <2>4, <3>2, <3>3, <3>4, InsertTurns
  <2>5. CASE Erase(r)
    <3>1. /\ tx[r].inserted = {} /\ tx[r].deleted = {} /\ tx[r].dropped = {}
          /\ Backend = "sqlite" => writer \in {None, r}
      BY <1>1, <2>1, <2>5, EraseTurns DEF Late, LocksFree
    <3>2. QED
      BY <1>1, <2>5, <3>1, EraseTurns, WaitingStep DEF Acquire
  <2>6. CASE Erased(r)
    <3>1. /\ tx[r].inserted = {} /\ tx[r].dropped = {}
          /\ Backend = "sqlite" => writer = r
      BY <1>1, <2>1, <2>6, ErasedTurns DEF Late, Writing
    <3>2. QED
      BY <1>1, <2>6, <3>1, ErasedTurns, WaitingStep
  <2>7. CASE Drop(r)
    <3>1. /\ tx[r].inserted = {} /\ tx[r].deleted = {}
          /\ Backend = "sqlite" => writer \in {None, r}
      BY <1>1, <2>1, <2>7, DropTurns DEF Late, LocksFree
    <3>2. QED
      BY <1>1, <2>7, <3>1, DropTurns, WaitingStep DEF Acquire
  <2>8. CASE Cascade(r)
    <3>1. tx[r].inserted = {} /\ (Backend = "sqlite" => writer = r)
      BY <1>1, <2>1, <2>8, CascadeTurns DEF Late, Writing
    <3>2. QED
      BY <1>1, <2>8, <3>1, CascadeTurns, WaitingStep
  <2>9. CASE Log(r)
    <3>1. /\ Backend = "sqlite" => writer \in {None, r} /\ tx[r].inserted = {}
          /\ Acquire(r)
      BY <1>1, <2>1, <2>9, LogTurns DEF Writing, LocksFree
    <3>2. QED
      BY <1>1, <2>9, <3>1, LogTurns, WaitingStep DEF Acquire
  <2>10. QED
    BY <1>5, <2>2, <2>3, <2>4, <2>5, <2>6, <2>7, <2>8, <2>9 DEF Step
<1>6. QED
  BY <1>2, <1>3, <1>4, <1>5 DEF Next, Favorite, Unfavorite, DeleteBook

\* Whatever requests add, remove and delete at the same time, on either
\* backend: while requests are at work, one of them waits for nobody.
THEOREM NobodyStuck == ASSUME Parameters PROVE Spec => []SomeoneGoesOn
<1>1. Init => Waiting
  BY WaitingInit
<1>2. Waiting /\ [Next]_vars => Waiting'
  BY WaitingNext
<1>3. Waiting => SomeoneGoesOn
  BY NoCircle
<1>4. QED
  BY <1>1, <1>2, <1>3, PTL DEF Spec

-----------------------------------------------------------------------------
(* Favourites of existing books, on SQLite *)

\* The deletion of a book has found all favourites in f that reference it.
Swept(t, f) ==
  /\ t.dropped # {} => t.dropped = {t.pair[2]}
  /\ t.pc \in {"log", "commit"} => \A p \in f : p[2] \in t.dropped => p \in t.deleted

Kept == Waiting /\ BooksKnown /\ \A r \in Requests : Swept(tx[r], fav)

LEMMA KeptInit == ASSUME Parameters, Init PROVE Kept
BY WaitingInit DEF Init, Idle, Kept, Swept, BooksKnown

\* A statement that adds no favourite while a book is being deleted.
LEMMA KeptTurned ==
  ASSUME Kept, Waiting', NEW r \in Requests, NEW q, tx' = [tx EXCEPT ![r] = q],
         Swept(q, fav'), books' = books, \A p \in fav' : p[2] \in books,
         \/ fav' = fav
         \/ \A s \in Others(r) : tx[s].dropped = {}
  PROVE  Kept'
<1>1. tx \in [Requests -> Tx] /\ tx'[r] = q
  BY DEF Kept, Waiting, Shape, TypeOK
<1>2. ASSUME NEW s \in Requests PROVE Swept(tx'[s], fav')
  <2>1. CASE s = r
    BY <1>1, <2>1
  <2>2. CASE s # r
    BY <1>1, <2>2 DEF Kept, Swept, Others
  <2>3. QED
    BY <2>1, <2>2
<1>3. QED
  BY <1>2 DEF Kept, BooksKnown

LEMMA KeptStep ==
  ASSUME Kept, Waiting', NEW r \in Requests, NEW pc, NEW seen, NEW inserted, NEW deleted,
         NEW dropped, NEW entry, Turn(r, pc, seen, inserted, deleted, dropped, entry),
         dropped # {} => dropped = {tx[r].pair[2]},
         pc \in {"log", "commit"} => \A p \in fav' : p[2] \in dropped => p \in deleted,
         books' = books, \A p \in fav' : p[2] \in books,
         \/ fav' = fav
         \/ \A s \in Others(r) : tx[s].dropped = {}
  PROVE  Kept'
<1> DEFINE q == [pc |-> pc, op |-> tx[r].op, pair |-> tx[r].pair, seen |-> seen,
                 inserted |-> inserted, deleted |-> deleted, dropped |-> dropped, entry |-> entry]
<1>1. tx' = [tx EXCEPT ![r] = q]
  BY DEF Turn
<1>2. Swept(q, fav')
  BY DEF Swept
<1> HIDE DEF q
<1>3. QED
  BY <1>1, <1>2, KeptTurned

LEMMA KeptReleased ==
  ASSUME Kept, Waiting', NEW r \in Requests, NEW removed, Release(r, removed),
         fav' \subseteq fav, \A p \in fav' : p[2] \in books'
  PROVE  Kept'
<1>1. Shape /\ tx'[r] = Idle
  BY DEF Release, Kept, Waiting
<1>2. ASSUME NEW s \in Requests PROVE Swept(tx'[s], fav')
  <2>1. CASE s = r
    BY <1>1, <2>1 DEF Swept, Idle
  <2>2. CASE s # r
    <3>1. Swept(tx[s], fav)
      BY DEF Kept
    <3>2. QED
      BY <1>1, <2>2, <3>1, Rest DEF Swept
  <2>3. QED
    BY <2>1, <2>2
<1>3. QED
  BY <1>2 DEF Kept, BooksKnown

LEMMA KeptNext ==
  ASSUME Parameters, Backend = "sqlite", Kept, [Next]_vars PROVE Kept'
<1>1. Shape /\ Waiting /\ Waiting' /\ \A p \in fav : p[2] \in books
  BY WaitingNext DEF Kept, Waiting, BooksKnown
<1>2. CASE UNCHANGED vars
  BY <1>1, <1>2 DEF vars, Kept, BooksKnown
<1>3. ASSUME NEW r \in Requests, DbError(r) PROVE Kept'
  BY <1>1, <1>3, KeptReleased DEF DbError, Rollback
<1>4. ASSUME NEW r \in Requests, NEW op, NEW p, Arrive(r, op, p) PROVE Kept'
  <2> DEFINE q == [Idle EXCEPT !.pc = "find", !.op = op, !.pair = p]
  <2>1. tx' = [tx EXCEPT ![r] = q] /\ UNCHANGED <<books, fav>>
    BY <1>4 DEF Arrive
  <2>2. Swept(q, fav')
    BY DEF Swept, Idle
  <2> HIDE DEF q
  <2>3. QED
    BY <1>1, <2>1, <2>2, KeptTurned
<1>5. ASSUME NEW r \in Requests, Step(r) PROVE Kept'
  <2>1. Late(tx[r]) /\ Writing(r, tx[r], writer) /\ LocksFree(r) /\ Swept(tx[r], fav)
    BY <1>5 DEF Waiting, Step, Kept
  <2>2. CASE Rollback(r)
    BY <1>1, <2>2, KeptReleased DEF Rollback
  <2>3. CASE Commit(r)
    <3>1. /\ tx[r].inserted = {} /\ books' = books \ tx[r].dropped /\ fav' = fav \ tx[r].deleted
          /\ \A p \in fav : p[2] \in tx[r].dropped => p \in tx[r].deleted
      BY <2>1, <2>3 DEF Commit, Writing, Swept
    <3>2. QED
      BY <1>1, <2>3, <3>1, KeptReleased DEF Commit
  <2>4. CASE (Find(r) \/ Lookup(r) \/ Again(r)) /\ ~ Rollback(r)
    <3>1. UNCHANGED <<books, fav>> /\ tx[r].dropped = {} /\ \E pc : Moved(r, pc)
      <4>1. tx[r].pc \in {"find", "lookup", "again"}
        BY <2>4 DEF Find, Lookup, Again
      <4>2. QED
        BY <1>1, <2>1, <2>4, <4>1, Steady DEF Late
    <3>2. QED
      BY <1>1, <3>1, KeptStep DEF Moved
  <2>5. CASE Insert(r)
    <3>1. tx[r].dropped = {} /\ writer \in {None, r} /\ books' = books
      BY <1>1, <2>1, <2>5, InsertTurns DEF Late, LocksFree
    <3>2. \A s \in Others(r) : tx[s].dropped = {}
      BY <1>1, <3>1 DEF Waiting, Writing, Others, Parameters
    <3>3. \A p \in fav' : p[2] \in books
      BY <1>1, <2>5 DEF Insert
    <3>4. \E pc : Moved(r, pc)
      BY <1>1, <2>5, InsertTurns
    <3>5. QED
      BY <1>1, <3>1, <3>2, <3>3, <3>4, KeptStep DEF Moved
  <2>6. CASE Erase(r)
    <3>1. tx[r].dropped = {}
      BY <1>1, <2>1, <2>6, EraseTurns DEF Late
    <3>2. QED
      BY <1>1, <2>6, <3>1, EraseTurns, KeptStep
  <2>7. CASE Erased(r)
    <3>1. tx[r].dropped = {}
      BY <1>1, <2>1, <2>7, ErasedTurns DEF Late
    <3>2. QED
      BY <1>1, <2>7, <3>1, ErasedTurns, KeptStep
  <2>8. CASE Drop(r)
    BY <1>1, <2>8, DropTurns, KeptStep
  <2>9. CASE Cascade(r)
    <3>1. \A p \in fav : p[2] \in tx[r].dropped => p \in Referencing(tx[r].pair[2])
      BY <2>1 DEF Swept, Referencing
    <3>2. QED
      BY <1>1, <2>1, <2>9, <3>1, CascadeTurns, KeptStep DEF Swept
  <2>10. CASE Log(r)
    BY <1>1, <2>1, <2>10, LogTurns, KeptStep DEF Swept
  <2>11. QED
    BY <1>5, <2>2, <2>3, <2>4, <2>5, <2>6, <2>7, <2>8, <2>9, <2>10 DEF Step
<1>6. QED
  BY <1>2, <1>3, <1>4, <1>5 DEF Next, Favorite, Unfavorite, DeleteBook

\* On either backend a favourite is one of an existing book: on PostgreSQL the
\* locks of the rows see to it, on SQLite the write lock, although the
\* savepoint commits a favourite before its request ends.
THEOREM FavouritesKnown == ASSUME Parameters PROVE Spec => []BooksKnown
<1>1. Backend = "sqlite" /\ Init => Kept
  BY KeptInit
<1>2. Backend = "sqlite" /\ Kept /\ [Next]_vars => Kept'
  BY KeptNext
<1>3. Kept => BooksKnown
  BY DEF Kept
<1>4. CASE Backend = "sqlite"
  BY <1>1, <1>2, <1>3, <1>4, PTL DEF Spec
<1>5. CASE Backend = "postgresql"
  BY <1>5, FavouritesTrue, PTL
<1>6. QED
  BY <1>4, <1>5 DEF Parameters
=============================================================================
