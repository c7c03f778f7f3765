----------------------------- MODULE FavoriteLog -----------------------------
(***************************************************************************)
(* What API Manager Books promises about favourites: each change of the    *)
(* table comes with its entry in the log, in one step, and the deletion of *)
(* a book takes all favourites of it along.                                *)
(***************************************************************************)
CONSTANTS
  Users,
  Books,
  None

VARIABLES
  books,    \* ids of the books there are
  fav,      \* pairs of a user and a book
  last      \* last[p]: the latest log entry about pair p

vars == <<books, fav, last>>

Pairs == Users \X Books

Init ==
  /\ books = Books
  /\ fav = {}
  /\ last = [p \in Pairs |-> None]

Add(p) ==
  /\ p \notin fav /\ p[2] \in books
  /\ fav' = fav \cup {p}
  /\ last' = [last EXCEPT ![p] = "favorite_book"]
  /\ UNCHANGED books

Remove(p) ==
  /\ p \in fav
  /\ fav' = fav \ {p}
  /\ last' = [last EXCEPT ![p] = "unfavorite_book"]
  /\ UNCHANGED books

Delete(b) ==
  /\ b \in books
  /\ books' = books \ {b}
  /\ fav' = {p \in fav : p[2] # b}
  /\ UNCHANGED last

Next == (\E p \in Pairs : Add(p) \/ Remove(p)) \/ \E b \in Books : Delete(b)

Spec == Init /\ [][Next]_vars
=============================================================================
