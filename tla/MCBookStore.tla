---------------------------- MODULE MCBookStore ----------------------------
(***************************************************************************)
(* Instances of BookStore for TLC.                                         *)
(***************************************************************************)
EXTENDS BookStore, TLC

CONSTANTS b1, b2, r1, r2, t1, t2, m1, m2

book(n) == [title |-> n, mime |-> None, size |-> 0, count |-> 0]

NoBooks == [b \in Books |-> None]
OneBook == (b1 :> book(t1)) @@ NoBooks

NoBooksTables == {NoBooks}
OneBookTables == {OneBook}

\* No bytes, one chunk, and two chunks of the same total size.
UploadSet == {<<>>, <<2>>, <<1, 1>>}

\* The same without the empty upload.
SomeUploadSet == {<<2>>, <<1, 1>>}
=============================================================================
