----------------------------- MODULE MCReading -----------------------------
(***************************************************************************)
(* Instances of Reading for TLC.                                           *)
(***************************************************************************)
EXTENDS Reading, TLC

CONSTANTS u1, b1, c1, c2, c3, f1, r1, r2

\* One chapter, two chapters, and the lists that are refused.
ListSet == {<<1>>, <<1, 2>>, <<1, 1>>, <<>>}
=============================================================================
