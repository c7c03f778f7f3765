---------------------------- MODULE MCFavorites ----------------------------
(***************************************************************************)
(* Instances of Favorites for TLC.                                         *)
(***************************************************************************)
EXTENDS Favorites, TLC

CONSTANTS u1, u2, b1, b2, r1, r2, r3

Symmetry == Permutations(Requests) \cup Permutations(Books) \cup Permutations(Users)
=============================================================================
