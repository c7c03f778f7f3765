----------------------------- MODULE MCSettings -----------------------------
(***************************************************************************)
(* Instances of Settings for TLC.                                          *)
(***************************************************************************)
EXTENDS Settings

CONSTANTS p1, k1, k2, m1, m2, m3, r1, r2

\* Changes of backend, and of nothing a URL is made of (echo).
BackendPayloads == {[backend |-> b, path |-> None] : b \in {"sqlite", "postgres", None}}
=============================================================================
