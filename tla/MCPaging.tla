------------------------------ MODULE MCPaging ------------------------------
(***************************************************************************)
(* A list with SQLite, whose cursors are compared as text, for TLC.        *)
(***************************************************************************)
EXTENDS Paging
=============================================================================
