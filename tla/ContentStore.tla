---------------------------- MODULE ContentStore ----------------------------
(***************************************************************************)
(* What the binary storage of API Manager Books promises about the bytes   *)
(* of a cover or a file: a book holds the whole content of one upload, or  *)
(* nothing, and every change replaces it as a whole.                       *)
(***************************************************************************)
CONSTANTS
  Books,
  Contents    \* what an upload can leave behind, {} included

VARIABLE content    \* content[b]: the chunk rows of book b

Init == content \in [Books -> Contents]

\* An upload replaces the content, a deletion empties it.
Replace(b, c) == content' = [content EXCEPT ![b] = c]

Next == \E b \in Books, c \in Contents : Replace(b, c)

Spec == Init /\ [][Next]_content
=============================================================================
