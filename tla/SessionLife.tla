---------------------------- MODULE SessionLife ----------------------------
(***************************************************************************)
(* What the accounts part of API Manager Books promises about sessions,    *)
(* whatever the interleaving of requests: a user has at most one live      *)
(* session, a session belongs to one user from the moment it opens, and a  *)
(* session that was replaced or closed never becomes live again.           *)
(***************************************************************************)
CONSTANTS Users, Sids, None

VARIABLES
  live,     \* live[u]: the session of user u, or None
  retired   \* the sessions that were live once and no longer are

vars == <<live, retired>>

Live(s) == \E u \in Users : live[u] = s

Init ==
  /\ live \in [Users -> Sids \cup {None}]
  /\ \A u, v \in Users : (live[u] = live[v] /\ live[u] # None) => u = v
  /\ retired = {}

\* A session opens for u and retires the one it replaces.
Open(u, s) ==
  /\ ~ Live(s)
  /\ s \notin retired
  /\ live' = [live EXCEPT ![u] = s]
  /\ retired' = retired \cup ({live[u]} \ {None})

\* The session of u is closed (logout, password change, deletion).
Close(u) ==
  /\ live[u] # None
  /\ live' = [live EXCEPT ![u] = None]
  /\ retired' = retired \cup {live[u]}

Next == \E u \in Users : Close(u) \/ \E s \in Sids : Open(u, s)

Spec == Init /\ [][Next]_vars
=============================================================================
