------------------------------- MODULE MCParts -------------------------------
(***************************************************************************)
(* Instances for TLC of the parts: every behaviour is one of the part it   *)
(* starts with, the others stay in one of their initial states, so the     *)
(* numbers of states add up.                                               *)
(***************************************************************************)
EXTENDS Parts, Naturals, TLC

CONSTANTS m1, u1, s1, s2, t1, t2, a1

OneUser == [s \in {s1, s2} |-> u1]

BackendPayloads == {[backend |-> b, path |-> None] : b \in {"sqlite", "postgres", None}}

ThrottleLimits == (t1 :> 2) @@ (t2 :> 1) @@ (a1 :> 3)

BodyLimits == [multipart |-> 5, urlencoded |-> 2, json |-> None]

FileLimits == [cover |-> 2, book_file |-> 5]

ASSUME Parameters

VARIABLE part

MCInit ==
  /\ part \in {"settings", "favourites", "notifications", "keys", "paging", "throttle", "uploads"}
  /\ Init
  /\ part # "settings" => app = m1
  /\ part # "paging" => time = [i \in Ids |-> 1] /\ dir = "asc" /\ limit = 1

Only(p, A) == part = p /\ A /\ UNCHANGED part

MCNext ==
  \/ Only("settings", SettingsStep)
  \/ Only("favourites", FavoritesStep)
  \/ Only("notifications", NotificationsStep)
  \/ Only("keys", KeyFilesStep)
  \/ Only("paging", PagingStep)
  \/ Only("throttle", AuthThrottleStep)
  \/ Only("uploads", UploadsStep)

\* Fairness in the behaviours it is about: in the others none of these steps
\* is ever possible.
MCFairness ==
  /\ \A s \in Sockets : WF_noteVars(part = "notifications" /\ N!Endpoint(s))
  /\ \A r \in Requests : SF_noteVars(part = "notifications" /\ N!Step(r))

MCSpec == MCInit /\ [][MCNext]_<<part, vars>> /\ MCFairness
=============================================================================
