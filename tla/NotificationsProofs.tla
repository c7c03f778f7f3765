------------------------- MODULE NotificationsProofs -------------------------
(***************************************************************************)
(* Proofs about Notifications for any number of users, sockets and         *)
(* requests, any pool and any limit on concurrent sends.                   *)
(***************************************************************************)
EXTENDS Notifications, TLAPS

\* A broadcast only knows sockets whose endpoint receives or has returned: a
\* socket it holds is not used for another connection.
TargetsSpent ==
  \A r \in Requests : \A s \in req[r].targets : phase[s] \in {"none", "receive"}

\* The sockets a broadcast will remove do not listen any more.
DeadLost ==
  \A r \in Requests : \A s \in req[r].dead :
    s \in req[r].targets /\ ~ (phase[s] = "receive" /\ client[s] = "reading")

\* Sends are to sockets that were found open, and only while it sends has a
\* request any that are not finished.
SendingToTargets ==
  \A r \in Requests :
    /\ req[r].sending \subseteq req[r].targets
    /\ req[r].pc \notin {"send", "commit"} => req[r].sending = {} /\ req[r].dead = {}

\* send_to_user is always for somebody.
Addressed == \A r \in Requests : req[r].kind = "tell" => req[r].user \in Users

TypeInv == TypeOK /\ Addressed

NoteInv ==
  /\ TypeInv
  /\ NoGhosts /\ Reachable /\ Informed /\ NoLeak
  /\ TargetsSpent /\ DeadLost /\ SendingToTargets

-----------------------------------------------------------------------------
(* Types *)

LEMMA IdleType == ASSUME Parameters PROVE Idle \in Req /\ Idle.kind # "tell"
BY DEF Parameters, Idle, Req, Steps, Kinds

LEMMA InitInv == ASSUME Parameters, Init PROVE NoteInv
<1>1. TypeInv
  BY IdleType DEF Parameters, Init, TypeInv, TypeOK, Phases, Clients, Addressed, Idle
<1>2. NoGhosts /\ Reachable /\ NoLeak
  BY DEF Parameters, Init, NoGhosts, Reachable, NoLeak, Sessions
<1>3. Informed /\ TargetsSpent /\ DeadLost /\ SendingToTargets
  BY DEF Init, Idle, Informed, TargetsSpent, DeadLost, SendingToTargets
<1>4. QED
  BY <1>1, <1>2, <1>3 DEF NoteInv

LEMMA LeaveTypes ==
  ASSUME TypeInv, NEW s \in Sockets, NEW ph, Leave(s, ph),
         active' \in [Users -> SUBSET Sockets]
  PROVE  TypeInv'
<1>1. phase' \in [Sockets -> Phases] /\ client' \in [Sockets -> Clients]
  BY DEF Leave, TypeInv, TypeOK, Phases, Clients
<1>2. held' \in [Sessions -> Nat]
  BY DEF Leave, CheckIn, TypeInv, TypeOK
<1>3. QED
  BY <1>1, <1>2 DEF Leave, TypeInv, TypeOK, Addressed

LEMMA WithoutType ==
  ASSUME TypeInv, NEW S PROVE Without(S) \in [Users -> SUBSET Sockets]
BY DEF TypeInv, TypeOK, Without

LEMMA SocketTypes ==
  ASSUME Parameters, TypeInv, NEW s \in Sockets, Endpoint(s) \/ Network(s)
  PROVE  TypeInv'
<1>1. CASE Dial(s)
  BY <1>1 DEF Dial, TypeInv, TypeOK, Addressed, Phases, Clients
<1>2. CASE Reject(s) \/ AcceptFails(s)
  BY <1>2, LeaveTypes DEF Reject, AcceptFails, TypeInv, TypeOK
<1>3. CASE Authenticate(s)
  BY <1>3 DEF Authenticate, CheckOut, TypeInv, TypeOK, Addressed, Phases, Sessions
<1>4. CASE Accept(s)
  BY <1>4 DEF Parameters, Accept, TypeInv, TypeOK, Addressed, Phases
<1>5. CASE Close(s)
  BY <1>5, LeaveTypes, WithoutType DEF Close
<1>6. CASE Stall(s) \/ Recover(s) \/ Vanish(s)
  BY <1>6 DEF Stall, Recover, Vanish, ClientBecomes, TypeInv, TypeOK, Addressed, Clients
<1>7. QED
  BY <1>1, <1>2, <1>3, <1>4, <1>5, <1>6 DEF Endpoint, Network

\* The request in slot r changes, the others stay.
LEMMA RequestType ==
  ASSUME TypeInv, NEW r \in Requests, NEW q \in Req, q.kind = "tell" => q.user \in Users,
         req' = [req EXCEPT ![r] = q],
         active' \in [Users -> SUBSET Sockets], held' \in [Sessions -> Nat],
         UNCHANGED <<phase, client>>
  PROVE  TypeInv'
BY DEF TypeInv, TypeOK, Addressed

LEMMA RequestTypes ==
  ASSUME Parameters, TypeInv, NEW r \in Requests,
         Arrive(r) \/ Step(r) \/ PoolTimeout(r) \/ Fail(r)
  PROVE  TypeInv'
<1>1. req \in [Requests -> Req] /\ held \in [Sessions -> Nat] /\ active \in [Users -> SUBSET Sockets]
  BY DEF TypeInv, TypeOK
<1>2. req[r] \in Req /\ (req[r].kind = "tell" => req[r].user \in Users)
  BY <1>1 DEF TypeInv, Addressed
<1>3. held' \in [Sessions -> Nat]
  <2>1. CheckIn(r) \/ CheckOut(r) \/ UNCHANGED held
    BY DEF Arrive, Step, PoolTimeout, Fail, Connect, LookUp, Streamed, Send, Sending, StartSend,
           Sent, SendFails, Gathered, Commit, Finish
  <2>2. QED
    BY <1>1, <2>1 DEF CheckIn, CheckOut, Sessions
<1>4. CASE Arrive(r)
  <2>1. PICK k \in Kinds, u \in Users \cup {None} :
          /\ k = "tell" <=> u # None
          /\ req' = [req EXCEPT ![r] = [Idle EXCEPT !.pc = "connect", !.kind = k, !.user = u]]
    BY <1>4 DEF Arrive
  <2> DEFINE q == [Idle EXCEPT !.pc = "connect", !.kind = k, !.user = u]
  <2>2. q \in Req /\ q.kind = k /\ q.user = u
    BY DEF Idle, Req, Steps
  <2>3. q.kind = "tell" => q.user \in Users
    BY <2>1, <2>2
  <2> HIDE DEF q
  <2>4. QED
    BY <1>1, <1>3, <1>4, <2>1, <2>2, <2>3, RequestType DEF Arrive, q
<1>5. ASSUME NEW pc \in Steps, Go(r, pc), UNCHANGED <<phase, client>>,
             active' \in [Users -> SUBSET Sockets]
      PROVE  TypeInv'
  <2> DEFINE q == [req[r] EXCEPT !.pc = pc]
  <2>1. q \in Req /\ q.kind = req[r].kind /\ q.user = req[r].user
    BY <1>2 DEF Req
  <2>2. req' = [req EXCEPT ![r] = q]
    BY <1>1, <1>5 DEF Go
  <2> HIDE DEF q
  <2>3. QED
    BY <1>2, <1>3, <1>5, <2>1, <2>2, RequestType
<1>6. CASE Connect(r)
  <2>1. (IF req[r].pc = "connect" THEN "work" ELSE "stream") \in Steps
    BY DEF Steps
  <2>2. QED
    BY <1>1, <1>5, <1>6, <2>1 DEF Connect
<1>7. CASE LookUp(r)
  BY <1>1, <1>5, <1>7 DEF LookUp, Steps
<1>8. CASE Gathered(r)
  BY <1>5, <1>8, WithoutType DEF Gathered, Steps
<1>9. CASE Send(r)
  <2> DEFINE T == IF req[r].kind = "tell" THEN active[req[r].user] ELSE UNION {active[u] : u \in Users}
             q == [req[r] EXCEPT !.pc = "send", !.targets = T]
  <2>1. T \subseteq Sockets
    BY <1>1, <1>2
  <2> HIDE DEF T
  <2>2. q \in Req /\ q.kind = req[r].kind /\ q.user = req[r].user
    BY <1>2, <2>1 DEF Req, Steps
  <2>3. req' = [req EXCEPT ![r] = q]
    BY <1>1, <1>9 DEF Send, T
  <2> HIDE DEF q
  <2>4. QED
    BY <1>1, <1>2, <1>3, <1>9, <2>2, <2>3, RequestType DEF Send
<1>10. ASSUME NEW s \in Sockets, StartSend(r, s) \/ Sent(r, s) \/ SendFails(r, s) PROVE TypeInv'
  <2>1. PICK A \in SUBSET Sockets, B \in SUBSET Sockets, C \in SUBSET Sockets :
          req' = [req EXCEPT ![r] = [req[r] EXCEPT !.sending = A, !.sent = B, !.dead = C]]
    <3>1. req[r] = [pc |-> req[r].pc, kind |-> req[r].kind, user |-> req[r].user,
                    targets |-> req[r].targets, sending |-> req[r].sending,
                    sent |-> req[r].sent, dead |-> req[r].dead]
      BY <1>2 DEF Req
    <3>2. req[r].sending \in SUBSET Sockets /\ req[r].sent \in SUBSET Sockets
          /\ req[r].dead \in SUBSET Sockets
      BY <1>2 DEF Req
    <3>3. CASE StartSend(r, s)
      <4>1. req' = [req EXCEPT ![r] = [req[r] EXCEPT !.sending = req[r].sending \cup {s},
                                                   !.sent = req[r].sent, !.dead = req[r].dead]]
        BY <1>1, <3>1, <3>3 DEF StartSend
      <4>2. QED
        BY <3>2, <4>1
    <3>4. CASE Sent(r, s)
      <4>1. req' = [req EXCEPT ![r] = [req[r] EXCEPT !.sending = req[r].sending \ {s},
                                                   !.sent = req[r].sent \cup {s}, !.dead = req[r].dead]]
        BY <1>1, <3>1, <3>4 DEF Sent
      <4>2. QED
        BY <3>2, <4>1
    <3>5. CASE SendFails(r, s)
      <4>1. req' = [req EXCEPT ![r] = [req[r] EXCEPT !.sending = req[r].sending \ {s},
                                                   !.sent = req[r].sent, !.dead = req[r].dead \cup {s}]]
        BY <1>1, <3>1, <3>5 DEF SendFails
      <4>2. QED
        BY <3>2, <4>1
    <3>6. QED
      BY <1>10, <3>3, <3>4, <3>5
  <2> DEFINE q == [req[r] EXCEPT !.sending = A, !.sent = B, !.dead = C]
  <2>2. q \in Req /\ q.kind = req[r].kind /\ q.user = req[r].user
    BY <1>2, <2>1 DEF Req
  <2> HIDE DEF q
  <2>3. QED
    BY <1>1, <1>2, <1>3, <1>10, <2>1, <2>2, RequestType DEF StartSend, Sent, SendFails, q
<1>11. ASSUME Finish(r) PROVE TypeInv'
  BY <1>1, <1>3, <1>11, IdleType, RequestType DEF Finish
<1>12. CASE Streamed(r) \/ Commit(r) \/ PoolTimeout(r) \/ Fail(r)
  BY <1>11, <1>12 DEF Streamed, Commit, PoolTimeout, Fail
<1>13. QED
  BY <1>4, <1>6, <1>7, <1>8, <1>9, <1>10, <1>12 DEF Step, Sending

-----------------------------------------------------------------------------
(* Steps of sockets *)

\* An endpoint that returns takes its socket out of the table.
LEMMA LeaveSafe ==
  ASSUME Parameters, NoteInv, TypeInv', NEW s \in Sockets, NEW ph, Leave(s, ph),
         \A u \in Users : active'[u] = active[u] \ {s}
  PROVE  NoteInv'
<1>1. \A x \in Sockets : phase'[x] = IF x = s THEN "none" ELSE phase[x]
  BY DEF Leave, NoteInv, TypeInv, TypeOK
<1>2. \A x \in Sockets : client'[x] = IF x = s THEN "gone" ELSE client[x]
  BY DEF Leave, NoteInv, TypeInv, TypeOK
<1>3. \A x \in Sessions : held'[x] = IF x = s THEN 0 ELSE held[x]
  BY DEF Leave, CheckIn, NoteInv, TypeInv, TypeOK
<1>4. req' = req /\ req \in [Requests -> Req]
  BY DEF Leave, NoteInv, TypeInv, TypeOK
<1>5. \A x \in Sockets : UserOf[x] \in Users
  BY DEF Parameters
<1>6. NoGhosts' /\ Reachable'
  BY <1>1, <1>2, <1>5 DEF NoteInv, NoGhosts, Reachable
<1>7. Informed'
  BY <1>4, <1>5 DEF NoteInv, Informed, Req
<1>8. NoLeak'
  BY <1>1, <1>3, <1>4 DEF NoteInv, NoLeak, Parameters, Sessions
<1>9. TargetsSpent' /\ DeadLost' /\ SendingToTargets'
  BY <1>1, <1>2, <1>4 DEF NoteInv, TargetsSpent, DeadLost, SendingToTargets, Req
<1>10. QED
  BY <1>6, <1>7, <1>8, <1>9 DEF NoteInv

LEMMA SocketSafe ==
  ASSUME Parameters, NoteInv, TypeInv', NEW s \in Sockets, Endpoint(s) \/ Network(s)
  PROVE  NoteInv'
<1>1. /\ phase \in [Sockets -> Phases] /\ client \in [Sockets -> Clients]
      /\ req \in [Requests -> Req] /\ held \in [Sessions -> Nat]
      /\ active \in [Users -> SUBSET Sockets]
      /\ \A x \in Sockets : UserOf[x] \in Users
  BY DEF Parameters, NoteInv, TypeInv, TypeOK
<1>2. CASE Dial(s)
  <2>1. \A r \in Requests : s \notin req[r].targets
    BY <1>2 DEF Dial
  <2>2. NoGhosts' /\ Reachable' /\ NoLeak'
    BY <1>1, <1>2 DEF Dial, NoteInv, NoGhosts, Reachable, NoLeak
  <2>3. Informed' /\ SendingToTargets'
    BY <1>2 DEF Dial, NoteInv, Informed, SendingToTargets
  <2>4. TargetsSpent' /\ DeadLost'
    BY <1>1, <1>2, <2>1 DEF Dial, NoteInv, TargetsSpent, DeadLost, Req
  <2>5. QED
    BY <2>2, <2>3, <2>4 DEF NoteInv
<1>3. CASE Authenticate(s)
  <2>1. NoGhosts' /\ Reachable'
    BY <1>1, <1>3 DEF Authenticate, NoteInv, NoGhosts, Reachable
  <2>2. NoLeak'
    BY <1>1, <1>3 DEF Authenticate, CheckOut, Parameters, Sessions, NoteInv, NoLeak
  <2>3. s \notin UNION {req[r].targets : r \in Requests}
    BY <1>3 DEF Authenticate, NoteInv, TargetsSpent
  <2>4. Informed' /\ SendingToTargets' /\ TargetsSpent' /\ DeadLost'
    BY <1>1, <1>3, <2>3
    DEF Authenticate, NoteInv, Informed, SendingToTargets, TargetsSpent, DeadLost, Req
  <2>5. QED
    BY <2>1, <2>2, <2>4 DEF NoteInv
<1>4. CASE Accept(s)
  <2>1. \A r \in Requests : s \notin req[r].targets
    BY <1>4 DEF Accept, NoteInv, TargetsSpent
  <2>2. \A u \in Users : active'[u] = IF u = UserOf[s] THEN active[u] \cup {s} ELSE active[u]
    BY <1>1, <1>4 DEF Accept
  <2>3. NoGhosts' /\ Reachable'
    BY <1>1, <1>4, <2>2 DEF Accept, NoteInv, NoGhosts, Reachable
  <2>4. Informed' /\ SendingToTargets' /\ TargetsSpent' /\ DeadLost' /\ NoLeak'
    BY <1>1, <1>4, <2>1, <2>2
    DEF Accept, NoteInv, Informed, SendingToTargets, TargetsSpent, DeadLost, NoLeak, Req
  <2>5. QED
    BY <2>3, <2>4 DEF NoteInv
<1>5. CASE Reject(s) \/ AcceptFails(s)
  <2>1. \A u \in Users : active'[u] = active[u] \ {s}
    BY <1>5 DEF Reject, AcceptFails, Leave, NoteInv, NoGhosts
  <2>2. QED
    BY <1>5, <2>1, LeaveSafe DEF Reject, AcceptFails
<1>6. CASE Close(s)
  BY <1>6, LeaveSafe DEF Close, Without
<1>7. CASE Stall(s) \/ Recover(s) \/ Vanish(s)
  <2>1. \A x \in Sockets : client'[x] = "reading" => client[x] = "reading"
    BY <1>1, <1>7 DEF Stall, Recover, Vanish, ClientBecomes
  <2>2. UNCHANGED <<active, phase, req, held>>
    BY <1>7 DEF Stall, Recover, Vanish, ClientBecomes
  <2>3. NoGhosts' /\ Reachable' /\ Informed' /\ NoLeak'
    BY <2>1, <2>2 DEF NoteInv, NoGhosts, Reachable, Informed, NoLeak
  <2>4. TargetsSpent' /\ DeadLost' /\ SendingToTargets'
    BY <1>1, <2>1, <2>2 DEF NoteInv, TargetsSpent, DeadLost, SendingToTargets, Req
  <2>5. QED
    BY <2>3, <2>4 DEF NoteInv
<1>8. QED
  BY <1>2, <1>3, <1>4, <1>5, <1>6, <1>7 DEF Endpoint, Network

-----------------------------------------------------------------------------
(* Steps of requests *)

\* A request that keeps the table only has to keep its own part of the invariant.
LEMMA RequestSafe ==
  ASSUME Parameters, NoteInv, TypeInv', NEW r \in Requests,
         NEW q, req' = [req EXCEPT ![r] = q], UNCHANGED <<active, phase, client>>,
         CheckIn(r) \/ (q.pc \notin {"idle", "connect", "reconnect"} /\ CheckOut(r))
                    \/ (q.pc \notin {"idle", "connect", "reconnect"} /\ UNCHANGED held)
                    \/ (q.pc = req[r].pc /\ UNCHANGED held)
                    \/ (req[r].pc = "idle" /\ UNCHANGED held),
         q.targets \subseteq Sockets, q.sending \subseteq q.targets, q.dead \subseteq q.targets,
         q.pc \notin {"send", "commit"} => q.sending = {} /\ q.dead = {},
         q.pc = "commit" => \A s \in q.targets : s \in active[UserOf[s]] => s \in q.sent,
         \A s \in q.targets : phase[s] \in {"none", "receive"},
         \A s \in q.dead : ~ (phase[s] = "receive" /\ client[s] = "reading")
  PROVE  NoteInv'
<1>1. \A x \in Requests : req'[x] = IF x = r THEN q ELSE req[x]
  BY DEF NoteInv, TypeInv, TypeOK
<1>2. NoGhosts' /\ Reachable'
  BY DEF NoteInv, NoGhosts, Reachable
<1>3. Informed'
  BY <1>1 DEF NoteInv, Informed
<1>4. NoLeak'
  <2>1. \A x \in Sessions \ {r} : held'[x] = held[x]
    BY DEF NoteInv, TypeInv, TypeOK, CheckIn, CheckOut
  <2>2. \A x \in Sockets : x \in Sessions \ {r}
    BY DEF Parameters, Sessions
  <2>3. q.pc \in {"idle", "connect", "reconnect"} => held'[r] = 0
    BY DEF NoteInv, TypeInv, TypeOK, NoLeak, CheckIn, Sessions
  <2>4. QED
    BY <1>1, <2>1, <2>2, <2>3 DEF NoteInv, NoLeak, Sessions
<1>5. TargetsSpent' /\ DeadLost' /\ SendingToTargets'
  BY <1>1 DEF NoteInv, TargetsSpent, DeadLost, SendingToTargets
<1>6. QED
  BY <1>2, <1>3, <1>4, <1>5 DEF NoteInv

LEMMA FinishSafe ==
  ASSUME Parameters, NoteInv, TypeInv', NEW r \in Requests, Finish(r)
  PROVE  NoteInv'
<1>1. Idle.pc = "idle" /\ Idle.targets = {} /\ Idle.sending = {} /\ Idle.dead = {}
  BY DEF Idle
<1>2. QED
  BY <1>1, RequestSafe DEF Finish

\* While it sends, a request only adds to the sockets that are sent, or dead
\* because they do not listen.
LEMMA SendingStep ==
  ASSUME Parameters, NoteInv, TypeInv', NEW r \in Requests,
         NEW q, req' = [req EXCEPT ![r] = q], UNCHANGED <<active, phase, client, held>>,
         req[r].pc \in {"send", "commit"}, q.pc = req[r].pc, q.targets = req[r].targets,
         q.sending \subseteq q.targets, req[r].sent \subseteq q.sent, q.dead \subseteq q.targets,
         \A s \in q.dead \ req[r].dead : ~ (phase[s] = "receive" /\ client[s] = "reading")
  PROVE  NoteInv'
<1>1. q.targets \subseteq Sockets
  BY DEF NoteInv, TypeInv, TypeOK, Req
<1>2. q.pc = "commit" => \A s \in q.targets : s \in active[UserOf[s]] => s \in q.sent
  BY DEF NoteInv, Informed
<1>3. \A s \in q.targets : phase[s] \in {"none", "receive"}
  BY DEF NoteInv, TargetsSpent
<1>4. \A s \in q.dead : ~ (phase[s] = "receive" /\ client[s] = "reading")
  BY DEF NoteInv, DeadLost
<1>5. QED
  BY <1>1, <1>2, <1>3, <1>4, RequestSafe

LEMMA SendingSafe ==
  ASSUME Parameters, NoteInv, TypeInv', NEW r \in Requests, NEW s \in Sockets,
         StartSend(r, s) \/ Sent(r, s) \/ SendFails(r, s)
  PROVE  NoteInv'
<1>1. req[r] \in Req /\ req \in [Requests -> Req]
  BY DEF NoteInv, TypeInv, TypeOK
<1>2. /\ req[r].sending \subseteq req[r].targets /\ req[r].dead \subseteq req[r].targets
      /\ req[r].pc \in {"send", "commit"}
  BY DEF NoteInv, SendingToTargets, DeadLost, StartSend, Sent, SendFails
<1>3. CASE StartSend(r, s)
  <2> DEFINE q == [req[r] EXCEPT !.sending = req[r].sending \cup {s}]
  <2>1. req' = [req EXCEPT ![r] = q]
    BY <1>1, <1>3 DEF StartSend
  <2>2. /\ q.pc = req[r].pc /\ q.targets = req[r].targets
        /\ q.sending = req[r].sending \cup {s} /\ q.sent = req[r].sent /\ q.dead = req[r].dead
    BY <1>1 DEF Req
  <2>3. s \in req[r].targets
    BY <1>3 DEF StartSend, Pending
  <2> HIDE DEF q
  <2>4. QED
    BY <1>2, <1>3, <2>1, <2>2, <2>3, SendingStep DEF StartSend
<1>4. CASE Sent(r, s)
  <2> DEFINE q == [req[r] EXCEPT !.sending = req[r].sending \ {s}, !.sent = req[r].sent \cup {s}]
  <2>1. req' = [req EXCEPT ![r] = q]
    BY <1>1, <1>4 DEF Sent, Req
  <2>2. /\ q.pc = req[r].pc /\ q.targets = req[r].targets
        /\ q.sending = req[r].sending \ {s} /\ q.sent = req[r].sent \cup {s}
        /\ q.dead = req[r].dead
    BY <1>1 DEF Req
  <2> HIDE DEF q
  <2>3. QED
    BY <1>2, <1>4, <2>1, <2>2, SendingStep DEF Sent
<1>5. CASE SendFails(r, s)
  <2> DEFINE q == [req[r] EXCEPT !.sending = req[r].sending \ {s}, !.dead = req[r].dead \cup {s}]
  <2>1. req' = [req EXCEPT ![r] = q]
    BY <1>1, <1>5 DEF SendFails, Req
  <2>2. /\ q.pc = req[r].pc /\ q.targets = req[r].targets
        /\ q.sending = req[r].sending \ {s} /\ q.sent = req[r].sent
        /\ q.dead = req[r].dead \cup {s}
    BY <1>1 DEF Req
  <2>3. s \in req[r].targets /\ ~ (phase[s] = "receive" /\ client[s] = "reading")
    BY <1>2, <1>5 DEF SendFails
  <2> HIDE DEF q
  <2>4. QED
    BY <1>2, <1>5, <2>1, <2>2, <2>3, SendingStep DEF SendFails
<1>6. QED
  BY <1>3, <1>4, <1>5

\* The request takes another step with the same sets; the table stays.
LEMMA GoSafe ==
  ASSUME Parameters, NoteInv, TypeInv', NEW r \in Requests, NEW pc,
         Go(r, pc), UNCHANGED <<active, phase, client>>,
         req[r].pc \notin {"send", "commit"}, pc # "commit",
         CheckIn(r) \/ (pc \notin {"idle", "connect", "reconnect"} /\ CheckOut(r))
  PROVE  NoteInv'
<1> DEFINE q == [req[r] EXCEPT !.pc = pc]
<1>1. req[r] \in Req /\ req \in [Requests -> Req]
  BY DEF NoteInv, TypeInv, TypeOK
<1>2. /\ q.pc = pc /\ q.targets = req[r].targets /\ q.sending = req[r].sending
      /\ q.dead = req[r].dead /\ q.targets \subseteq Sockets
  BY <1>1 DEF Req
<1>3. req' = [req EXCEPT ![r] = q]
  BY <1>1 DEF Go
<1>4. /\ \A s \in req[r].targets : phase[s] \in {"none", "receive"}
      /\ \A s \in req[r].dead : ~ (phase[s] = "receive" /\ client[s] = "reading")
      /\ req[r].sending = {} /\ req[r].dead = {}
  BY DEF NoteInv, TargetsSpent, DeadLost, SendingToTargets
<1> HIDE DEF q
<1>5. QED
  BY <1>2, <1>3, <1>4, RequestSafe

LEMMA SendSafe ==
  ASSUME Parameters, NoteInv, TypeInv', NEW r \in Requests, Send(r)
  PROVE  NoteInv'
<1> DEFINE T == IF req[r].kind = "tell" THEN active[req[r].user] ELSE UNION {active[u] : u \in Users}
           q == [req[r] EXCEPT !.pc = "send", !.targets = T]
<1>1. req[r] \in Req /\ req \in [Requests -> Req]
  BY DEF NoteInv, TypeInv, TypeOK
<1>2. \A s \in T : \E u \in Users : s \in active[u]
  BY DEF NoteInv, TypeInv, Addressed
<1>3. \A s \in T : s \in Sockets /\ phase[s] = "receive"
  BY <1>2 DEF NoteInv, NoGhosts, TypeInv, TypeOK
<1>4. req[r].sending = {} /\ req[r].dead = {}
  BY DEF Send, NoteInv, SendingToTargets
<1>5. req' = [req EXCEPT ![r] = q]
  BY <1>1 DEF Send, Req
<1> HIDE DEF T
<1>6. q.pc = "send" /\ q.targets = T /\ q.sending = req[r].sending /\ q.dead = req[r].dead
  BY <1>1 DEF Req
<1> HIDE DEF q
<1>7. QED
  BY <1>3, <1>4, <1>5, <1>6, RequestSafe DEF Send

LEMMA GatheredSafe ==
  ASSUME Parameters, NoteInv, TypeInv', NEW r \in Requests, Gathered(r)
  PROVE  NoteInv'
<1>1. /\ phase \in [Sockets -> Phases] /\ req \in [Requests -> Req]
      /\ \A x \in Sockets : UserOf[x] \in Users
  BY DEF Parameters, NoteInv, TypeInv, TypeOK
<1>2. \A u \in Users : active'[u] = active[u] \ req[r].dead
  BY DEF Gathered, Without
<1>3. \A x \in Requests : /\ req'[x].targets = req[x].targets /\ req'[x].sending = req[x].sending
                          /\ req'[x].sent = req[x].sent /\ req'[x].dead = req[x].dead
                          /\ x # r => req'[x] = req[x]
  BY <1>1 DEF Gathered, Go, Req
<1>4. req'[r].pc = "commit" /\ UNCHANGED <<phase, client, held>>
  BY <1>1 DEF Gathered, Go, Req
<1>5. NoGhosts'
  BY <1>2, <1>4 DEF NoteInv, NoGhosts
<1>6. Reachable'
  BY <1>1, <1>2, <1>4 DEF NoteInv, Reachable, DeadLost
<1>7. Informed'
  <2> SUFFICES ASSUME NEW x \in Requests, req'[x].pc = "commit",
                      NEW s \in req'[x].targets, s \in active'[UserOf[s]]
               PROVE  s \in req'[x].sent
    BY DEF Informed
  <2>1. s \in Sockets
    BY <1>1, <1>3 DEF Req
  <2>2. s \in active[UserOf[s]] /\ s \notin req[r].dead
    BY <1>1, <1>2, <2>1
  <2>3. CASE x = r
    BY <1>3, <2>2, <2>3 DEF Gathered
  <2>4. CASE x # r
    BY <1>3, <2>2, <2>4 DEF NoteInv, Informed
  <2>5. QED
    BY <2>3, <2>4
<1>8. NoLeak'
  BY <1>3, <1>4 DEF NoteInv, NoLeak
<1>9. TargetsSpent' /\ DeadLost' /\ SendingToTargets'
  BY <1>3, <1>4 DEF NoteInv, TargetsSpent, DeadLost, SendingToTargets
<1>10. QED
  BY <1>5, <1>6, <1>7, <1>8, <1>9 DEF NoteInv

LEMMA RequestsSafe ==
  ASSUME Parameters, NoteInv, TypeInv', NEW r \in Requests,
         Arrive(r) \/ Step(r) \/ PoolTimeout(r) \/ Fail(r)
  PROVE  NoteInv'
<1>1. CASE Arrive(r)
  <2>1. PICK k \in Kinds, u \in Users \cup {None} :
          req' = [req EXCEPT ![r] = [Idle EXCEPT !.pc = "connect", !.kind = k, !.user = u]]
    BY <1>1 DEF Arrive
  <2> DEFINE q == [Idle EXCEPT !.pc = "connect", !.kind = k, !.user = u]
  <2>2. q.pc = "connect" /\ q.targets = {} /\ q.sending = {} /\ q.dead = {}
    BY DEF Idle
  <2> HIDE DEF q
  <2>3. QED
    BY <1>1, <2>1, <2>2, RequestSafe DEF Arrive, q
<1>2. CASE Connect(r)
  BY <1>2, GoSafe DEF Connect
<1>3. CASE LookUp(r)
  BY <1>3, GoSafe DEF LookUp
<1>4. CASE Send(r)
  BY <1>4, SendSafe
<1>5. CASE Sending(r)
  BY <1>5, SendingSafe DEF Sending
<1>6. CASE Gathered(r)
  BY <1>6, GatheredSafe
<1>7. CASE Streamed(r) \/ Commit(r) \/ PoolTimeout(r) \/ Fail(r)
  BY <1>7, FinishSafe DEF Streamed, Commit, PoolTimeout, Fail
<1>8. QED
  BY <1>1, <1>2, <1>3, <1>4, <1>5, <1>6, <1>7 DEF Step

-----------------------------------------------------------------------------

LEMMA NoteNext ==
  ASSUME Parameters, NoteInv, [Next]_vars
  PROVE  NoteInv'
<1>1. ASSUME NEW s \in Sockets, Endpoint(s) \/ Network(s) PROVE NoteInv'
  BY <1>1, SocketTypes, SocketSafe DEF NoteInv
<1>2. ASSUME NEW r \in Requests, Arrive(r) \/ Step(r) \/ PoolTimeout(r) \/ Fail(r) PROVE NoteInv'
  BY <1>2, RequestTypes, RequestsSafe DEF NoteInv
<1>3. CASE Restart
  <2>1. Init'
    BY <1>3 DEF Restart, Init
  <2>2. TypeInv'
    BY <2>1, IdleType DEF Parameters, Init, TypeInv, TypeOK, Phases, Clients, Addressed, Idle
  <2>3. NoGhosts' /\ Reachable' /\ NoLeak'
    BY <2>1 DEF Parameters, Init, NoGhosts, Reachable, NoLeak, Sessions
  <2>4. Informed' /\ TargetsSpent' /\ DeadLost' /\ SendingToTargets'
    BY <2>1 DEF Init, Idle, Informed, TargetsSpent, DeadLost, SendingToTargets
  <2>5. QED
    BY <2>2, <2>3, <2>4 DEF NoteInv
<1>4. CASE UNCHANGED vars
  BY <1>4
  DEF vars, NoteInv, TypeInv, TypeOK, Addressed, NoGhosts, Reachable, Informed, NoLeak,
      TargetsSpent, DeadLost, SendingToTargets
<1>5. QED
  BY <1>1, <1>2, <1>3, <1>4 DEF Next, Serve

LEMMA Invariance == ASSUME Parameters PROVE Spec => []NoteInv
<1>1. Init => NoteInv
  BY InitInv
<1>2. NoteInv /\ [Next]_vars => NoteInv'
  BY NoteNext
<1>3. QED
  BY <1>1, <1>2, PTL DEF Spec

\* The table of connections, the requests and the pool always have the form
\* the code gives them.
THEOREM TypeCorrect == ASSUME Parameters PROVE Spec => []TypeOK
<1>1. NoteInv => TypeOK
  BY DEF NoteInv, TypeInv
<1>2. QED
  BY <1>1, Invariance, PTL

\* For any number of sockets and broadcasts the table holds exactly the sockets
\* that receive, but for those whose client once did not read: no socket is left
\* behind in it and no listening client drops out of it.
THEOREM TableSound == ASSUME Parameters PROVE Spec => [](NoGhosts /\ Reachable)
<1>1. NoteInv => NoGhosts /\ Reachable
  BY DEF NoteInv
<1>2. QED
  BY <1>1, Invariance, PTL

\* Every socket that was open when a broadcast began has the message or has
\* left the table when the broadcast ends.
THEOREM BroadcastComplete == ASSUME Parameters PROVE Spec => []Informed
<1>1. NoteInv => Informed
  BY DEF NoteInv
<1>2. QED
  BY <1>1, Invariance, PTL

\* Nothing that has ended, and no download between its two sessions, holds a
\* connection of the pool.
THEOREM ConnectionsReturned == ASSUME Parameters PROVE Spec => []NoLeak
<1>1. NoteInv => NoLeak
  BY DEF NoteInv
<1>2. QED
  BY <1>1, Invariance, PTL

\* A request that sends goes on to its commit, whatever its clients do.
THEOREM SendingUndisturbed == ASSUME Parameters PROVE Spec => SendingGoesOn
<1>1. ASSUME NoteInv, Next, ~ Restart, NEW r \in Requests, req[r].pc = "send"
      PROVE  req'[r].pc \in {"send", "commit"}
  <2>1. req \in [Requests -> Req]
    BY <1>1 DEF NoteInv, TypeInv, TypeOK
  <2>2. ASSUME NEW s \in Sockets, Endpoint(s) \/ Network(s) PROVE req' = req
    BY <2>2 DEF Endpoint, Network, Dial, Reject, Authenticate, Accept, AcceptFails, Close, Stall,
                Recover, Vanish, Leave, ClientBecomes
  <2>3. ASSUME NEW q \in Requests, q # r, Arrive(q) \/ Step(q) \/ PoolTimeout(q) \/ Fail(q)
        PROVE  req'[r] = req[r]
    BY <2>1, <2>3 DEF Arrive, Step, PoolTimeout, Fail, Connect, LookUp, Streamed, Send, Sending,
           StartSend, Sent, SendFails, Gathered, Commit, Finish, Go
  <2>4. CASE Arrive(r) \/ PoolTimeout(r) \/ Fail(r) \/ Connect(r) \/ LookUp(r) \/ Send(r) \/ Commit(r)
    BY <1>1, <2>4 DEF Arrive, PoolTimeout, Fail, Connect, LookUp, Send, Commit
  <2>5. CASE Streamed(r)
    BY <1>1, <2>5 DEF Streamed
  <2>6. ASSUME NEW s \in Sockets, StartSend(r, s) \/ Sent(r, s) \/ SendFails(r, s)
        PROVE  req'[r].pc = "send"
    BY <1>1, <2>1, <2>6 DEF StartSend, Sent, SendFails, Req
  <2>7. CASE Gathered(r)
    BY <2>1, <2>7 DEF Gathered, Go, Req
  <2>8. QED
    BY <1>1, <2>2, <2>3, <2>4, <2>5, <2>6, <2>7 DEF Next, Serve, Step, Sending
<1>2. NoteInv /\ [Next]_vars =>
        [Restart \/ \A r \in Requests : req[r].pc = "send" => req'[r].pc \in {"send", "commit"}]_vars
  BY <1>1
<1>3. QED
  BY <1>2, Invariance, PTL DEF Spec, SendingGoesOn
=============================================================================
