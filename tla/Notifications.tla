---------------------------- MODULE Notifications ----------------------------
(***************************************************************************)
(* Notifications over WebSocket, and the pool of database connections that *)
(* sockets and requests share.                                             *)
(*                                                                         *)
(* ConnectionManager keeps the open sockets of each user.  Requests that   *)
(* change books send to all of them, requests that end a session to those  *)
(* of its user; they do it before their commit, so a slow client holds up  *)
(* the request and the connection it has checked out.  An open socket      *)
(* keeps the session of its authentication, and with it a connection,      *)
(* until its endpoint returns.  A download gives its first connection back *)
(* before it takes a second one to read the bytes.                         *)
(***************************************************************************)
EXTENDS Naturals, FiniteSets, FiniteSetsExt

CONSTANTS
  Users,
  Sockets,               \* WebSocket objects
  Requests,              \* requests the server runs at the same time
  UserOf,                \* UserOf[s]: the user who opens socket s
  PoolSize,              \* connections the engine hands out at the same time
  BroadcastConcurrency,  \* BROADCAST_CONCURRENCY
  None

Kinds == {"announce", "tell", "download"}

\* What the values of the constants must satisfy.
Parameters ==
  /\ UserOf \in [Sockets -> Users]
  /\ PoolSize \in Nat \ {0} /\ BroadcastConcurrency \in Nat \ {0}
  /\ None \notin Users \cup Kinds
  /\ Sockets \cap Requests = {}

Sessions == Sockets \cup Requests

\* What the endpoint of a socket does: nothing, wait for a connection to
\* authenticate with, accept, receive.
Phases == {"none", "authenticate", "accept", "receive"}

\* The client of a socket reads, has stopped reading, reads again, is gone.
Clients == {"reading", "stalled", "late", "gone"}

Steps == {"idle", "connect", "work", "send", "commit", "reconnect", "stream"}

Req == [pc      : Steps,
        kind    : Kinds \cup {None},
        user    : Users \cup {None},   \* whom send_to_user is for
        targets : SUBSET Sockets,      \* sockets found open when the sending began
        sending : SUBSET Sockets,
        sent    : SUBSET Sockets,
        dead    : SUBSET Sockets]

Idle == [pc |-> "idle", kind |-> None, user |-> None, targets |-> {}, sending |-> {},
         sent |-> {}, dead |-> {}]

VARIABLES
  active,    \* active_connections[u]; {}: no entry
  phase,     \* phase[s]: the endpoint of socket s
  client,    \* client[s]
  req,       \* req[r]: the request in slot r
  held       \* held[x]: connections that session x has checked out

vars == <<active, phase, client, req, held>>

Init ==
  /\ active = [u \in Users |-> {}]
  /\ phase = [s \in Sockets |-> "none"]
  /\ client = [s \in Sockets |-> "gone"]
  /\ req = [r \in Requests |-> Idle]
  /\ held = [x \in Sessions |-> 0]

-----------------------------------------------------------------------------
(* The pool *)

Free == MapThenSumSet(LAMBDA x : held[x], Sessions) < PoolSize

CheckOut(x) == Free /\ held' = [held EXCEPT ![x] = @ + 1]

CheckIn(x) == held' = [held EXCEPT ![x] = 0]

-----------------------------------------------------------------------------
(* Sockets: /ws/notifications *)

\* The socket object is new: no broadcast still holds it.
Dial(s) ==
  /\ phase[s] = "none"
  /\ \A r \in Requests : s \notin req[r].targets
  /\ phase' = [phase EXCEPT ![s] = "authenticate"]
  /\ client' = [client EXCEPT ![s] = "reading"]
  /\ UNCHANGED <<active, req, held>>

Leave(s, ph) ==
  /\ phase[s] = ph
  /\ phase' = [phase EXCEPT ![s] = "none"]
  /\ client' = [client EXCEPT ![s] = "gone"]
  /\ CheckIn(s)
  /\ UNCHANGED req

\* A token that is not valid, or no connection within the timeout of the pool.
Reject(s) == Leave(s, "authenticate") /\ UNCHANGED active

\* get_current_user_from_ws: the session lives as long as the endpoint.
Authenticate(s) ==
  /\ phase[s] = "authenticate"
  /\ CheckOut(s)
  /\ phase' = [phase EXCEPT ![s] = "accept"]
  /\ UNCHANGED <<active, client, req>>

\* connect: accept, which awaits, then the entry.
Accept(s) ==
  /\ phase[s] = "accept"
  /\ client[s] # "gone"
  /\ phase' = [phase EXCEPT ![s] = "receive"]
  /\ active' = [active EXCEPT ![UserOf[s]] = @ \cup {s}]
  /\ UNCHANGED <<client, req, held>>

AcceptFailsLate(s) ==   \* fault: the entry is made before accept
  /\ client[s] = "gone"
  /\ Leave(s, "accept")
  /\ active' = [active EXCEPT ![UserOf[s]] = @ \cup {s}]

AcceptFails(s) ==
  /\ client[s] = "gone"
  /\ Leave(s, "accept")
  /\ UNCHANGED active

\* disconnect for each of a set of sockets.
WithoutUsers(S) ==   \* fault: the entry of the user is deleted
  [u \in Users |-> IF active[u] \cap S = {} THEN active[u] ELSE {}]

Without(S) == [u \in Users |-> active[u] \ S]

\* receive_text raises WebSocketDisconnect.
Close(s) ==
  /\ client[s] = "gone"
  /\ Leave(s, "receive")
  /\ active' = Without({s})

ClientBecomes(s, from, to) ==
  /\ phase[s] \in {"accept", "receive"}
  /\ client[s] \in from
  /\ client' = [client EXCEPT ![s] = to]
  /\ UNCHANGED <<active, phase, req, held>>

Stall(s) == ClientBecomes(s, {"reading", "late"}, "stalled")

Recover(s) == ClientBecomes(s, {"stalled"}, "late")

Vanish(s) == ClientBecomes(s, {"reading", "stalled", "late"}, "gone")

-----------------------------------------------------------------------------
(* Requests *)

Arrive(r) ==
  /\ req[r].pc = "idle"
  /\ \E k \in Kinds, u \in Users \cup {None} :
       /\ k = "tell" <=> u # None
       /\ req' = [req EXCEPT ![r] = [Idle EXCEPT !.pc = "connect", !.kind = k, !.user = u]]
  /\ UNCHANGED <<active, phase, client, held>>

Go(r, pc) == req' = [req EXCEPT ![r].pc = pc]

\* The session is closed: committed or rolled back.
Finish(r) ==
  /\ req' = [req EXCEPT ![r] = Idle]
  /\ CheckIn(r)
  /\ UNCHANGED <<active, phase, client>>

\* The first statement of a session.
Connect(r) ==
  /\ req[r].pc \in {"connect", "reconnect"}
  /\ CheckOut(r)
  /\ Go(r, IF req[r].pc = "connect" THEN "work" ELSE "stream")
  /\ UNCHANGED <<active, phase, client>>

\* QueuePool raises TimeoutError after 30 seconds.
PoolTimeout(r) ==
  /\ req[r].pc \in {"connect", "reconnect"}
  /\ Finish(r)

\* An exception of the service or of the database, 404 included.
Fail(r) ==
  /\ req[r].pc \in {"work", "commit", "stream"}
  /\ Finish(r)

\* The metadata of a download: the session ends with the path function.
LookUpHolding(r) ==   \* fault: the session ends with the response
  /\ req[r].pc = "work"
  /\ req[r].kind = "download"
  /\ Go(r, "reconnect")
  /\ UNCHANGED <<active, phase, client, held>>

LookUp(r) ==
  /\ req[r].pc = "work"
  /\ req[r].kind = "download"
  /\ Go(r, "reconnect")
  /\ CheckIn(r)
  /\ UNCHANGED <<active, phase, client>>

Streamed(r) ==
  /\ req[r].pc = "stream"
  /\ Finish(r)

\* broadcast copies all connections, send_to_user those of its user.
Send(r) ==
  /\ req[r].pc = "work"
  /\ req[r].kind \in {"announce", "tell"}
  /\ req' = [req EXCEPT ![r].pc = "send",
                        ![r].targets = IF req[r].kind = "tell" THEN active[req[r].user]
                                       ELSE UNION {active[u] : u \in Users}]
  /\ UNCHANGED <<active, phase, client, held>>

Pending(r) == req[r].targets \ (req[r].sending \cup req[r].sent \cup req[r].dead)

\* _send_many: send_one enters the semaphore.
StartSend(r, s) ==
  /\ req[r].pc = "send"
  /\ s \in Pending(r)
  /\ Cardinality(req[r].sending) < BroadcastConcurrency
  /\ req' = [req EXCEPT ![r].sending = @ \cup {s}]
  /\ UNCHANGED <<active, phase, client, held>>

Sent(r, s) ==
  /\ s \in req[r].sending
  /\ phase[s] = "receive"
  /\ client[s] # "stalled"
  /\ req' = [req EXCEPT ![r].sending = @ \ {s}, ![r].sent = @ \cup {s}]
  /\ UNCHANGED <<active, phase, client, held>>

\* The send raises, because the socket is closed, or takes longer than
\* WEBSOCKET_SEND_TIMEOUT.
SendFailsClosed(r, s) ==   \* fault: no timeout
  /\ s \in req[r].sending
  /\ phase[s] # "receive" \/ client[s] = "gone"
  /\ req' = [req EXCEPT ![r].sending = @ \ {s}, ![r].dead = @ \cup {s}]
  /\ UNCHANGED <<active, phase, client, held>>

SendFailsLoud(r, s) ==   \* fault: the exception of send_json is not caught
  /\ s \in req[r].sending
  /\ phase[s] # "receive" \/ client[s] \in {"gone", "stalled"}
  /\ Finish(r)

SendFails(r, s) ==
  /\ s \in req[r].sending
  /\ phase[s] # "receive" \/ client[s] \in {"gone", "stalled"}
  /\ req' = [req EXCEPT ![r].sending = @ \ {s}, ![r].dead = @ \cup {s}]
  /\ UNCHANGED <<active, phase, client, held>>

\* gather has all results; the dead sockets are disconnected.
GatheredKept(r) ==   \* fault: the dead sockets stay
  /\ req[r].pc = "send"
  /\ req[r].targets = req[r].sent \cup req[r].dead
  /\ Go(r, "commit")
  /\ UNCHANGED <<active, phase, client, held>>

Gathered(r) ==
  /\ req[r].pc = "send"
  /\ req[r].targets = req[r].sent \cup req[r].dead
  /\ active' = Without(req[r].dead)
  /\ Go(r, "commit")
  /\ UNCHANGED <<phase, client, held>>

\* The rest of the transaction, its commit and the response.
Commit(r) ==
  /\ req[r].pc = "commit"
  /\ Finish(r)

-----------------------------------------------------------------------------

\* Nothing of this outlives the process.
Restart ==
  /\ active' = [u \in Users |-> {}]
  /\ phase' = [s \in Sockets |-> "none"]
  /\ client' = [s \in Sockets |-> "gone"]
  /\ req' = [r \in Requests |-> Idle]
  /\ held' = [x \in Sessions |-> 0]

Endpoint(s) == Authenticate(s) \/ Accept(s) \/ AcceptFails(s) \/ Close(s)

Network(s) == Dial(s) \/ Reject(s) \/ Stall(s) \/ Recover(s) \/ Vanish(s)

Sending(r) == \E s \in Sockets : StartSend(r, s) \/ Sent(r, s) \/ SendFails(r, s)

Step(r) ==
  \/ Connect(r) \/ LookUp(r) \/ Streamed(r) \/ Send(r) \/ Sending(r) \/ Gathered(r)
  \/ Commit(r)

Serve ==
  \/ \E s \in Sockets : Endpoint(s) \/ Network(s)
  \/ \E r \in Requests : Arrive(r) \/ Step(r) \/ PoolTimeout(r) \/ Fail(r)

Next == Serve \/ Restart

Spec == Init /\ [][Next]_vars

\* The event loop runs every coroutine that can go on and the pool serves its
\* waiters in turn; the client of a download reads it or goes away.
Fairness ==
  /\ \A s \in Sockets : WF_vars(Endpoint(s))
  /\ \A r \in Requests : SF_vars(Step(r))

FairSpec == Spec /\ Fairness

-----------------------------------------------------------------------------
(* Properties *)

\* Every variable holds a value of the shape the code gives it.
TypeOK ==
  /\ active \in [Users -> SUBSET Sockets]
  /\ phase \in [Sockets -> Phases]
  /\ client \in [Sockets -> Clients]
  /\ req \in [Requests -> Req]
  /\ held \in [Sessions -> Nat]

\* A socket is in the table only while its endpoint receives, and under its
\* own user, so the table does not fill up with sockets nobody will remove.
NoGhosts ==
  \A u \in Users, s \in Sockets : s \in active[u] => phase[s] = "receive" /\ UserOf[s] = u

\* A client that has always been reading is in the table while its endpoint
\* receives, whatever other sockets of its user and broadcasts end meanwhile.
Reachable ==
  \A s \in Sockets : (phase[s] = "receive" /\ client[s] = "reading") => s \in active[UserOf[s]]

\* When a request goes on to its commit, every socket that was open when it
\* began to send has its message or is no longer in the table.
Informed ==
  \A r \in Requests : req[r].pc = "commit" =>
    \A s \in req[r].targets : s \in active[UserOf[s]] => s \in req[r].sent

\* A broken or slow client costs nobody else the message and never ends the
\* request that sends: only the end of the process cuts it short.
SendingGoesOn ==
  [][Restart \/ \A r \in Requests : req[r].pc = "send" => req'[r].pc \in {"send", "commit"}]_vars

\* However it ended, a request that has been answered, a download that waits
\* for its second connection and a socket whose endpoint is gone hold no
\* connection of the pool.
NoLeak ==
  /\ \A s \in Sockets : phase[s] = "none" => held[s] = 0
  /\ \A r \in Requests : req[r].pc \in {"idle", "connect", "reconnect"} => held[r] = 0

\* As long as the open sockets leave a connection of the pool free, every
\* request is answered: no client that stops reading and no download that
\* waits for its second connection holds it up for ever.
Served ==
  Cardinality(Sockets) < PoolSize =>
    \A r \in Requests : (req[r].pc # "idle") ~> (req[r].pc = "idle")
=============================================================================
