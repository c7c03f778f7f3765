------------------------------ MODULE Accounts ------------------------------
(***************************************************************************)
(* Users, their roles and their sessions, as the HTTP requests of          *)
(* /users change them.  A request is a process: it authenticates, runs the *)
(* statements of its service method one at a time, and commits or rolls    *)
(* back; statements of different requests interleave freely.               *)
(*                                                                         *)
(* One database session (and transaction) serves a whole request.  A       *)
(* statement sees the latest committed rows and the request's own writes   *)
(* (READ COMMITTED on PostgreSQL; on SQLite the driver begins the          *)
(* transaction at the first write).  What the request has already loaded   *)
(* stays in the ORM identity map as it was, so later statements compare    *)
(* with a possibly stale snapshot, and an UPDATE carries only the columns  *)
(* whose value differs from that snapshot.                                 *)
(*                                                                         *)
(* A refresh token is minted together with its session and stored in the   *)
(* same row, so one name stands for both.  Requests that fail before their *)
(* first write (wrong password, dead token, 403) change nothing and are    *)
(* not steps.                                                              *)
(***************************************************************************)
EXTENDS Naturals, FiniteSets

CONSTANTS
  Users,          \* primary keys of table users (uuid4, never reused)
  Emails,
  DefaultEmail,   \* default@default.ru
  Passwords,
  Sids,           \* session uuids (bound: logins and refreshes of a run)
  Requests,       \* requests the server runs at the same time
  Ops,            \* operations the clients of this instance call
  Payloads,       \* what they ask for: fields of UserCreate and UserUpdate
  Backend,        \* "sqlite" or "postgresql"
  InitialTables,  \* contents of table users the runs start from
  None            \* NULL, no row, no lock owner, field not given

Roles == {"admin", "user"}

Operations == {"login", "refresh", "logout", "add", "delete", "update"}

Row == [email : Emails, pw : Passwords, role : Roles, session : Sids \cup {None}]

Table == [Users -> Row \cup {None}]

\* What the unique index on email and the fresh uuid of each session ensure.
WellFormed(t) ==
  \A u, v \in Users :
    (u # v /\ t[u] # None /\ t[v] # None) =>
      /\ t[u].email # t[v].email
      /\ (t[u].session = t[v].session => t[u].session = None)

ASSUME NoneAssumption ==
  None \notin Users \cup Emails \cup Passwords \cup Sids \cup Requests \cup Row \cup Roles \cup Operations

\* A field of an update that is not given is None; add_user gives them all.
Payload == [email : Emails \cup {None}, pw : Passwords \cup {None}, role : Roles \cup {None}]

ASSUME OpsAssumption == Ops \subseteq Operations

ASSUME PayloadAssumption == Payloads \subseteq Payload

ASSUME BackendAssumption == Backend \in {"sqlite", "postgresql"}

ASSUME TableAssumption == \A t \in InitialTables : t \in Table /\ WellFormed(t)

Steps == {"idle", "store", "find", "count", "unique", "default", "insert",
          "update", "clear", "log", "drop", "commit"}

Tx == [pc     : Steps,
       op     : Operations \cup {None},
       self   : Users \cup {None},          \* author of the log entry
       target : Users \cup {None},          \* row the request is about
       old    : Users \cup {None},          \* default user, as add_user found it
       email  : Emails \cup {None},
       pw     : Passwords \cup {None},
       role   : Roles \cup {None},
       sid    : Sids \cup {None},           \* session being opened
       snap   : Row \cup {None},            \* identity map: the target as loaded
       entry  : Users \cup {None}]          \* log entry inserted: its author

Idle == [pc |-> "idle", op |-> None, self |-> None, target |-> None, old |-> None,
         email |-> None, pw |-> None, role |-> None, sid |-> None, snap |-> None,
         entry |-> None]

VARIABLES
  db,         \* committed table users
  work,       \* uncommitted version of the rows that are locked
  owner,      \* owner[u]: request that holds the write lock of row u
  tx,         \* tx[r]: the request in slot r
  gone,       \* ids of deleted users
  retired,    \* sessions that were committed once and no longer are
  delivered   \* token pairs clients have received: user and session

vars == <<db, work, owner, tx, gone, retired, delivered>>

-----------------------------------------------------------------------------
(* The database *)

View(r) == [u \in Users |-> IF owner[u] = r THEN work[u] ELSE db[u]]

Present(t) == {u \in Users : t[u] # None}

Admins(t) == {u \in Present(t) : t[u].role = "admin"}

\* SQLite has one write lock for the database, PostgreSQL one per row.
Locked(u) == IF Backend = "sqlite" THEN Users ELSE {u}

\* The row r writes becomes an uncommitted version, locked until r ends.
Write(r, u, row) ==
  /\ owner' = [v \in Users |-> IF v \in Locked(u) THEN r ELSE owner[v]]
  /\ work' = [v \in Users |-> IF v = u THEN row
                              ELSE IF v \in Locked(u) THEN View(r)[v] ELSE work[v]]

\* Another row carries the email of u's new version (the unique index).
EmailTaken(r, u, e) == \E v \in Present(View(r)) \ {u} : View(r)[v].email = e

\* Columns of an UPDATE: those given whose value differs from the snapshot.
\* A password is hashed with a new salt, so it always differs.
Given(t) == [email |-> t.email # None /\ t.email # t.snap.email,
             pw    |-> t.pw # None,
             role  |-> t.role # None /\ t.role # t.snap.role]

Changes(t) == Given(t).email \/ Given(t).pw \/ Given(t).role

PatchedWhole(row, t) ==   \* fault: the whole object is saved as it was loaded
  [t.snap EXCEPT !.email = IF Given(t).email THEN t.email ELSE @,
                 !.pw    = IF Given(t).pw THEN t.pw ELSE @,
                 !.role  = IF Given(t).role THEN t.role ELSE @]

Patched(row, t) ==
  [row EXCEPT !.email = IF Given(t).email THEN t.email ELSE @,
              !.pw    = IF Given(t).pw THEN t.pw ELSE @,
              !.role  = IF Given(t).role THEN t.role ELSE @]

\* The identity map after flush and refresh.
NotRefreshed(row, t) == Patched(t.snap, t)   \* fault: no refresh after the flush

Refreshed(row, t) == Patched(row, t)

\* set_auth_session changes the session columns only: the new values differ
\* from any snapshot, the other columns are as loaded.
OpenedWhole(row, t) == [t.snap EXCEPT !.session = t.sid]   \* fault: all columns saved

Opened(row, t) == [row EXCEPT !.session = t.sid]

\* Row the next statement of r writes, None when it writes nothing.
Needs(r) ==
  CASE tx[r].pc \in {"store", "insert"} -> tx[r].target
    [] tx[r].pc = "update" /\ Changes(tx[r]) -> tx[r].target
    [] tx[r].pc = "clear" /\ tx[r].snap.session # None -> tx[r].target
    [] tx[r].pc = "log" -> tx[r].self
    [] tx[r].pc = "drop" -> IF tx[r].op = "add" THEN tx[r].old ELSE tx[r].target
    [] OTHER -> None

\* The uncommitted version of row v deletes it or changes its email.
KeyInFlight(v) == work[v] = None \/ db[v] = None \/ work[v].email # db[v].email

\* Requests r's next statement waits for: the owners of the rows it writes,
\* the log entries that reference a row it deletes or whose key it changes,
\* and uncommitted rows with the email it is about to store.  PostgreSQL's
\* foreign-key check of a log entry waits only for a change of the key.
Blockers(r) ==
  LET u == Needs(r)
      storesEmail == tx[r].pc = "insert" \/ (tx[r].pc = "update" /\ Given(tx[r]).email)
      rows == IF tx[r].pc = "log" /\ Backend = "postgresql"
              THEN {v \in {u} : KeyInFlight(v)} ELSE Locked(u)
      writers == {owner[v] : v \in rows}
      readers == IF tx[r].pc = "drop" \/ storesEmail
                 THEN {q \in Requests : tx[q].entry = u} ELSE {}
      rivals == IF storesEmail
                THEN {owner[v] : v \in {v \in Users \ {u} :
                        \E row \in {db[v], work[v]} : row # None /\ row.email = tx[r].email}}
                ELSE {}
  IN IF u = None THEN {} ELSE (writers \cup readers \cup rivals) \ {r, None}

-----------------------------------------------------------------------------
(* Ends of a request *)

ReleaseLeaks(r) ==   \* fault: the session is never closed
  /\ UNCHANGED <<owner, work>>
  /\ tx' = [tx EXCEPT ![r] = Idle]

Release(r) ==
  /\ owner' = [u \in Users |-> IF owner[u] = r THEN None ELSE owner[u]]
  /\ work' = [u \in Users |-> IF owner[u] = r THEN None ELSE work[u]]
  /\ tx' = [tx EXCEPT ![r] = Idle]

\* Tokens a request sends back: its response leaves after the commit.
ResponseAlways(r) == {[user |-> tx[r].target, sid |-> tx[r].sid]}   \* fault

Response(r) == IF tx[r].op \in {"login", "refresh"}
               THEN {[user |-> tx[r].target, sid |-> tx[r].sid]} ELSE {}

RollbackAnswers(r) ==   \* fault: the response leaves before the commit, which fails
  /\ Release(r)
  /\ delivered' = delivered \cup Response(r)
  /\ UNCHANGED <<db, gone, retired>>

\* Any exception leaves the session through rollback.
Rollback(r) ==
  /\ Release(r)
  /\ UNCHANGED <<db, gone, retired, delivered>>

\* Sessions of table t.
SessionsOf(t) == {t[u].session : u \in Present(t)} \ {None}

Commit(r) ==
  /\ tx[r].pc = "commit"
  /\ db' = View(r)
  /\ gone' = gone \cup (Present(db) \ Present(View(r)))
  /\ retired' = retired \cup (SessionsOf(db) \ SessionsOf(View(r)))
  /\ delivered' = delivered \cup Response(r)
  /\ Release(r)

\* Lost connection, expired busy_timeout, crash of the server.
DbError(r) ==
  /\ tx[r].pc # "idle"
  /\ Rollback(r)

\* PostgreSQL rolls back a member of a cycle of waiting transactions.
Deadlocked(r) ==
  \E C \in SUBSET Requests : r \in C /\ \A c \in C : Blockers(c) \cap C # {}

DeadlockVictim(r) ==
  /\ Deadlocked(r)
  /\ Rollback(r)

-----------------------------------------------------------------------------
(* Arrival: authentication and the first reads of each operation *)

Begin(r, op, t) ==
  /\ op \in Ops
  /\ tx[r].pc = "idle"
  /\ tx' = [tx EXCEPT ![r] = t]
  /\ UNCHANGED <<db, work, owner, gone, retired, delivered>>

\* A uuid4 no session has used (an uncommitted one that was rolled back is
\* unknown to everyone, so its name may return).
FreshSids == (Sids \ retired) \ (SessionsOf(db) \cup {tx[q].sid : q \in Requests})

\* login: the password matched the row that was read.
Login(r) ==
  \E u \in Present(db), s \in FreshSids :
    Begin(r, "login", [Idle EXCEPT !.pc = "store", !.op = "login", !.self = u, !.target = u,
                                   !.sid = s, !.snap = db[u]])

\* refresh: the row whose refresh token hash was sent, not yet expired.
Refresh(r) ==
  \E d \in delivered, s \in FreshSids :
    \E u \in Present(db) :
      /\ db[u].session = d.sid
      /\ Begin(r, "refresh", [Idle EXCEPT !.pc = "store", !.op = "refresh", !.self = u,
                                          !.target = u, !.sid = s, !.snap = db[u]])
    
\* get_current_user: users whose access token is that of their session.
Authenticated ==
  {u \in Present(db) : [user |-> u, sid |-> db[u].session] \in delivered}

Logout(r) ==
  \E u \in Authenticated :
    Begin(r, "logout", [Idle EXCEPT !.pc = "clear", !.op = "logout", !.self = u,
                                    !.target = u, !.snap = db[u]])
  
\* require_admin
AdminCallers == Authenticated \cap Admins(db)

FreshUsers == (Users \ gone) \ (Present(db) \cup {tx[q].target : q \in Requests})

AddUser(r) ==
  \E a \in AdminCallers, u \in FreshUsers, p \in Payloads :
    /\ None \notin {p.email, p.pw, p.role}
    /\ Begin(r, "add", [Idle EXCEPT !.pc = "unique", !.op = "add", !.self = a, !.target = u,
                                    !.email = p.email, !.pw = p.pw, !.role = p.role])
  
DeleteUser(r) ==
  \E a \in AdminCallers, u \in Users :
    Begin(r, "delete", [Idle EXCEPT !.pc = "find", !.op = "delete", !.self = a,
                                    !.target = u, !.snap = db[a]])
  
UpdateUser(r) ==
  \E a \in AdminCallers, u \in Users, p \in Payloads :
    Begin(r, "update", [Idle EXCEPT !.pc = "find", !.op = "update", !.self = a, !.target = u,
                                    !.email = p.email, !.pw = p.pw, !.role = p.role,
                                    !.snap = db[a]])
  
-----------------------------------------------------------------------------
(* Statements *)

\* The statement at pc has its locks.
At(r, pc) == tx[r].pc = pc /\ Blockers(r) = {}

Go(r, pc) == tx' = [tx EXCEPT ![r].pc = pc]

Shared == <<db, gone, retired, delivered>>

\* ensure_exists: a target already loaded by the authentication keeps the
\* attributes it was loaded with.
Find(r) ==
  /\ At(r, "find")
  /\ IF db[tx[r].target] = None
     THEN Rollback(r)
     ELSE LET snap == IF tx[r].target = tx[r].self THEN tx[r].snap ELSE db[tx[r].target]
              counts == snap.role = "admin" /\ (tx[r].op = "delete" \/ tx[r].role = "user")
          IN /\ tx' = [tx EXCEPT ![r].snap = snap,
                                 ![r].pc = IF counts THEN "count"
                                           ELSE IF tx[r].op = "delete" THEN "log" ELSE "unique"]
             /\ UNCHANGED <<work, owner, Shared>>

NoAdmin(t) == Cardinality(Admins(t)) < 1   \* fault: off by one

LastAdmin(t) == Cardinality(Admins(t)) <= 1

\* count_admins, when an administrator is deleted or demoted.
Count(r) ==
  /\ At(r, "count")
  /\ IF LastAdmin(View(r))
     THEN Rollback(r)
     ELSE /\ Go(r, IF tx[r].op = "delete" THEN "log" ELSE "unique")
          /\ UNCHANGED <<work, owner, Shared>>

\* get_by_email before the write; update_user asks only for a new email.
Unique(r) ==
  /\ At(r, "unique")
  /\ IF (tx[r].op = "add" \/ Given(tx[r]).email) /\ EmailTaken(r, tx[r].target, tx[r].email)
     THEN Rollback(r)
     ELSE /\ Go(r, IF tx[r].op = "add" THEN "default" ELSE "update")
          /\ UNCHANGED <<work, owner, Shared>>

DefaultAnyRole(r) ==   \* fault: the role is not checked
  /\ At(r, "default")
  /\ Go(r, "insert")
  /\ UNCHANGED <<work, owner, Shared>>

\* While the default user exists, only an administrator can be added.
Default(r) ==
  /\ At(r, "default")
  /\ LET found == {d \in Present(View(r)) : View(r)[d].email = DefaultEmail}
     IN \/ /\ found # {} /\ tx[r].role # "admin"
           /\ Rollback(r)
        \/ /\ found # {} /\ tx[r].role = "admin"
           /\ \E d \in found :
                tx' = [tx EXCEPT ![r].old = d, ![r].snap = View(r)[d], ![r].pc = "insert"]
           /\ UNCHANGED <<work, owner, Shared>>
        \/ /\ found = {}
           /\ Go(r, "insert")
           /\ UNCHANGED <<work, owner, Shared>>

Insert(r) ==
  /\ At(r, "insert")
  /\ IF EmailTaken(r, tx[r].target, tx[r].email)
     THEN Rollback(r)
     ELSE /\ Write(r, tx[r].target, [email |-> tx[r].email, pw |-> tx[r].pw,
                                     role |-> tx[r].role, session |-> None])
          /\ Go(r, "log")
          /\ UNCHANGED Shared

\* A change of password or role closes the session as well.
AfterUpdateUnlogged(t) ==   \* fault: a change of email leaves no log entry
  IF t.pw # None \/ t.role # None THEN "clear" ELSE "commit"

AfterUpdate(t) == IF t.pw # None \/ t.role # None THEN "clear" ELSE "log"

\* repo.update_user: flush, then refresh of the identity map.  An UPDATE or
\* a refresh that finds no row fails.
Update(r) ==
  /\ At(r, "update")
  /\ LET u == tx[r].target
         row == View(r)[u]
     IN \/ /\ row = None \/ (Given(tx[r]).email /\ EmailTaken(r, u, tx[r].email))
           /\ Rollback(r)
        \/ /\ row # None
           /\ Given(tx[r]).email => ~ EmailTaken(r, u, tx[r].email)
           /\ IF Changes(tx[r])
              THEN Write(r, u, Patched(row, tx[r]))
              ELSE UNCHANGED <<work, owner>>
           /\ tx' = [tx EXCEPT ![r].snap = Refreshed(row, tx[r]),
                                  ![r].pc = AfterUpdate(tx[r])]
           /\ UNCHANGED Shared

\* clear_auth_session: nothing is written when the snapshot has no session.
Clear(r) ==
  /\ At(r, "clear")
  /\ LET u == tx[r].target
         row == View(r)[u]
     IN IF row = None
        THEN Rollback(r)
        ELSE /\ IF tx[r].snap.session # None
                THEN Write(r, u, [row EXCEPT !.session = None])
                ELSE UNCHANGED <<work, owner>>
             /\ Go(r, IF tx[r].op = "logout" THEN "commit" ELSE "log")
             /\ UNCHANGED Shared

\* set_auth_session, which fails when the row is gone.
Store(r) ==
  /\ At(r, "store")
  /\ LET u == tx[r].target
         row == View(r)[u]
     IN IF row = None
        THEN Rollback(r)
        ELSE /\ Write(r, u, Opened(row, tx[r]))
             /\ Go(r, IF tx[r].op = "login" THEN "log" ELSE "commit")
             /\ UNCHANGED Shared

\* log_action / log_from_dto: the entry references its author.  On SQLite
\* the insert takes the write lock.
Log(r) ==
  /\ At(r, "log")
  /\ IF View(r)[tx[r].self] = None
     THEN Rollback(r)
     ELSE /\ IF Backend = "sqlite"
             THEN Write(r, tx[r].self, View(r)[tx[r].self])
             ELSE UNCHANGED <<work, owner>>
          /\ tx' = [tx EXCEPT ![r].entry = tx[r].self,
                              ![r].pc = IF tx[r].op = "delete" \/ tx[r].old # None
                                        THEN "drop" ELSE "commit"]
          /\ UNCHANGED Shared

\* delete_user: of the target, whose absence is answered 404; of the default
\* user by add_user, which ignores its absence.
Drop(r) ==
  /\ At(r, "drop")
  /\ LET u == Needs(r)
     IN \/ /\ View(r)[u] = None /\ tx[r].op = "delete"
           /\ Rollback(r)
        \/ /\ View(r)[u] # None \/ tx[r].op = "add"
           /\ Write(r, u, None)
           /\ Go(r, "commit")
           /\ UNCHANGED Shared

-----------------------------------------------------------------------------

Init ==
  /\ db \in InitialTables
  /\ work = [u \in Users |-> None]
  /\ owner = [u \in Users |-> None]
  /\ tx = [r \in Requests |-> Idle]
  /\ gone = {}
  /\ retired = {}
  /\ delivered = {[user |-> u, sid |-> db[u].session] : u \in
                    {v \in Present(db) : db[v].session # None}}

Arrive(r) ==
  \/ Login(r) \/ Refresh(r) \/ Logout(r)
  \/ AddUser(r) \/ DeleteUser(r) \/ UpdateUser(r)

Step(r) ==
  \/ Find(r) \/ Count(r) \/ Unique(r) \/ Default(r) \/ Insert(r) \/ Update(r)
  \/ Clear(r) \/ Store(r) \/ Log(r) \/ Drop(r) \/ Commit(r) \/ DeadlockVictim(r)

Next == \E r \in Requests : Arrive(r) \/ Step(r) \/ DbError(r)

Spec == Init /\ [][Next]_vars

\* Requests are coroutines of one event loop, so none is passed over for
\* ever; a lock is granted to its waiters in turn.
Fairness == \A r \in Requests : SF_vars(Step(r))

FairSpec == Spec /\ Fairness

-----------------------------------------------------------------------------
(* Properties *)

\* What an administrator decides about a user.
Rights(row) == IF row = None THEN None ELSE [email |-> row.email, pw |-> row.pw, role |-> row.role]

\* Some update that commits in this step asked for this value of this column.
Asked(u, column, value) ==
  \E r \in Requests : /\ tx[r].op = "update" /\ tx[r].target = u
                       /\ tx[r].pc = "commit" /\ tx'[r].pc = "idle"
                       /\ tx[r][column] = value

\* Every variable holds a value of the shape the code gives it.
TypeOK ==
  /\ db \in Table
  /\ work \in Table
  /\ owner \in [Users -> Requests \cup {None}]
  /\ tx \in [Requests -> Tx]
  /\ gone \subseteq Users
  /\ retired \subseteq Sids
  /\ delivered \subseteq [user : Users, sid : Sids]

\* A token pair a client holds is that of its user's session, or dead: no
\* response leaves before its session is committed, and no login, refresh or
\* update that works on a stale snapshot brings a replaced or closed session
\* back or gives it to another user.
TokenSafety ==
  /\ \A d \in delivered :
       \/ d.sid \in retired
       \/ db[d.user] # None /\ db[d.user].session = d.sid
  /\ retired \cap SessionsOf(db) = {}

\* The sessions live and die as SessionLife promises (set_auth_session,
\* clear_auth_session and the deletions, under every interleaving).
Sessions == INSTANCE SessionLife
  WITH live <- [u \in Users |-> IF db[u] = None THEN None ELSE db[u].session]

SessionsRefined == Sessions!Spec

\* The transaction that changes a password or a role also closes the session
\* of that user: no session opened while it ran survives its commit.
RightsChangeRevokes ==
  [][\A u \in Users :
       (/\ db[u] # None /\ db'[u] # None
        /\ db[u].pw # db'[u].pw \/ db[u].role # db'[u].role)
       => db'[u].session = None]_vars

\* A commit changes the email, password or role of an existing user only to
\* what an update of that very user asked for: nothing a concurrent request
\* committed is reverted by a write from a stale snapshot.
NoCollateralChange ==
  [][\A u \in Users :
       (db[u] # None /\ db'[u] # None) =>
         /\ db'[u].email # db[u].email => Asked(u, "email", db'[u].email)
         /\ db'[u].pw # db[u].pw => Asked(u, "pw", db'[u].pw)
         /\ db'[u].role # db[u].role => Asked(u, "role", db'[u].role)]_vars

\* There is always an administrator (CannotRemoveLastAdminError and
\* CannotDemoteLastAdminError): true as long as requests do not overlap.
AdminRemains == Admins(db) # {}

\* Users appear, change and disappear only in a commit that also holds a log
\* entry about it, whose author still existed when it was written.
Audited ==
  [][\A u \in Users :
       Rights(db[u]) # Rights(db'[u]) =>
         \E r \in Requests : tx[r].pc = "commit" /\ tx'[r].pc = "idle" /\ tx[r].entry # None]_vars

\* While the default user exists there is no other: the first user added
\* must be an administrator, and the transaction that adds it removes the
\* default user, however many such requests race.
DefaultStandsAlone ==
  \A d \in Present(db) : db[d].email = DefaultEmail => Present(db) = {d}

\* Every request is answered: waiting for locks, deadlocks included, ends.
Answered == \A r \in Requests : (tx[r].pc # "idle") ~> (tx[r].pc = "idle")
=============================================================================
