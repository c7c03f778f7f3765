--------------------------- MODULE AccountsProofs ---------------------------
(***************************************************************************)
(* Proofs about Accounts for any users, sessions and number of concurrent  *)
(* requests, on either backend.  Four parts, each with its invariant: the  *)
(* sessions (TokenSafety), the columns (RightsChangeRevokes,               *)
(* NoCollateralChange, Audited, and with the sessions that Accounts        *)
(* implements SessionLife), the default user (DefaultStandsAlone), and the *)
(* last administrator (AdminRemains, while removals do not overlap).       *)
(***************************************************************************)
EXTENDS Accounts, FiniteSetTheorems, TLAPS

\* What each field of a request holds at each of its steps.
TxShape(t) ==
  /\ t.pc = "idle" => t = Idle
  /\ t.pc # "idle" => t.self \in Users /\ t.target \in Users
  /\ t.pc = "store" => t.op \in {"login", "refresh"}
  /\ t.op \in {"login", "refresh"} =>
       t.sid \in Sids /\ t.pc \in {"store", "log", "commit"} /\ t.old = None
  /\ t.sid # None => t.op \in {"login", "refresh"}
  /\ t.op = "add" => t.email # None /\ t.pw # None /\ t.role # None
  /\ t.pc \in {"default", "insert"} => t.op = "add"
  /\ t.op = "add" /\ t.pc = "drop" => t.old # None

TypeInv == TypeOK /\ \A r \in Requests : TxShape(tx[r])

-----------------------------------------------------------------------------

\* An idle slot is a request of the right shape.
LEMMA IdleType == Idle \in Tx /\ TxShape(Idle)
<1>1. Idle \in Tx
  BY DEF Idle, Tx, Steps
<1>2. Idle.pc = "idle" /\ Idle.op \notin Operations /\ Idle.sid = None
  BY NoneAssumption DEF Idle
<1>3. QED
  BY <1>1, <1>2 DEF TxShape, Operations

\* What a request sees is a table.
LEMMA ViewTable ==
  ASSUME db \in Table, work \in Table, NEW r
  PROVE  View(r) \in Table
BY DEF View, Table

\* A write leaves well-typed locks and uncommitted rows.
LEMMA WriteType ==
  ASSUME TypeOK, NEW r \in Requests, NEW u, NEW row \in Row \cup {None}, Write(r, u, row)
  PROVE  work' \in Table /\ owner' \in [Users -> Requests \cup {None}]
<1>1. View(r) \in Table
  BY ViewTable DEF TypeOK
<1>2. QED
  BY <1>1 DEF Write, TypeOK, Table

\* A release leaves well-typed locks and the other requests as they were.
LEMMA ReleaseType ==
  ASSUME TypeInv, NEW r \in Requests, Release(r)
  PROVE  /\ work' \in Table
         /\ owner' \in [Users -> Requests \cup {None}]
         /\ tx' \in [Requests -> Tx]
         /\ \A q \in Requests : TxShape(tx'[q])
BY IdleType DEF Release, TypeInv, TypeOK, Table

\* A rollback keeps the type invariant.
LEMMA RollbackType ==
  ASSUME TypeInv, NEW r \in Requests, Rollback(r)
  PROVE  TypeInv'
BY ReleaseType DEF Rollback, TypeInv, TypeOK, TxShape

\* Moving one request on keeps the type invariant of the others.
LEMMA StepType ==
  ASSUME TypeInv, NEW r \in Requests, NEW t \in Tx, TxShape(t),
         tx' = [tx EXCEPT ![r] = t]
  PROVE  tx' \in [Requests -> Tx] /\ \A q \in Requests : TxShape(tx'[q])
BY DEF TypeInv, TypeOK

\* The fields a statement of a running request may change.
Advance(t, p, s, o, h) ==
  [pc |-> p, op |-> t.op, self |-> t.self, target |-> t.target, old |-> o,
   email |-> t.email, pw |-> t.pw, role |-> t.role, sid |-> t.sid, snap |-> s,
   entry |-> h]

\* A request is the record of its fields.
LEMMA RecordOfTx ==
  ASSUME NEW t \in Tx
  PROVE  t = Advance(t, t.pc, t.snap, t.old, t.entry)
BY DEF Tx, Advance

\* The combinations of fields that statements assign: the snapshot,
LEMMA AdvanceSnap ==
  ASSUME NEW t \in Tx, NEW p, NEW s
  PROVE  [t EXCEPT !.snap = s, !.pc = p] = Advance(t, p, s, t.old, t.entry)
<1> DEFINE t0 == Advance(t, t.pc, t.snap, t.old, t.entry)
           t1 == Advance(t, t.pc, s, t.old, t.entry)
<1>1. t = t0
  BY RecordOfTx
<1>2. [t0 EXCEPT !.snap = s] = t1 /\ [t1 EXCEPT !.pc = p] = Advance(t, p, s, t.old, t.entry)
  BY DEF Advance
<1>3. QED
  <2> HIDE DEF t0, t1
  <2> QED
    BY <1>1, <1>2

\* the default user and its snapshot,
LEMMA AdvanceOld ==
  ASSUME NEW t \in Tx, NEW p, NEW s, NEW o
  PROVE  [t EXCEPT !.old = o, !.snap = s, !.pc = p] = Advance(t, p, s, o, t.entry)
<1> DEFINE t0 == Advance(t, t.pc, t.snap, t.old, t.entry)
           t1 == Advance(t, t.pc, t.snap, o, t.entry)
           t2 == Advance(t, t.pc, s, o, t.entry)
<1>1. t = t0
  BY RecordOfTx
<1>2. /\ [t0 EXCEPT !.old = o] = t1 /\ [t1 EXCEPT !.snap = s] = t2
      /\ [t2 EXCEPT !.pc = p] = Advance(t, p, s, o, t.entry)
  BY DEF Advance
<1>3. QED
  <2> HIDE DEF t0, t1, t2
  <2> QED
    BY <1>1, <1>2

\* the log entry.
LEMMA AdvanceEntry ==
  ASSUME NEW t \in Tx, NEW p, NEW h
  PROVE  [t EXCEPT !.entry = h, !.pc = p] = Advance(t, p, t.snap, t.old, h)
<1> DEFINE t0 == Advance(t, t.pc, t.snap, t.old, t.entry)
           t1 == Advance(t, t.pc, t.snap, t.old, h)
<1>1. t = t0
  BY RecordOfTx
<1>2. [t0 EXCEPT !.entry = h] = t1 /\ [t1 EXCEPT !.pc = p] = Advance(t, p, t.snap, t.old, h)
  BY DEF Advance
<1>3. QED
  <2> HIDE DEF t0, t1
  <2> QED
    BY <1>1, <1>2

\* A statement of r moves r on: its operation, target, email and session stay,
\* the other requests are not touched.
Moved(r) ==
  /\ tx' \in [Requests -> Tx]
  /\ \A q \in Requests :
       /\ TxShape(tx'[q])
       /\ tx'[q].op = tx[q].op /\ tx'[q].target = tx[q].target /\ tx'[q].sid = tx[q].sid
       /\ tx'[q].email = tx[q].email
       /\ q # r => tx'[q] = tx[q]

\* A statement that stores a new session writes it to the target; any other
\* write leaves the session of a row as the request saw it, or removes it.
Wrote(r) ==
  \/ tx[r].pc # "store" /\ UNCHANGED <<work, owner>>
  \/ \E u \in Users, x \in Row \cup {None} :
       /\ Write(r, u, x)
       /\ \A v \in Locked(u) : owner[v] \in {None, r}
       /\ \/ /\ tx[r].pc = "store" /\ u = tx[r].target
             /\ x # None /\ x.session = tx[r].sid
          \/ /\ tx[r].pc # "store"
             /\ \/ x = None
                \/ x.session = None
                \/ View(r)[u] # None /\ x.session = View(r)[u].session
             /\ tx[r].op \in {"login", "refresh"} => x = View(r)[u]

\* A statement leaves the request well-typed when its next step suits it.
LEMMA AdvanceType ==
  ASSUME TypeInv, NEW r \in Requests, tx[r].pc # "idle",
         NEW p \in Steps \ {"idle", "store"}, NEW s \in Row \cup {None},
         NEW o \in Users \cup {None}, NEW h \in Users \cup {None},
         tx[r].op \in {"login", "refresh"} => p \in {"log", "commit"} /\ o = None,
         p \in {"default", "insert"} => tx[r].op = "add",
         (p = "drop" /\ tx[r].op = "add") => o # None,
         tx' = [tx EXCEPT ![r] = Advance(tx[r], p, s, o, h)]
  PROVE  Moved(r)
<1> DEFINE t == Advance(tx[r], p, s, o, h)
<1>0. tx[r] \in Tx /\ TxShape(tx[r])
  BY DEF TypeInv, TypeOK
<1>1. t \in Tx
  BY <1>0 DEF Tx, Advance
<1>2. /\ t.pc = p /\ t.op = tx[r].op /\ t.self = tx[r].self /\ t.target = tx[r].target
      /\ t.email = tx[r].email /\ t.pw = tx[r].pw /\ t.role = tx[r].role
      /\ t.sid = tx[r].sid /\ t.old = o
  BY <1>0 DEF Tx, Advance
<1>3. TxShape(t)
  BY <1>0, <1>2 DEF TxShape
<1>4. tx' \in [Requests -> Tx] /\ \A q \in Requests : TxShape(tx'[q])
  BY <1>1, <1>3, StepType
<1>5. \A q \in Requests : tx'[q] = IF q = r THEN t ELSE tx[q]
  BY DEF TypeInv, TypeOK
<1>6. QED
  <2> HIDE DEF t
  <2> QED
    BY <1>2, <1>4, <1>5 DEF Moved

\* The same for a statement that changes nothing but the step.
LEMMA GoType ==
  ASSUME TypeInv, NEW r \in Requests, tx[r].pc # "idle",
         NEW p \in Steps \ {"idle", "store"}, Go(r, p),
         tx[r].op \in {"login", "refresh"} => p \in {"log", "commit"},
         p \in {"default", "insert"} => tx[r].op = "add",
         (p = "drop" /\ tx[r].op = "add") => tx[r].old # None
  PROVE  Moved(r)
<1>0. tx[r] \in Tx /\ TxShape(tx[r])
  BY DEF TypeInv, TypeOK
<1>1. /\ tx[r].snap \in Row \cup {None} /\ tx[r].old \in Users \cup {None}
      /\ tx[r].entry \in Users \cup {None}
  BY <1>0 DEF Tx
<1>2. tx' = [tx EXCEPT ![r] = Advance(tx[r], p, tx[r].snap, tx[r].old, tx[r].entry)]
  <2>1. [tx[r] EXCEPT !.pc = p] =
          Advance(tx[r], p, tx[r].snap, tx[r].old, tx[r].entry)
    BY <1>0 DEF Advance, Tx
  <2>2. QED
    BY <2>1 DEF Go
<1>3. tx[r].op \in {"login", "refresh"} => tx[r].old = None
  BY <1>0 DEF TxShape
<1>4. QED
  BY <1>1, <1>2, <1>3, AdvanceType

\* A statement that writes at most one row keeps the other variables typed.
LEMMA SharedType ==
  ASSUME TypeInv, NEW r \in Requests, UNCHANGED Shared, Moved(r), Wrote(r)
  PROVE  TypeInv'
<1>1. work' \in Table /\ owner' \in [Users -> Requests \cup {None}]
  BY WriteType DEF Wrote, TypeInv, TypeOK
<1>2. QED
  BY <1>1 DEF Moved, Shared, TypeInv, TypeOK

\* A request arrives well-typed.
LEMMA ArriveType ==
  ASSUME TypeInv, NEW r \in Requests, Arrive(r)
  PROVE  TypeInv'
<1>1. ASSUME NEW op, NEW t \in Tx, TxShape(t), Begin(r, op, t)
      PROVE  TypeInv'
  BY <1>1, StepType DEF Begin, TypeInv, TypeOK
<1>2. \A u \in Present(db) : u \in Users /\ db[u] \in Row
  BY DEF Present, TypeInv, TypeOK, Table
<1>3. AdminCallers \subseteq Present(db) /\ Authenticated \subseteq Present(db)
  BY DEF AdminCallers, Authenticated
<1>4. FreshSids \subseteq Sids \ {None}
  BY NoneAssumption DEF FreshSids
<1>5. ASSUME NEW op \in {"login", "refresh"}, NEW u \in Present(db), NEW s \in FreshSids
      PROVE  LET t == [Idle EXCEPT !.pc = "store", !.op = op, !.self = u, !.target = u,
                                   !.sid = s, !.snap = db[u]]
             IN t \in Tx /\ TxShape(t)
  <2> DEFINE t == [Idle EXCEPT !.pc = "store", !.op = op, !.self = u, !.target = u,
                               !.sid = s, !.snap = db[u]]
  <2>1. t \in Tx
    BY <1>2, <1>4, <1>5 DEF Idle, Tx, Steps, Operations
  <2>2. /\ t.pc = "store" /\ t.op = op /\ t.self = u /\ t.target = u
        /\ t.sid = s /\ t.old = None
    BY DEF Idle
  <2>3. QED
    BY <1>2, <1>4, <1>5, <2>1, <2>2 DEF TxShape
<1>6. CASE Login(r)
  BY <1>1, <1>5, <1>6 DEF Login
<1>7. CASE Refresh(r)
  BY <1>1, <1>5, <1>7 DEF Refresh
<1>8. CASE Logout(r)
  <2>1. PICK u \in Authenticated :
          Begin(r, "logout", [Idle EXCEPT !.pc = "clear", !.op = "logout", !.self = u,
                                          !.target = u, !.snap = db[u]])
    BY <1>8 DEF Logout
  <2> DEFINE t == [Idle EXCEPT !.pc = "clear", !.op = "logout", !.self = u,
                               !.target = u, !.snap = db[u]]
  <2>2. t \in Tx
    BY <1>2, <1>3 DEF Idle, Tx, Steps, Operations
  <2>3. t.pc = "clear" /\ t.op = "logout" /\ t.self = u /\ t.target = u /\ t.sid = None
    BY DEF Idle
  <2>4. TxShape(t)
    BY <1>2, <1>3, <2>3 DEF TxShape
  <2>5. QED
    BY <1>1, <2>1, <2>2, <2>4
<1>9. CASE AddUser(r)
  <2>1. PICK a \in AdminCallers, u \in FreshUsers, p \in Payloads :
          /\ None \notin {p.email, p.pw, p.role}
          /\ Begin(r, "add", [Idle EXCEPT !.pc = "unique", !.op = "add", !.self = a,
                                 !.target = u, !.email = p.email, !.pw = p.pw, !.role = p.role])
    BY <1>9 DEF AddUser
  <2> DEFINE t == [Idle EXCEPT !.pc = "unique", !.op = "add", !.self = a, !.target = u,
                               !.email = p.email, !.pw = p.pw, !.role = p.role]
  <2>2. a \in Users /\ u \in Users /\ p \in Payload
    BY <1>2, <1>3, PayloadAssumption DEF FreshUsers
  <2>3. t \in Tx
    BY <2>2 DEF Idle, Tx, Steps, Operations, Payload
  <2>4. /\ t.pc = "unique" /\ t.op = "add" /\ t.self = a /\ t.target = u /\ t.sid = None
        /\ t.email = p.email /\ t.pw = p.pw /\ t.role = p.role
    BY DEF Idle
  <2>5. TxShape(t)
    BY <2>1, <2>2, <2>4 DEF TxShape
  <2>6. QED
    BY <1>1, <2>1, <2>3, <2>5
<1>10. CASE DeleteUser(r)
  <2>1. PICK a \in AdminCallers, u \in Users :
          Begin(r, "delete", [Idle EXCEPT !.pc = "find", !.op = "delete", !.self = a,
                                          !.target = u, !.snap = db[a]])
    BY <1>10 DEF DeleteUser
  <2> DEFINE t == [Idle EXCEPT !.pc = "find", !.op = "delete", !.self = a,
                               !.target = u, !.snap = db[a]]
  <2>2. t \in Tx
    BY <1>2, <1>3 DEF Idle, Tx, Steps, Operations
  <2>3. t.pc = "find" /\ t.op = "delete" /\ t.self = a /\ t.target = u /\ t.sid = None
    BY DEF Idle
  <2>4. TxShape(t)
    BY <1>2, <1>3, <2>3 DEF TxShape
  <2>5. QED
    BY <1>1, <2>1, <2>2, <2>4
<1>11. CASE UpdateUser(r)
  <2>1. PICK a \in AdminCallers, u \in Users, p \in Payloads :
          Begin(r, "update", [Idle EXCEPT !.pc = "find", !.op = "update", !.self = a,
                                !.target = u, !.email = p.email, !.pw = p.pw,
                                !.role = p.role, !.snap = db[a]])
    BY <1>11 DEF UpdateUser
  <2> DEFINE t == [Idle EXCEPT !.pc = "find", !.op = "update", !.self = a, !.target = u,
                               !.email = p.email, !.pw = p.pw, !.role = p.role,
                               !.snap = db[a]]
  <2>2. a \in Users /\ db[a] \in Row /\ p \in Payload
    BY <1>2, <1>3, PayloadAssumption
  <2>3. t \in Tx
    BY <2>2 DEF Idle, Tx, Steps, Operations, Payload
  <2>4. t.pc = "find" /\ t.op = "update" /\ t.self = a /\ t.target = u /\ t.sid = None
    BY DEF Idle
  <2>5. TxShape(t)
    BY <2>2, <2>4 DEF TxShape
  <2>6. QED
    BY <1>1, <2>1, <2>3, <2>5
<1>12. QED
  BY <1>6, <1>7, <1>8, <1>9, <1>10, <1>11, Arrive(r) DEF Arrive

\* A user's new row is a row: the given fields have values.
LEMMA PatchedType ==
  ASSUME NEW t \in Tx, NEW x \in Row
  PROVE  Patched(x, t) \in Row
<1>1. /\ Given(t).email => t.email \in Emails
      /\ Given(t).pw => t.pw \in Passwords
      /\ Given(t).role => t.role \in Roles
  BY DEF Given, Tx
<1>2. QED
  BY <1>1 DEF Patched, Row

\* A statement that runs has the locks of the row it writes.
LEMMA LockFree ==
  ASSUME NEW r, NEW u \in Users, NEW pc, At(r, pc), Needs(r) = u,
         pc # "log" \/ Backend = "sqlite"
  PROVE  \A v \in Locked(u) : owner[v] \in {None, r}
<1>1. Blockers(r) = {} /\ u # None /\ tx[r].pc = pc
  BY NoneAssumption DEF At
<1>2. {owner[v] : v \in Locked(u)} \ {r, None} = {}
  BY <1>1, BackendAssumption DEF Blockers
<1>3. QED
  BY <1>2

\* Every statement has one of three forms.
LEMMA StatementForm ==
  ASSUME TypeInv, NEW r \in Requests, Step(r)
  PROVE  Rollback(r) \/ Commit(r) \/ (Moved(r) /\ Wrote(r) /\ UNCHANGED Shared)
<1>1. tx[r] \in Tx /\ TxShape(tx[r]) /\ View(r) \in Table /\ db \in Table
  BY ViewTable DEF TypeInv, TypeOK
<1>2. /\ tx[r].snap \in Row \cup {None} /\ tx[r].old \in Users \cup {None}
      /\ tx[r].entry \in Users \cup {None}
      /\ tx[r].self \in Users \cup {None} /\ tx[r].target \in Users \cup {None}
      /\ tx[r].pc \in Steps /\ tx[r].sid \in Sids \cup {None}
  BY <1>1 DEF Tx
<1>3. CASE Find(r)
  <2>1. tx[r].pc = "find" /\ tx[r].op \notin {"login", "refresh"}
    BY <1>1, <1>3 DEF Find, At, TxShape
  <2>3. CASE ~ Rollback(r)
    <3>1. PICK p \in {"count", "log", "unique"}, s \in Row \cup {None} :
            tx' = [tx EXCEPT ![r].snap = s, ![r].pc = p]
      BY <1>1, <1>2, <1>3, <2>1, <2>3 DEF Find, TxShape, Table
    <3>2. [tx[r] EXCEPT !.snap = s, !.pc = p] =
            Advance(tx[r], p, s, tx[r].old, tx[r].entry)
      BY <1>1, AdvanceSnap
    <3>3. tx' = [tx EXCEPT ![r] = Advance(tx[r], p, s, tx[r].old, tx[r].entry)]
      BY <3>1, <3>2
    <3>4. Moved(r)
      BY <1>2, <2>1, <3>3, AdvanceType DEF Steps
    <3>5. UNCHANGED <<work, owner, Shared>>
      BY <1>3, <2>3 DEF Find
    <3>6. QED
      BY <2>1, <3>4, <3>5 DEF Wrote
  <2>4. QED
    BY <2>3
<1>4. CASE Count(r) \/ Unique(r)
  <2>1. tx[r].pc \in {"count", "unique"} /\ tx[r].op \notin {"login", "refresh"}
    BY <1>1, <1>4 DEF Count, Unique, At, TxShape
  <2>3. CASE ~ Rollback(r)
    <3>1. /\ UNCHANGED <<work, owner, Shared>>
          /\ \/ \E p \in {"log", "unique", "update"} : Go(r, p)
             \/ tx[r].op = "add" /\ Go(r, "default")
      BY <1>4, <2>3 DEF Count, Unique
    <3>2. Moved(r)
      BY <2>1, <3>1, GoType DEF Steps
    <3>3. QED
      BY <2>1, <3>1, <3>2 DEF Wrote
  <2>4. QED
    BY <2>3
<1>5. CASE Default(r)
  <2>1. tx[r].pc = "default" /\ tx[r].op = "add"
    BY <1>1, <1>5 DEF Default, At, TxShape
  <2>3. CASE ~ Rollback(r) /\ Go(r, "insert")
    <3>1. UNCHANGED <<work, owner, Shared>>
      BY <1>5, <2>3 DEF Default
    <3>2. Moved(r)
      BY <2>1, <2>3, GoType DEF Steps
    <3>3. QED
      BY <2>1, <3>1, <3>2 DEF Wrote
  <2>4. CASE ~ Rollback(r) /\ ~ Go(r, "insert")
    <3>1. PICK d \in Present(View(r)) :
            tx' = [tx EXCEPT ![r].old = d, ![r].snap = View(r)[d], ![r].pc = "insert"]
      BY <1>5, <2>4 DEF Default
    <3>2. d \in Users /\ View(r)[d] \in Row
      BY <1>1, <3>1 DEF Present, Table
    <3>3. [tx[r] EXCEPT !.old = d, !.snap = View(r)[d], !.pc = "insert"] =
            Advance(tx[r], "insert", View(r)[d], d, tx[r].entry)
      BY <1>1, AdvanceOld
    <3>4. tx' = [tx EXCEPT ![r] =
                   Advance(tx[r], "insert", View(r)[d], d, tx[r].entry)]
      BY <3>1, <3>3
    <3>5. Moved(r)
      BY <1>2, <2>1, <3>2, <3>4, AdvanceType DEF Steps
    <3>6. UNCHANGED <<work, owner, Shared>>
      BY <1>5, <2>4 DEF Default
    <3>7. QED
      BY <2>1, <3>5, <3>6 DEF Wrote
  <2>5. QED
    BY <2>3, <2>4
<1>6. CASE Insert(r)
  <2>1. tx[r].pc = "insert" /\ tx[r].op = "add" /\ tx[r].target \in Users
    BY <1>1, <1>6 DEF Insert, At, TxShape
  <2>2. \A v \in Locked(tx[r].target) : owner[v] \in {None, r}
    BY <1>6, <2>1, LockFree DEF Insert, Needs
  <2>3. CASE ~ Rollback(r)
    <3> DEFINE x == [email |-> tx[r].email, pw |-> tx[r].pw, role |-> tx[r].role,
                     session |-> None]
    <3>1. Write(r, tx[r].target, x) /\ Go(r, "log") /\ UNCHANGED Shared
      BY <1>6, <2>3 DEF Insert
    <3>2. x \in Row
      BY <1>1, <2>1 DEF TxShape, Tx, Row
    <3>3. Moved(r)
      BY <2>1, <3>1, GoType DEF Steps
    <3>4. QED
      BY <2>1, <2>2, <3>1, <3>2, <3>3 DEF Wrote
  <2>4. QED
    BY <2>3
<1>7. CASE Update(r)
  <2>1. tx[r].pc = "update" /\ tx[r].op \notin {"login", "refresh"} /\ tx[r].target \in Users
    BY <1>1, <1>7 DEF Update, At, TxShape
  <2>3. CASE ~ Rollback(r)
    <3> DEFINE u == tx[r].target
               x == View(r)[u]
    <3>1. /\ x # None
          /\ IF Changes(tx[r]) THEN Write(r, u, Patched(x, tx[r])) ELSE UNCHANGED <<work, owner>>
          /\ tx' = [tx EXCEPT ![r].snap = Refreshed(x, tx[r]), ![r].pc = AfterUpdate(tx[r])]
          /\ UNCHANGED Shared
      BY <1>7, <2>3 DEF Update
    <3>2. Patched(x, tx[r]) \in Row
      BY <1>1, <2>1, <3>1, PatchedType DEF Table
    <3> DEFINE s == Refreshed(x, tx[r])
               p == AfterUpdate(tx[r])
    <3>3. s \in Row /\ p \in {"clear", "log"}
      BY <3>2 DEF Refreshed, AfterUpdate
    <3>4. [tx[r] EXCEPT !.snap = s, !.pc = p] =
            Advance(tx[r], p, s, tx[r].old, tx[r].entry)
      <4> HIDE DEF s, p
      <4> QED
        BY <1>1, AdvanceSnap
    <3>5. tx' = [tx EXCEPT ![r] = Advance(tx[r], p, s, tx[r].old, tx[r].entry)]
      BY <3>1, <3>4
    <3>6. Moved(r)
      BY <1>2, <2>1, <3>3, <3>5, AdvanceType DEF Steps
    <3>7. CASE Changes(tx[r])
      <4>1. Needs(r) = u
        BY <2>1, <3>7 DEF Needs
      <4>2. \A v \in Locked(u) : owner[v] \in {None, r}
        BY <1>7, <2>1, <4>1, LockFree DEF Update
      <4>3. Patched(x, tx[r]).session = x.session
        BY <1>1, <2>1, <3>1 DEF Patched, Row, Table
      <4>4. Write(r, u, Patched(x, tx[r]))
        BY <3>1, <3>7
      <4>5. Wrote(r)
        BY <2>1, <3>1, <3>2, <4>2, <4>3, <4>4 DEF Wrote
      <4>6. QED
        BY <3>1, <3>6, <4>5
    <3>8. CASE ~ Changes(tx[r])
      BY <2>1, <3>1, <3>6, <3>8 DEF Wrote
    <3>9. QED
      BY <3>7, <3>8
  <2>4. QED
    BY <2>3
<1>8. CASE Clear(r)
  <2>1. tx[r].pc = "clear" /\ tx[r].op \notin {"login", "refresh"} /\ tx[r].target \in Users
    BY <1>1, <1>8 DEF Clear, At, TxShape
  <2>3. CASE ~ Rollback(r)
    <3> DEFINE u == tx[r].target
               x == [View(r)[u] EXCEPT !.session = None]
    <3>1. /\ View(r)[u] # None
          /\ \/ tx[r].snap.session # None /\ Write(r, u, x)
             \/ UNCHANGED <<work, owner>>
          /\ Go(r, "commit") \/ Go(r, "log")
          /\ UNCHANGED Shared
      BY <1>8, <2>3 DEF Clear
    <3>2. x \in Row
      BY <1>1, <2>1, <3>1 DEF Table, Row
    <3>3. Moved(r)
      BY <2>1, <3>1, GoType DEF Steps
    <3>4. CASE tx[r].snap.session # None /\ Write(r, u, x)
      <4>1. Needs(r) = u
        BY <2>1, <3>4 DEF Needs
      <4>2. \A v \in Locked(u) : owner[v] \in {None, r}
        BY <1>8, <2>1, <4>1, LockFree DEF Clear
      <4>3. x # None /\ x.session = None
        BY <1>1, <2>1, <3>1, <3>2, NoneAssumption DEF Row, Table
      <4>4. QED
        BY <2>1, <3>1, <3>2, <3>3, <3>4, <4>2, <4>3 DEF Wrote
    <3>5. CASE UNCHANGED <<work, owner>>
      BY <2>1, <3>1, <3>3, <3>5 DEF Wrote
    <3>6. QED
      BY <3>1, <3>4, <3>5
  <2>4. QED
    BY <2>3
<1>9. CASE Store(r)
  <2>1. tx[r].pc = "store" /\ tx[r].op \in {"login", "refresh"} /\ tx[r].target \in Users
    BY <1>1, <1>9 DEF Store, At, TxShape
  <2>3. CASE ~ Rollback(r)
    <3> DEFINE u == tx[r].target
               x == Opened(View(r)[u], tx[r])
    <3>1. /\ View(r)[u] # None
          /\ Write(r, u, x)
          /\ Go(r, "commit") \/ Go(r, "log")
          /\ UNCHANGED Shared
      BY <1>9, <2>3 DEF Store
    <3>2. x \in Row
      BY <1>1, <1>2, <2>1, <3>1 DEF Table, Row, Opened
    <3>3. Moved(r)
      BY <2>1, <3>1, GoType DEF Steps
    <3>4. x # None /\ x.session = tx[r].sid
      BY <1>1, <2>1, <3>1, <3>2, NoneAssumption DEF Row, Table, Opened
    <3>5. Needs(r) = u
      BY <2>1 DEF Needs
    <3>6. \A v \in Locked(u) : owner[v] \in {None, r}
      BY <1>9, <2>1, <3>5, LockFree DEF Store
    <3>7. QED
      BY <2>1, <3>1, <3>2, <3>3, <3>4, <3>6 DEF Wrote
  <2>4. QED
    BY <2>3
<1>10. CASE Log(r)
  <2>1. tx[r].pc = "log" /\ tx[r].self \in Users
    BY <1>1, <1>10 DEF Log, At, TxShape
  <2>3. CASE ~ Rollback(r)
    <3> DEFINE p == IF tx[r].op = "delete" \/ tx[r].old # None THEN "drop" ELSE "commit"
               h == tx[r].self
    <3>1. /\ View(r)[h] # None
          /\ \/ Backend = "sqlite" /\ Write(r, h, View(r)[h])
             \/ UNCHANGED <<work, owner>>
          /\ tx' = [tx EXCEPT ![r].entry = h, ![r].pc = p]
          /\ UNCHANGED Shared
      BY <1>10, <2>3 DEF Log
    <3>2. p \in {"drop", "commit"} /\ (p = "drop" /\ tx[r].op = "add" => tx[r].old # None)
      OBVIOUS
    <3>3. tx[r].op \in {"login", "refresh"} => p = "commit" /\ tx[r].old = None
      BY <1>1 DEF TxShape
    <3>4. [tx[r] EXCEPT !.entry = h, !.pc = p] =
            Advance(tx[r], p, tx[r].snap, tx[r].old, h)
      <4> HIDE DEF p, h
      <4> QED
        BY <1>1, AdvanceEntry
    <3>5. tx' = [tx EXCEPT ![r] = Advance(tx[r], p, tx[r].snap, tx[r].old, h)]
      BY <3>1, <3>4
    <3>6. Moved(r)
      <4> HIDE DEF p, h
      <4>1. h \in Users \cup {None} /\ p \in Steps \ {"idle", "store"}
        BY <2>1, <3>2 DEF h, Steps
      <4>2. QED
        BY <1>2, <2>1, <3>2, <3>3, <3>5, <4>1, AdvanceType
    <3>7. View(r)[h] \in Row \cup {None}
      BY <1>1, <2>1 DEF Table
    <3>8. CASE Backend = "sqlite" /\ Write(r, h, View(r)[h])
      <4>1. Needs(r) = h
        BY <2>1 DEF Needs
      <4>2. \A v \in Locked(h) : owner[v] \in {None, r}
        BY <1>10, <2>1, <3>8, <4>1, LockFree DEF Log
      <4>3. Wrote(r)
        <5> HIDE DEF p, h
        <5>1. h \in Users
          BY <2>1 DEF h
        <5>2. QED
          BY <2>1, <3>1, <3>7, <3>8, <4>2, <5>1 DEF Wrote
      <4>4. QED
        BY <3>1, <3>6, <4>3
    <3>9. CASE UNCHANGED <<work, owner>>
      BY <2>1, <3>1, <3>6, <3>9 DEF Wrote
    <3>10. QED
      BY <3>1, <3>8, <3>9
  <2>4. QED
    BY <2>3
<1>11. CASE Drop(r)
  <2>1. tx[r].pc = "drop" /\ tx[r].op \notin {"login", "refresh"}
    BY <1>1, <1>11 DEF Drop, At, TxShape
  <2>2. Needs(r) \in Users
    BY <1>1, <1>2, <2>1 DEF Needs, TxShape
  <2>3. \A v \in Locked(Needs(r)) : owner[v] \in {None, r}
    BY <1>11, <2>1, <2>2, LockFree DEF Drop
  <2>4. CASE ~ Rollback(r)
    <3>1. Write(r, Needs(r), None) /\ Go(r, "commit") /\ UNCHANGED Shared
      BY <1>11, <2>4 DEF Drop
    <3>2. Moved(r)
      BY <2>1, <3>1, GoType DEF Steps
    <3>3. QED
      BY <2>1, <2>2, <2>3, <3>1, <3>2 DEF Wrote
  <2>5. QED
    BY <2>4
<1>12. CASE Commit(r)
  BY <1>12
<1>13. CASE DeadlockVictim(r)
  BY <1>13 DEF DeadlockVictim
<1>14. QED
  BY <1>3, <1>4, <1>5, <1>6, <1>7, <1>8, <1>9, <1>10, <1>11, <1>12, <1>13, Step(r) DEF Step

\* So every step of a request keeps the type invariant.
LEMMA CommitType ==
  ASSUME TypeInv, NEW r \in Requests, Commit(r)
  PROVE  TypeInv'
<1>1. tx[r] \in Tx /\ TxShape(tx[r]) /\ View(r) \in Table /\ db \in Table
  BY ViewTable DEF TypeInv, TypeOK
<1>2. SessionsOf(db) \subseteq Sids /\ Present(db) \subseteq Users
  BY <1>1 DEF SessionsOf, Present, Table, Row
<1>3. tx[r].op \in {"login", "refresh"} => tx[r].target \in Users /\ tx[r].sid \in Sids
  BY <1>1 DEF TxShape
<1>4. Response(r) \subseteq [user : Users, sid : Sids]
  BY <1>3 DEF Response
<1>5. QED
  BY <1>1, <1>2, <1>4, ReleaseType DEF Commit, TypeInv, TypeOK

LEMMA StepKeepsType ==
  ASSUME TypeInv, NEW r \in Requests, Step(r)
  PROVE  TypeInv'
BY StatementForm, SharedType, CommitType, RollbackType

LEMMA InitType ==
  ASSUME Init
  PROVE  TypeInv
<1>1. db \in Table
  BY TableAssumption DEF Init
<1>2. delivered \subseteq [user : Users, sid : Sids]
  BY <1>1 DEF Init, Present, Table, Row
<1>3. QED
  BY <1>1, <1>2, IdleType DEF Init, TypeInv, TypeOK, Table

\* TypeInv is inductive.
LEMMA NextType ==
  ASSUME TypeInv, [Next]_vars
  PROVE  TypeInv'
<1>1. CASE UNCHANGED vars
  BY <1>1 DEF vars, TypeInv, TypeOK, TxShape
<1>2. CASE Next
  <2>1. PICK r \in Requests : Arrive(r) \/ Step(r) \/ DbError(r)
    BY <1>2 DEF Next
  <2>2. QED
    BY <2>1, ArriveType, StepKeepsType, RollbackType DEF DbError
<1>3. QED
  BY <1>1, <1>2

-----------------------------------------------------------------------------
(* TokenSafety *)

\* The session a request is opening is unknown to every table and request.
FreshInv ==
  \A r \in Requests : tx[r].sid # None =>
    /\ tx[r].sid \notin retired
    /\ \A u \in Users : db[u] # None => db[u].session # tx[r].sid
    /\ \A q \in Requests : tx[q].sid = tx[r].sid => q = r

\* Two users never share a session.
OneOwnerInv ==
  \A u, v \in Users :
    (db[u] # None /\ db[v] # None /\ db[u].session = db[v].session /\ db[u].session # None)
      => u = v

\* An uncommitted row keeps the committed session of its user, has none, or
\* has the one its request is opening for that user.
WorkInv ==
  \A r \in Requests, u \in Users : (owner[u] = r /\ work[u] # None) =>
    \/ work[u].session = None
    \/ db[u] # None /\ work[u].session = db[u].session
    \/ u = tx[r].target /\ tx[r].sid # None /\ work[u].session = tx[r].sid

\* Past "store", a login or refresh holds its user's row with the new session.
PendingInv ==
  \A r \in Requests : (tx[r].op \in {"login", "refresh"} /\ tx[r].pc # "store") =>
    LET u == tx[r].target
    IN owner[u] = r /\ work[u] # None /\ work[u].session = tx[r].sid

SessionInv == FreshInv /\ OneOwnerInv /\ WorkInv /\ PendingInv /\ TokenSafety

LEMMA InitSession ==
  ASSUME Init
  PROVE  SessionInv
<1>1. db \in Table /\ WellFormed(db)
  BY TableAssumption DEF Init
<1>2. FreshInv
  BY NoneAssumption DEF Init, FreshInv, Idle
<1>3. OneOwnerInv
  BY <1>1 DEF OneOwnerInv, WellFormed
<1>4. WorkInv
  BY DEF Init, WorkInv
<1>5. PendingInv
  BY NoneAssumption DEF Init, PendingInv, Idle, Operations
<1>6. TokenSafety
  BY <1>1 DEF Init, TokenSafety, Present
<1>7. QED
  BY <1>2, <1>3, <1>4, <1>5, <1>6 DEF SessionInv

\* A slot that takes up a request opens a session nobody knows, or none.
LEMMA BeginSession ==
  ASSUME TypeInv, SessionInv, NEW r \in Requests, NEW op, NEW t, Begin(r, op, t),
         \/ t.sid = None /\ t.op \notin {"login", "refresh"}
         \/ t.sid \in FreshSids /\ t.pc = "store"
  PROVE  SessionInv'
<1>1. UNCHANGED <<db, work, owner, gone, retired, delivered>>
  BY DEF Begin
<1>2. tx[r].sid = None /\ tx[r].op = None
  <2>1. tx[r] = Idle
    BY DEF Begin, TypeInv, TxShape
  <2>2. QED
    BY <2>1 DEF Idle
<1>3. \A q \in Requests : tx'[q] = IF q = r THEN t ELSE tx[q]
  BY DEF Begin, TypeInv, TypeOK
<1>4. t.sid \in FreshSids =>
        /\ t.sid \notin retired
        /\ \A u \in Users : db[u] # None => db[u].session # t.sid
        /\ \A q \in Requests : tx[q].sid # t.sid
  <2>1. SUFFICES ASSUME t.sid \in FreshSids
                 PROVE  /\ t.sid \notin retired
                        /\ \A u \in Users : db[u] # None => db[u].session # t.sid
                        /\ \A q \in Requests : tx[q].sid # t.sid
    OBVIOUS
  <2>2. t.sid # None /\ t.sid \notin SessionsOf(db)
    BY <2>1, NoneAssumption DEF FreshSids
  <2>3. QED
    BY <2>1, <2>2 DEF FreshSids, SessionsOf, Present
<1>5. FreshInv'
  BY <1>1, <1>3, <1>4 DEF FreshInv, SessionInv
<1>6. OneOwnerInv'
  BY <1>1 DEF OneOwnerInv, SessionInv
<1>7. WorkInv'
  BY <1>1, <1>2, <1>3 DEF WorkInv, SessionInv
<1>8. PendingInv'
  BY <1>1, <1>3 DEF PendingInv, SessionInv
<1>9. TokenSafety'
  BY <1>1 DEF TokenSafety, SessionsOf, Present, SessionInv
<1>10. QED
  BY <1>5, <1>6, <1>7, <1>8, <1>9 DEF SessionInv

\* A request that arrives keeps the sessions apart.
LEMMA ArriveSession ==
  ASSUME TypeInv, SessionInv, NEW r \in Requests, Arrive(r)
  PROVE  SessionInv'
<1>1. CASE Login(r)
  <2>1. PICK u \in Present(db), s \in FreshSids :
          Begin(r, "login", [Idle EXCEPT !.pc = "store", !.op = "login", !.self = u,
                                         !.target = u, !.sid = s, !.snap = db[u]])
    BY <1>1 DEF Login
  <2> DEFINE t == [Idle EXCEPT !.pc = "store", !.op = "login", !.self = u,
                               !.target = u, !.sid = s, !.snap = db[u]]
  <2>2. t.pc = "store" /\ t.sid = s
    BY DEF Idle
  <2>3. QED
    BY <2>1, <2>2, BeginSession
<1>2. CASE Refresh(r)
  <2>1. PICK d \in delivered, s \in FreshSids, u \in Present(db) :
          Begin(r, "refresh", [Idle EXCEPT !.pc = "store", !.op = "refresh", !.self = u,
                                           !.target = u, !.sid = s, !.snap = db[u]])
    BY <1>2 DEF Refresh
  <2> DEFINE t == [Idle EXCEPT !.pc = "store", !.op = "refresh", !.self = u,
                               !.target = u, !.sid = s, !.snap = db[u]]
  <2>2. t.pc = "store" /\ t.sid = s
    BY DEF Idle
  <2>3. QED
    BY <2>1, <2>2, BeginSession
<1>3. CASE Logout(r)
  <2>1. PICK u \in Authenticated :
          Begin(r, "logout", [Idle EXCEPT !.pc = "clear", !.op = "logout", !.self = u,
                                          !.target = u, !.snap = db[u]])
    BY <1>3 DEF Logout
  <2> DEFINE t == [Idle EXCEPT !.pc = "clear", !.op = "logout", !.self = u,
                               !.target = u, !.snap = db[u]]
  <2>2. t.op = "logout" /\ t.sid = None
    BY DEF Idle
  <2>3. QED
    BY <2>1, <2>2, BeginSession
<1>4. CASE AddUser(r)
  <2>1. PICK a \in AdminCallers, u \in FreshUsers, p \in Payloads :
          Begin(r, "add", [Idle EXCEPT !.pc = "unique", !.op = "add", !.self = a,
                                 !.target = u, !.email = p.email, !.pw = p.pw, !.role = p.role])
    BY <1>4 DEF AddUser
  <2> DEFINE t == [Idle EXCEPT !.pc = "unique", !.op = "add", !.self = a, !.target = u,
                               !.email = p.email, !.pw = p.pw, !.role = p.role]
  <2>2. t.op = "add" /\ t.sid = None
    BY DEF Idle
  <2>3. QED
    BY <2>1, <2>2, BeginSession
<1>5. CASE DeleteUser(r)
  <2>1. PICK a \in AdminCallers, u \in Users :
          Begin(r, "delete", [Idle EXCEPT !.pc = "find", !.op = "delete", !.self = a,
                                          !.target = u, !.snap = db[a]])
    BY <1>5 DEF DeleteUser
  <2> DEFINE t == [Idle EXCEPT !.pc = "find", !.op = "delete", !.self = a,
                               !.target = u, !.snap = db[a]]
  <2>2. t.op = "delete" /\ t.sid = None
    BY DEF Idle
  <2>3. QED
    BY <2>1, <2>2, BeginSession
<1>6. CASE UpdateUser(r)
  <2>1. PICK a \in AdminCallers, u \in Users, p \in Payloads :
          Begin(r, "update", [Idle EXCEPT !.pc = "find", !.op = "update", !.self = a,
                                 !.target = u, !.email = p.email, !.pw = p.pw,
                                 !.role = p.role, !.snap = db[a]])
    BY <1>6 DEF UpdateUser
  <2> DEFINE t == [Idle EXCEPT !.pc = "find", !.op = "update", !.self = a, !.target = u,
                               !.email = p.email, !.pw = p.pw, !.role = p.role,
                               !.snap = db[a]]
  <2>2. t.op = "update" /\ t.sid = None
    BY DEF Idle
  <2>3. QED
    BY <2>1, <2>2, BeginSession
<1>7. QED
  BY <1>1, <1>2, <1>3, <1>4, <1>5, <1>6, Arrive(r) DEF Arrive

\* What a request leaves behind when it ends.
LEMMA ReleaseEffect ==
  ASSUME TypeInv, NEW r \in Requests, Release(r)
  PROVE  /\ \A q \in Requests : tx'[q] = IF q = r THEN Idle ELSE tx[q]
         /\ \A u \in Users : owner'[u] = IF owner[u] = r THEN None ELSE owner[u]
         /\ \A u \in Users : owner[u] # r => work'[u] = work[u]
BY DEF Release, TypeInv, TypeOK

LEMMA RollbackSession ==
  ASSUME TypeInv, SessionInv, NEW r \in Requests, Rollback(r)
  PROVE  SessionInv'
<1>1. /\ \A q \in Requests : tx'[q] = IF q = r THEN Idle ELSE tx[q]
      /\ \A u \in Users : owner'[u] = IF owner[u] = r THEN None ELSE owner[u]
      /\ \A u \in Users : owner[u] # r => work'[u] = work[u]
  BY ReleaseEffect DEF Rollback
<1>2. Idle.sid = None /\ Idle.op \notin {"login", "refresh"} /\ None \notin Requests
  BY NoneAssumption DEF Idle, Operations
<1>3. UNCHANGED <<db, gone, retired, delivered>>
  BY DEF Rollback
<1>4. FreshInv'
  BY <1>1, <1>2, <1>3 DEF FreshInv, SessionInv
<1>5. OneOwnerInv'
  BY <1>3 DEF OneOwnerInv, SessionInv
<1>6. WorkInv'
  BY <1>1, <1>2, <1>3 DEF WorkInv, SessionInv
<1>7. PendingInv'
  <2>1. SUFFICES ASSUME NEW q \in Requests, tx'[q].op \in {"login", "refresh"},
                        tx'[q].pc # "store"
                 PROVE  LET u == tx'[q].target
                        IN owner'[u] = q /\ work'[u] # None /\ work'[u].session = tx'[q].sid
    BY DEF PendingInv
  <2>2. q # r /\ tx'[q] = tx[q]
    BY <1>1, <1>2, <2>1
  <2>3. tx[q].target \in Users
    BY <2>1, <2>2 DEF TypeInv, TxShape
  <2>4. owner[tx[q].target] = q /\ work[tx[q].target] # None
        /\ work[tx[q].target].session = tx[q].sid
    BY <2>1, <2>2 DEF PendingInv, SessionInv
  <2>5. QED
    BY <1>1, <2>2, <2>3, <2>4
<1>8. TokenSafety'
  BY <1>3 DEF TokenSafety, SessionsOf, Present, SessionInv
<1>9. QED
  BY <1>4, <1>5, <1>6, <1>7, <1>8 DEF SessionInv

\* A statement keeps the sessions of the rows it locks or writes apart.
LEMMA StatementSession ==
  ASSUME TypeInv, SessionInv, NEW r \in Requests, Moved(r), Wrote(r), UNCHANGED Shared
  PROVE  SessionInv'
<1>1. UNCHANGED <<db, gone, retired, delivered>>
  BY DEF Shared
<1>2. \A q \in Requests : /\ tx'[q].op = tx[q].op /\ tx'[q].target = tx[q].target
                          /\ tx'[q].sid = tx[q].sid
                          /\ q # r => tx'[q].pc = tx[q].pc
  BY DEF Moved
<1>3. FreshInv' /\ OneOwnerInv' /\ TokenSafety'
  BY <1>1, <1>2 DEF FreshInv, OneOwnerInv, TokenSafety, SessionsOf, Present, SessionInv
<1>4. WorkInv' /\ PendingInv'
  <2>1. CASE tx[r].pc # "store" /\ UNCHANGED <<work, owner>>
    BY <1>1, <1>2, <2>1 DEF WorkInv, PendingInv, SessionInv
  <2>2. CASE ~ (tx[r].pc # "store" /\ UNCHANGED <<work, owner>>)
    <3>1. PICK u \in Users, x \in Row \cup {None} :
            /\ Write(r, u, x)
            /\ \A v \in Locked(u) : owner[v] \in {None, r}
            /\ \/ /\ tx[r].pc = "store" /\ u = tx[r].target
                  /\ x # None /\ x.session = tx[r].sid
               \/ /\ tx[r].pc # "store"
                  /\ \/ x = None
                     \/ x.session = None
                     \/ View(r)[u] # None /\ x.session = View(r)[u].session
                  /\ tx[r].op \in {"login", "refresh"} => x = View(r)[u]
      BY <2>2 DEF Wrote
    <3>2. u \in Locked(u) /\ Locked(u) \subseteq Users
      BY DEF Locked
    <3>3. \A v \in Users :
            /\ owner'[v] = IF v \in Locked(u) THEN r ELSE owner[v]
            /\ work'[v] = IF v = u THEN x
                          ELSE IF v \in Locked(u) THEN View(r)[v] ELSE work[v]
      BY <3>1 DEF Write
    <3>4. \A v \in Users : View(r)[v] = IF owner[v] = r THEN work[v] ELSE db[v]
      BY DEF View
    <3>5. \A v \in Users : View(r)[v] # None =>
            \/ View(r)[v].session = None
            \/ db[v] # None /\ View(r)[v].session = db[v].session
            \/ v = tx[r].target /\ tx[r].sid # None /\ View(r)[v].session = tx[r].sid
      BY <3>4 DEF WorkInv, SessionInv
    <3>6. tx[r].pc = "store" => tx[r].sid # None
      BY NoneAssumption DEF TypeInv, TxShape
    <3>7. x # None =>
            \/ x.session = None
            \/ db[u] # None /\ x.session = db[u].session
            \/ u = tx[r].target /\ tx[r].sid # None /\ x.session = tx[r].sid
      BY <3>1, <3>5, <3>6
    <3>8. WorkInv'
      <4>1. SUFFICES ASSUME NEW q \in Requests, NEW v \in Users, owner'[v] = q, work'[v] # None
                     PROVE  \/ work'[v].session = None
                            \/ db[v] # None /\ work'[v].session = db[v].session
                            \/ /\ v = tx[q].target /\ tx[q].sid # None
                               /\ work'[v].session = tx[q].sid
        BY <1>1, <1>2 DEF WorkInv
      <4>2. CASE v = u
        BY <3>2, <3>3, <3>7, <4>1, <4>2
      <4>3. CASE v # u /\ v \in Locked(u)
        BY <3>3, <3>5, <4>1, <4>3
      <4>4. CASE v \notin Locked(u)
        BY <3>2, <3>3, <4>1, <4>4 DEF WorkInv, SessionInv
      <4>5. QED
        BY <4>2, <4>3, <4>4
    <3>9. PendingInv'
      <4>1. SUFFICES ASSUME NEW q \in Requests, tx[q].op \in {"login", "refresh"},
                            tx'[q].pc # "store"
                     PROVE  LET v == tx[q].target
                            IN owner'[v] = q /\ work'[v] # None /\ work'[v].session = tx[q].sid
        BY <1>2 DEF PendingInv
      <4>2. tx[q].target \in Users
        BY <4>1, NoneAssumption DEF TypeInv, TxShape
      <4>3. CASE q = r /\ tx[r].pc = "store"
        BY <3>1, <3>2, <3>3, <4>2, <4>3
      <4>4. CASE q = r /\ tx[r].pc # "store"
        <5> DEFINE v == tx[r].target
        <5>1. owner[v] = r /\ work[v] # None /\ work[v].session = tx[r].sid
          BY <4>1, <4>4 DEF PendingInv, SessionInv
        <5>2. View(r)[v] = work[v]
          BY <3>4, <4>2, <4>4, <5>1
        <5>3. work'[v] = work[v] /\ owner'[v] = r
          BY <3>1, <3>3, <4>1, <4>2, <4>4, <5>1, <5>2
        <5>4. QED
          BY <4>4, <5>1, <5>3
      <4>5. CASE q # r
        <5> DEFINE v == tx[q].target
        <5>1. owner[v] = q /\ work[v] # None /\ work[v].session = tx[q].sid
          BY <1>2, <4>1, <4>5 DEF PendingInv, SessionInv
        <5>2. v \notin Locked(u)
          BY <3>1, <4>5, <5>1, NoneAssumption
        <5>3. QED
          BY <3>2, <3>3, <4>2, <5>1, <5>2
      <4>6. QED
        BY <4>3, <4>4, <4>5
    <3>10. QED
      BY <3>8, <3>9
  <2>3. QED
    BY <2>1, <2>2 DEF Wrote
<1>5. QED
  BY <1>3, <1>4 DEF SessionInv

\* A commit retires exactly the sessions it takes out of the table.
LEMMA CommitSession ==
  ASSUME TypeInv, SessionInv, NEW r \in Requests, Commit(r)
  PROVE  SessionInv'
<1>1. /\ \A q \in Requests : tx'[q] = IF q = r THEN Idle ELSE tx[q]
      /\ \A u \in Users : owner'[u] = IF owner[u] = r THEN None ELSE owner[u]
      /\ \A u \in Users : owner[u] # r => work'[u] = work[u]
  BY ReleaseEffect DEF Commit
<1>2. Idle.sid = None /\ Idle.op \notin {"login", "refresh"} /\ None \notin Requests
  BY NoneAssumption DEF Idle, Operations
<1>3. \A u \in Users : db'[u] = IF owner[u] = r THEN work[u] ELSE db[u]
  BY DEF Commit, View
<1>4. \A u \in Users : db'[u] # None =>
        \/ db'[u].session = None
        \/ db[u] # None /\ db'[u].session = db[u].session
        \/ u = tx[r].target /\ tx[r].sid # None /\ db'[u].session = tx[r].sid
  BY <1>3 DEF WorkInv, SessionInv
<1>5. \A s : s \in SessionsOf(db) <=> s # None /\ \E u \in Users : db[u] # None /\ db[u].session = s
  BY DEF SessionsOf, Present
<1>6. \A s : s \in SessionsOf(db)' <=> s # None /\ \E u \in Users : db'[u] # None /\ db'[u].session = s
  BY DEF SessionsOf, Present
<1>7. retired' = retired \cup (SessionsOf(db) \ SessionsOf(db)')
  BY DEF Commit, SessionsOf, Present
<1>8. FreshInv'
  <2>1. SUFFICES ASSUME NEW q \in Requests, q # r, tx[q].sid # None
                 PROVE  /\ tx[q].sid \notin retired'
                        /\ \A u \in Users : db'[u] # None => db'[u].session # tx[q].sid
                        /\ \A p \in Requests : tx'[p].sid = tx[q].sid => p = q
    BY <1>1, <1>2 DEF FreshInv
  <2>2. /\ tx[q].sid \notin retired
        /\ \A u \in Users : db[u] # None => db[u].session # tx[q].sid
        /\ \A p \in Requests : tx[p].sid = tx[q].sid => p = q
    BY <2>1 DEF FreshInv, SessionInv
  <2>3. QED
    BY <1>1, <1>2, <1>4, <1>5, <1>7, <2>1, <2>2
<1>9. tx[r].sid # None =>
        tx[r].sid \notin retired /\ \A u \in Users : db[u] # None => db[u].session # tx[r].sid
  BY DEF FreshInv, SessionInv
<1>10. OneOwnerInv'
  <2>1. SUFFICES ASSUME NEW u \in Users, NEW v \in Users, db'[u] # None, db'[v] # None,
                        db'[u].session = db'[v].session, db'[u].session # None
                 PROVE  u = v
    BY DEF OneOwnerInv
  <2>2. QED
    BY <1>4, <1>9, <2>1 DEF OneOwnerInv, SessionInv
<1>11. WorkInv'
  <2>1. SUFFICES ASSUME NEW q \in Requests, NEW u \in Users, owner'[u] = q, work'[u] # None
                 PROVE  \/ work'[u].session = None
                        \/ db'[u] # None /\ work'[u].session = db'[u].session
                        \/ /\ u = tx'[q].target /\ tx'[q].sid # None
                           /\ work'[u].session = tx'[q].sid
    BY DEF WorkInv
  <2>2. q # r /\ owner[u] = q /\ work'[u] = work[u] /\ db'[u] = db[u] /\ tx'[q] = tx[q]
    BY <1>1, <1>2, <1>3, <2>1
  <2>3. QED
    BY <2>1, <2>2 DEF WorkInv, SessionInv
<1>12. PendingInv'
  <2>1. SUFFICES ASSUME NEW q \in Requests, tx'[q].op \in {"login", "refresh"},
                        tx'[q].pc # "store"
                 PROVE  LET u == tx'[q].target
                        IN owner'[u] = q /\ work'[u] # None /\ work'[u].session = tx'[q].sid
    BY DEF PendingInv
  <2>2. q # r /\ tx'[q] = tx[q]
    BY <1>1, <1>2, <2>1
  <2>3. tx[q].target \in Users
    BY <2>1, <2>2 DEF TypeInv, TxShape
  <2>4. owner[tx[q].target] = q /\ work[tx[q].target] # None
        /\ work[tx[q].target].session = tx[q].sid
    BY <2>1, <2>2 DEF PendingInv, SessionInv
  <2>5. QED
    BY <1>1, <2>2, <2>3, <2>4
<1>13. retired' \cap SessionsOf(db)' = {}
  <2>1. SUFFICES ASSUME NEW s \in retired, s \in SessionsOf(db)'
                 PROVE  FALSE
    BY <1>7
  <2>2. PICK u \in Users : db'[u] # None /\ db'[u].session = s /\ s # None
    BY <1>6, <2>1
  <2>3. s \notin SessionsOf(db)
    BY <2>1 DEF TokenSafety, SessionInv
  <2>4. QED
    BY <1>4, <1>5, <1>9, <2>1, <2>2, <2>3
<1>14. \A d \in delivered' : d.sid \in retired' \/ (db'[d.user] # None /\ db'[d.user].session = d.sid)
  <2>1. SUFFICES ASSUME NEW d \in delivered', d.sid \notin retired'
                 PROVE  db'[d.user] # None /\ db'[d.user].session = d.sid
    OBVIOUS
  <2>2. CASE d \in delivered
    <3>1. d.user \in Users /\ d.sid \in Sids /\ d.sid # None
      BY <2>2, NoneAssumption DEF TypeInv, TypeOK
    <3>2. db[d.user] # None /\ db[d.user].session = d.sid
      BY <1>7, <2>1, <2>2 DEF TokenSafety, SessionInv
    <3>3. PICK v \in Users : db'[v] # None /\ db'[v].session = d.sid
      BY <1>5, <1>6, <1>7, <2>1, <3>1, <3>2
    <3>4. v = d.user
      BY <1>4, <1>9, <3>1, <3>2, <3>3 DEF OneOwnerInv, SessionInv
    <3>5. QED
      BY <3>3, <3>4
  <2>3. CASE d \in Response(r)
    <3>1. tx[r].op \in {"login", "refresh"} /\ d = [user |-> tx[r].target, sid |-> tx[r].sid]
      BY <2>3 DEF Response
    <3>2. tx[r].pc = "commit" /\ tx[r].target \in Users
      BY <3>1 DEF Commit, TypeInv, TxShape
    <3>3. owner[tx[r].target] = r /\ work[tx[r].target] # None
          /\ work[tx[r].target].session = tx[r].sid
      BY <3>1, <3>2 DEF PendingInv, SessionInv
    <3>4. QED
      BY <1>3, <3>1, <3>2, <3>3
  <2>4. QED
    BY <2>1, <2>2, <2>3 DEF Commit
<1>15. QED
  BY <1>8, <1>10, <1>11, <1>12, <1>13, <1>14 DEF SessionInv, TokenSafety

\* The inductive invariant of the sessions.
THEOREM SessionsHold == Spec => [](TypeInv /\ SessionInv)
<1>1. Init => TypeInv /\ SessionInv
  BY InitType, InitSession
<1>2. TypeInv /\ SessionInv /\ [Next]_vars => (TypeInv /\ SessionInv)'
  <2> SUFFICES ASSUME TypeInv, SessionInv, [Next]_vars PROVE TypeInv' /\ SessionInv'
    OBVIOUS
  <2>1. CASE UNCHANGED vars
    <3>1. TypeInv'
      BY <2>1, NextType
    <3>2. SessionInv'
      BY <2>1 DEF vars, SessionInv, FreshInv, OneOwnerInv, WorkInv, PendingInv, TokenSafety,
                  SessionsOf, Present
    <3>3. QED
      BY <3>1, <3>2
  <2>2. CASE Next
    <3>1. PICK r \in Requests : Arrive(r) \/ Step(r) \/ DbError(r)
      BY <2>2 DEF Next
    <3>2. SessionInv'
      BY <3>1, ArriveSession, StatementForm, RollbackSession, CommitSession, StatementSession
         DEF DbError
    <3>3. QED
      BY <3>2, NextType
  <2>3. QED
    BY <2>1, <2>2
<1>3. QED
  BY <1>1, <1>2, PTL DEF Spec

\* TypeOK holds in every reachable state.
THEOREM TypeCorrect == Spec => []TypeOK
<1>1. TypeInv => TypeOK
  BY DEF TypeInv
<1>2. QED
  BY <1>1, SessionsHold, PTL

\* TokenSafety holds in every reachable state: whatever requests overlap, a
\* delivered token is its user's current session or dead for ever.
THEOREM TokensSafe == Spec => []TokenSafety
<1>1. SessionInv => TokenSafety
  BY DEF SessionInv
<1>2. QED
  BY <1>1, SessionsHold, PTL

-----------------------------------------------------------------------------
(* The columns of a user: rights, the log, and the abstract sessions *)

\* Where a request of each operation can be.
Flow(t) ==
  /\ t.pc = "update" => t.op = "update"
  /\ t.pc \in {"find", "count"} => t.op \in {"delete", "update"}
  /\ t.pc = "unique" => t.op \in {"add", "update"}
  /\ t.pc = "clear" => t.op \in {"update", "logout"}
  /\ t.pc = "drop" => t.op \in {"add", "delete"} /\ t.entry # None
  /\ t.op = "logout" => t.pc \in {"clear", "commit"}
  /\ t.old # None => t.op = "add"

\* The session of a row, if there is one.
Live(x) == IF x = None THEN None ELSE x.session

\* What request t may have made of row u, committed as old, in its own version
\* new.  A row is only created by add_user; a column changes only to what the
\* update of this row asked for; a change of rights closes the session, or the
\* next statement will, and a log entry is written or still to come; the
\* session changes in one row only.
Cell(t, u, old, new) ==
  /\ (old = None /\ new # None) => t.op = "add" /\ u = t.target
  /\ (old # None /\ new # None) =>
       /\ new.email # old.email => t.op = "update" /\ u = t.target /\ t.email = new.email
       /\ new.pw # old.pw => t.op = "update" /\ u = t.target /\ t.pw = new.pw
       /\ new.role # old.role => t.op = "update" /\ u = t.target /\ t.role = new.role
       /\ (new.pw # old.pw \/ new.role # old.role) =>
            new.session = None \/ (t.pc = "clear" /\ t.snap = new)
  /\ Rights(new) # Rights(old) =>
       /\ t.op \in {"add", "delete", "update"}
       /\ t.pc \in {"clear", "log"} \/ t.entry # None
  /\ Live(new) # Live(old) =>
       IF t.op = "add" THEN t.pc = "commit" /\ u = t.old ELSE u = t.target

FlowInv == \A r \in Requests : Flow(tx[r])

\* A slot without a request holds no lock.
OwnsInv == \A u \in Users, r \in Requests : owner[u] = r => tx[r].pc # "idle"

\* The id of a user who is being added is nobody else's.
AddInv ==
  \A r \in Requests : tx[r].op = "add" =>
    /\ db[tx[r].target] = None
    /\ \A q \in Requests : (tx[q].op = "add" /\ tx[q].target = tx[r].target) => q = r

CellInv == \A r \in Requests, u \in Users : Cell(tx[r], u, db[u], View(r)[u])

ColumnInv == FlowInv /\ OwnsInv /\ AddInv /\ CellInv

-----------------------------------------------------------------------------

\* A row that a request left alone.
LEMMA CellSame ==
  ASSUME NEW t, NEW u, NEW old
  PROVE  Cell(t, u, old, old)
BY DEF Cell

\* A statement other than clear_auth_session keeps what it does not write.
LEMMA CellMoves ==
  ASSUME NEW t, NEW t2, NEW u, NEW old, NEW new, Cell(t, u, old, new),
         t2.op = t.op, t2.target = t.target,
         t2.email = t.email, t2.pw = t.pw, t2.role = t.role,
         t.pc \notin {"clear", "commit"},
         t2.entry = t.entry \/ t2.entry # None,
         t.pc = "log" => t2.entry # None
  PROVE  Cell(t2, u, old, new)
BY DEF Cell

\* The version r sees after a write, and that of the others.
LEMMA WriteView ==
  ASSUME TypeInv, NEW r \in Requests, NEW u \in Users, NEW x, Write(r, u, x),
         \A v \in Locked(u) : owner[v] \in {None, r}, UNCHANGED Shared
  PROVE  /\ \A v \in Users : View(r)'[v] = IF v = u THEN x ELSE View(r)[v]
         /\ \A q \in Requests \ {r}, v \in Users : View(q)'[v] = View(q)[v]
         /\ \A v \in Users : owner'[v] \in {owner[v], r}
<1>1. u \in Locked(u) /\ Locked(u) \subseteq Users
  BY DEF Locked
<1>2. \A v \in Users :
        /\ owner'[v] = IF v \in Locked(u) THEN r ELSE owner[v]
        /\ work'[v] = IF v = u THEN x ELSE IF v \in Locked(u) THEN View(r)[v] ELSE work[v]
  BY DEF Write
<1>3. \A q \in Requests, v \in Users :
        /\ View(q)[v] = IF owner[v] = q THEN work[v] ELSE db[v]
        /\ View(q)'[v] = IF owner'[v] = q THEN work'[v] ELSE db'[v]
  BY DEF View
<1>4. db' = db
  BY DEF Shared
<1>5. \A v \in Users : View(r)'[v] = IF v = u THEN x ELSE View(r)[v]
  BY <1>1, <1>2, <1>3, <1>4
<1>6. \A q \in Requests \ {r}, v \in Users : View(q)'[v] = View(q)[v]
  BY <1>1, <1>2, <1>3, <1>4, NoneAssumption
<1>7. QED
  BY <1>2, <1>5, <1>6

\* Statements: what r leaves in each row it sees decides about the columns.
\* u is the row it writes, if any, and x its new version.
StatementCells(r, u, x) ==
  /\ Flow(tx'[r])
  /\ tx'[r].pc # "idle"
  /\ \A v \in Users \ {u} : Cell(tx'[r], v, db[v], View(r)[v])
  /\ Cell(tx'[r], u, db[u], x)

LEMMA StatementColumns ==
  ASSUME TypeInv, ColumnInv, NEW r \in Requests, NEW u \in Users, NEW x,
         Moved(r), UNCHANGED Shared, StatementCells(r, u, x),
         \/ Write(r, u, x) /\ \A v \in Locked(u) : owner[v] \in {None, r}
         \/ UNCHANGED <<work, owner>> /\ x = View(r)[u]
  PROVE  ColumnInv'
<1>1. /\ \A v \in Users : View(r)'[v] = IF v = u THEN x ELSE View(r)[v]
      /\ \A q \in Requests \ {r}, v \in Users : View(q)'[v] = View(q)[v]
      /\ \A v \in Users : owner'[v] \in {owner[v], r}
  <2>1. CASE UNCHANGED <<work, owner>> /\ x = View(r)[u]
    BY <2>1 DEF View, Shared
  <2>2. QED
    BY <2>1, WriteView
<1>2. UNCHANGED db
  BY DEF Shared
<1>3. \A q \in Requests : /\ tx'[q].op = tx[q].op /\ tx'[q].target = tx[q].target
                          /\ q # r => tx'[q] = tx[q]
  BY DEF Moved
<1>4. FlowInv'
  BY <1>3 DEF FlowInv, ColumnInv, StatementCells
<1>5. OwnsInv'
  BY <1>1, <1>3 DEF OwnsInv, ColumnInv, StatementCells
<1>6. AddInv'
  BY <1>2, <1>3 DEF AddInv, ColumnInv
<1>7. CellInv'
  <2>1. SUFFICES ASSUME NEW q \in Requests, NEW v \in Users
                 PROVE  Cell(tx'[q], v, db'[v], View(q)'[v])
    BY DEF CellInv
  <2>2. CASE q = r
    BY <1>1, <1>2, <2>2 DEF StatementCells
  <2>3. CASE q # r
    BY <1>1, <1>2, <1>3, <2>3 DEF CellInv, ColumnInv
  <2>4. QED
    BY <2>2, <2>3
<1>8. QED
  BY <1>4, <1>5, <1>6, <1>7 DEF ColumnInv

\* A slot takes up a request, which holds nothing yet.
LEMMA BeginColumns ==
  ASSUME TypeInv, ColumnInv, NEW r \in Requests, NEW op, NEW t, Begin(r, op, t),
         Flow(t), t.pc # "idle",
         t.op = "add" => t.target \in FreshUsers
  PROVE  ColumnInv'
<1>1. UNCHANGED <<db, work, owner, gone, retired, delivered>>
  BY DEF Begin
<1>2. \A q \in Requests : tx'[q] = IF q = r THEN t ELSE tx[q]
  BY DEF Begin, TypeInv, TypeOK
<1>3. \A u \in Users : owner[u] # r
  BY DEF Begin, OwnsInv, ColumnInv
<1>4. \A q \in Requests, v \in Users : View(q)'[v] = View(q)[v]
  BY <1>1 DEF View
<1>5. \A v \in Users : View(r)[v] = db[v]
  BY <1>3 DEF View
<1>6. FlowInv'
  BY <1>2 DEF FlowInv, ColumnInv
<1>7. OwnsInv'
  BY <1>1, <1>2 DEF OwnsInv, ColumnInv
<1>8. t.op = "add" => db[t.target] = None /\ \A q \in Requests : tx[q].target # t.target
  BY DEF FreshUsers, Present
<1>9. AddInv'
  BY <1>1, <1>2, <1>8 DEF AddInv, ColumnInv
<1>10. CellInv'
  BY <1>1, <1>2, <1>4, <1>5, CellSame DEF CellInv, ColumnInv
<1>11. QED
  BY <1>6, <1>7, <1>9, <1>10 DEF ColumnInv

LEMMA ArriveColumns ==
  ASSUME TypeInv, ColumnInv, NEW r \in Requests, Arrive(r)
  PROVE  ColumnInv'
<1>1. CASE Login(r)
  <2>1. PICK u \in Present(db), s \in FreshSids :
          Begin(r, "login", [Idle EXCEPT !.pc = "store", !.op = "login", !.self = u,
                                         !.target = u, !.sid = s, !.snap = db[u]])
    BY <1>1 DEF Login
  <2> DEFINE t == [Idle EXCEPT !.pc = "store", !.op = "login", !.self = u,
                               !.target = u, !.sid = s, !.snap = db[u]]
  <2>2. t.pc = "store" /\ t.op = "login" /\ t.old = None
    BY DEF Idle
  <2>3. QED
    BY <2>1, <2>2, BeginColumns DEF Flow
<1>2. CASE Refresh(r)
  <2>1. PICK d \in delivered, s \in FreshSids, u \in Present(db) :
          Begin(r, "refresh", [Idle EXCEPT !.pc = "store", !.op = "refresh", !.self = u,
                                           !.target = u, !.sid = s, !.snap = db[u]])
    BY <1>2 DEF Refresh
  <2> DEFINE t == [Idle EXCEPT !.pc = "store", !.op = "refresh", !.self = u,
                               !.target = u, !.sid = s, !.snap = db[u]]
  <2>2. t.pc = "store" /\ t.op = "refresh" /\ t.old = None
    BY DEF Idle
  <2>3. QED
    BY <2>1, <2>2, BeginColumns DEF Flow
<1>3. CASE Logout(r)
  <2>1. PICK u \in Authenticated :
          Begin(r, "logout", [Idle EXCEPT !.pc = "clear", !.op = "logout", !.self = u,
                                          !.target = u, !.snap = db[u]])
    BY <1>3 DEF Logout
  <2> DEFINE t == [Idle EXCEPT !.pc = "clear", !.op = "logout", !.self = u,
                               !.target = u, !.snap = db[u]]
  <2>2. t.pc = "clear" /\ t.op = "logout" /\ t.old = None
    BY DEF Idle
  <2>3. QED
    BY <2>1, <2>2, BeginColumns DEF Flow
<1>4. CASE AddUser(r)
  <2>1. PICK a \in AdminCallers, u \in FreshUsers, p \in Payloads :
          Begin(r, "add", [Idle EXCEPT !.pc = "unique", !.op = "add", !.self = a,
                                 !.target = u, !.email = p.email, !.pw = p.pw, !.role = p.role])
    BY <1>4 DEF AddUser
  <2> DEFINE t == [Idle EXCEPT !.pc = "unique", !.op = "add", !.self = a, !.target = u,
                               !.email = p.email, !.pw = p.pw, !.role = p.role]
  <2>2. t.pc = "unique" /\ t.op = "add" /\ t.target = u
    BY DEF Idle
  <2>3. QED
    BY <2>1, <2>2, BeginColumns DEF Flow
<1>5. CASE DeleteUser(r)
  <2>1. PICK a \in AdminCallers, u \in Users :
          Begin(r, "delete", [Idle EXCEPT !.pc = "find", !.op = "delete", !.self = a,
                                          !.target = u, !.snap = db[a]])
    BY <1>5 DEF DeleteUser
  <2> DEFINE t == [Idle EXCEPT !.pc = "find", !.op = "delete", !.self = a,
                               !.target = u, !.snap = db[a]]
  <2>2. t.pc = "find" /\ t.op = "delete" /\ t.old = None
    BY DEF Idle
  <2>3. QED
    BY <2>1, <2>2, BeginColumns DEF Flow
<1>6. CASE UpdateUser(r)
  <2>1. PICK a \in AdminCallers, u \in Users, p \in Payloads :
          Begin(r, "update", [Idle EXCEPT !.pc = "find", !.op = "update", !.self = a,
                                 !.target = u, !.email = p.email, !.pw = p.pw,
                                 !.role = p.role, !.snap = db[a]])
    BY <1>6 DEF UpdateUser
  <2> DEFINE t == [Idle EXCEPT !.pc = "find", !.op = "update", !.self = a, !.target = u,
                               !.email = p.email, !.pw = p.pw, !.role = p.role,
                               !.snap = db[a]]
  <2>2. t.pc = "find" /\ t.op = "update" /\ t.old = None
    BY DEF Idle
  <2>3. QED
    BY <2>1, <2>2, BeginColumns DEF Flow
<1>7. QED
  BY <1>1, <1>2, <1>3, <1>4, <1>5, <1>6, Arrive(r) DEF Arrive

\* A request that ends leaves nothing of its own, and to the others what they
\* hold.  The table changes only to what it saw.
LEMMA EndColumns ==
  ASSUME TypeInv, ColumnInv, NEW r \in Requests, Release(r),
         \/ UNCHANGED db
         \/ db' = View(r)
  PROVE  ColumnInv'
<1>1. /\ \A q \in Requests : tx'[q] = IF q = r THEN Idle ELSE tx[q]
      /\ \A u \in Users : owner'[u] = IF owner[u] = r THEN None ELSE owner[u]
      /\ \A u \in Users : owner[u] # r => work'[u] = work[u]
  BY ReleaseEffect
<1>2. Idle.pc = "idle" /\ Idle.op = None /\ Idle.old = None /\ None \notin Requests
  BY NoneAssumption DEF Idle
<1>3. None \notin Operations
  BY NoneAssumption
<1>4. \A u \in Users : owner[u] # r => db'[u] = db[u]
  BY DEF View
<1>5. \A u \in Users : db'[u] \in {db[u], View(r)[u]}
  OBVIOUS
<1>6. FlowInv'
  BY <1>1, <1>2, <1>3 DEF FlowInv, ColumnInv, Flow, Operations
<1>7. OwnsInv'
  BY <1>1, <1>2 DEF OwnsInv, ColumnInv
<1>8. AddInv'
  <2>1. SUFFICES ASSUME NEW q \in Requests, tx'[q].op = "add"
                 PROVE  /\ db'[tx'[q].target] = None
                        /\ \A p \in Requests :
                             (tx'[p].op = "add" /\ tx'[p].target = tx'[q].target) => p = q
    BY DEF AddInv
  <2>2. q # r /\ tx'[q] = tx[q]
    BY <1>1, <1>2, <1>3, <2>1 DEF Operations
  <2>3. /\ db[tx[q].target] = None
        /\ \A p \in Requests : (tx[p].op = "add" /\ tx[p].target = tx[q].target) => p = q
    BY <2>1, <2>2 DEF AddInv, ColumnInv
  <2>4. tx[q].target \in Users
    <3>1. tx[q].pc # "idle"
      BY <1>2, <1>3, <2>1, <2>2 DEF TypeInv, TxShape, Operations
    <3>2. QED
      BY <3>1 DEF TypeInv, TxShape
  <2>5. View(r)[tx[q].target] = None
    BY <2>1, <2>2, <2>3, <2>4 DEF CellInv, ColumnInv, Cell
  <2>6. QED
    BY <1>1, <1>2, <1>3, <1>5, <2>2, <2>3, <2>4, <2>5 DEF Operations
<1>9. CellInv'
  <2>1. SUFFICES ASSUME NEW q \in Requests, NEW v \in Users
                 PROVE  Cell(tx'[q], v, db'[v], View(q)'[v])
    BY DEF CellInv
  <2>2. View(q)'[v] = IF owner'[v] = q THEN work'[v] ELSE db'[v]
    BY DEF View
  <2>3. CASE owner'[v] = q
    <3>1. q # r /\ owner[v] = q /\ work'[v] = work[v] /\ db'[v] = db[v] /\ tx'[q] = tx[q]
      BY <1>1, <1>2, <1>4, <2>3
    <3>2. View(q)[v] = work[v]
      BY <3>1 DEF View
    <3>3. QED
      BY <2>2, <2>3, <3>1, <3>2 DEF CellInv, ColumnInv
  <2>4. QED
    BY <2>2, <2>3, CellSame
<1>10. QED
  BY <1>6, <1>7, <1>8, <1>9 DEF ColumnInv

\* The fields of a request that a statement leaves alone, and the log entry,
\* which appears with "log".
Keeps(r) ==
  /\ tx'[r].op = tx[r].op /\ tx'[r].target = tx[r].target
  /\ tx'[r].email = tx[r].email /\ tx'[r].pw = tx[r].pw /\ tx'[r].role = tx[r].role
  /\ tx'[r].entry = tx[r].entry \/ tx'[r].entry # None
  /\ tx[r].pc = "log" => tx'[r].entry # None

LEMMA GoFields ==
  ASSUME TypeInv, NEW r \in Requests, NEW p, Go(r, p)
  PROVE  /\ tx'[r].pc = p /\ tx'[r].snap = tx[r].snap /\ tx'[r].old = tx[r].old
         /\ tx'[r].entry = tx[r].entry
         /\ tx'[r].op = tx[r].op /\ tx'[r].target = tx[r].target
         /\ tx'[r].email = tx[r].email /\ tx'[r].pw = tx[r].pw /\ tx'[r].role = tx[r].role
<1>1. tx[r] \in Tx
  BY DEF TypeInv, TypeOK
<1>2. [tx[r] EXCEPT !.pc = p] = Advance(tx[r], p, tx[r].snap, tx[r].old, tx[r].entry)
  BY <1>1 DEF Advance, Tx
<1>3. tx' = [tx EXCEPT ![r] = Advance(tx[r], p, tx[r].snap, tx[r].old, tx[r].entry)]
  BY <1>2 DEF Go
<1>4. QED
  BY <1>3 DEF Advance, TypeInv, TypeOK

\* Rows that r sees as before, when it goes on.
LEMMA CellsMove ==
  ASSUME TypeInv, ColumnInv, NEW r \in Requests, Keeps(r), tx[r].pc \notin {"clear", "commit"}
  PROVE  \A v \in Users : Cell(tx'[r], v, db[v], View(r)[v])
BY CellMoves DEF Keeps, CellInv, ColumnInv

\* A statement that writes nothing, or only takes locks.
LEMMA ReadColumns ==
  ASSUME TypeInv, ColumnInv, NEW r \in Requests, Moved(r), UNCHANGED Shared,
         Keeps(r), Flow(tx'[r]), tx'[r].pc # "idle", tx[r].pc \notin {"clear", "commit"},
         NEW u \in Users,
         \/ UNCHANGED <<work, owner>>
         \/ Write(r, u, View(r)[u]) /\ \A v \in Locked(u) : owner[v] \in {None, r}
  PROVE  ColumnInv'
<1>1. StatementCells(r, u, View(r)[u])
  BY CellsMove DEF StatementCells
<1>2. QED
  BY <1>1, StatementColumns

\* Every statement keeps the columns right.
LEMMA StepColumns ==
  ASSUME TypeInv, ColumnInv, NEW r \in Requests, Step(r)
  PROVE  ColumnInv'
<1>1. /\ tx[r] \in Tx /\ TxShape(tx[r]) /\ View(r) \in Table /\ db \in Table
      /\ Flow(tx[r]) /\ \A v \in Users : Cell(tx[r], v, db[v], View(r)[v])
  BY ViewTable DEF TypeInv, TypeOK, ColumnInv, FlowInv, CellInv
<1>2. CASE Rollback(r)
  BY <1>2, EndColumns DEF Rollback
<1>3. CASE Commit(r)
  BY <1>3, EndColumns DEF Commit
<1> DEFINE Going == Moved(r) /\ UNCHANGED Shared /\ ~ Rollback(r) /\ ~ Commit(r)
           u == tx[r].target
<1>4. CASE Going /\ Find(r)
  <2>1. tx[r].pc = "find" /\ u \in Users
    BY <1>1, <1>4 DEF Find, At, TxShape
  <2>2. /\ UNCHANGED <<work, owner>>
        /\ \E s, p : /\ tx' = [tx EXCEPT ![r].snap = s, ![r].pc = p]
                     /\ p \in {"count", "log", "unique"} /\ (tx[r].op = "delete" => p # "unique")
    BY <1>4 DEF Find
  <2>3. PICK s, p : /\ tx' = [tx EXCEPT ![r].snap = s, ![r].pc = p]
                    /\ p \in {"count", "log", "unique"} /\ (tx[r].op = "delete" => p # "unique")
    BY <2>2
  <2>4. tx' = [tx EXCEPT ![r] = Advance(tx[r], p, s, tx[r].old, tx[r].entry)]
    BY <1>1, <2>3, AdvanceSnap
  <2>5. /\ tx'[r].pc = p /\ tx'[r].old = tx[r].old /\ tx'[r].entry = tx[r].entry
        /\ tx'[r].op = tx[r].op /\ tx'[r].target = tx[r].target
        /\ tx'[r].email = tx[r].email /\ tx'[r].pw = tx[r].pw /\ tx'[r].role = tx[r].role
    BY <2>4 DEF Advance, TypeInv, TypeOK
  <2>6. Flow(tx'[r]) /\ Keeps(r) /\ tx'[r].pc # "idle"
    BY <1>1, <2>1, <2>3, <2>5 DEF Flow, Keeps
  <2>7. QED
    BY <1>4, <2>1, <2>2, <2>6, ReadColumns
<1>5. CASE Going /\ Count(r)
  <2>1. tx[r].pc = "count" /\ u \in Users
    BY <1>1, <1>5 DEF Count, At, TxShape
  <2>2. UNCHANGED <<work, owner>> /\ Go(r, IF tx[r].op = "delete" THEN "log" ELSE "unique")
    BY <1>5 DEF Count
  <2>3. Flow(tx'[r]) /\ Keeps(r) /\ tx'[r].pc # "idle"
    BY <1>1, <2>1, <2>2, GoFields DEF Flow, Keeps
  <2>4. QED
    BY <1>5, <2>1, <2>2, <2>3, ReadColumns
<1>6. CASE Going /\ Unique(r)
  <2>1. tx[r].pc = "unique" /\ u \in Users
    BY <1>1, <1>6 DEF Unique, At, TxShape
  <2>2. UNCHANGED <<work, owner>> /\ Go(r, IF tx[r].op = "add" THEN "default" ELSE "update")
    BY <1>6 DEF Unique
  <2>3. Flow(tx'[r]) /\ Keeps(r) /\ tx'[r].pc # "idle"
    BY <1>1, <2>1, <2>2, GoFields DEF Flow, Keeps
  <2>4. QED
    BY <1>6, <2>1, <2>2, <2>3, ReadColumns
<1>7. CASE Going /\ Default(r)
  <2>1. tx[r].pc = "default" /\ tx[r].op = "add" /\ u \in Users
    BY <1>1, <1>7 DEF Default, At, TxShape
  <2>2. UNCHANGED <<work, owner>>
    BY <1>7 DEF Default
  <2>3. Flow(tx'[r]) /\ Keeps(r) /\ tx'[r].pc # "idle"
    <3>1. CASE Go(r, "insert")
      BY <1>1, <2>1, <3>1, GoFields DEF Flow, Keeps
    <3>2. CASE ~ Go(r, "insert")
      <4>1. PICK d : tx' = [tx EXCEPT ![r].old = d, ![r].snap = View(r)[d], ![r].pc = "insert"]
        BY <1>7, <3>2 DEF Default
      <4>2. tx' = [tx EXCEPT ![r] = Advance(tx[r], "insert", View(r)[d], d, tx[r].entry)]
        <5>1. [tx[r] EXCEPT !.old = d, !.snap = View(r)[d], !.pc = "insert"] =
                Advance(tx[r], "insert", View(r)[d], d, tx[r].entry)
          BY <1>1, AdvanceOld
        <5>2. QED
          BY <4>1, <5>1
      <4>3. /\ tx'[r].pc = "insert" /\ tx'[r].old = d /\ tx'[r].entry = tx[r].entry
            /\ tx'[r].op = tx[r].op /\ tx'[r].target = tx[r].target
            /\ tx'[r].email = tx[r].email /\ tx'[r].pw = tx[r].pw /\ tx'[r].role = tx[r].role
        BY <4>2 DEF Advance, TypeInv, TypeOK
      <4>4. QED
        BY <1>1, <2>1, <4>3 DEF Flow, Keeps
    <3>3. QED
      BY <3>1, <3>2
  <2>4. QED
    BY <1>7, <2>1, <2>2, <2>3, ReadColumns
<1>8. CASE Going /\ Insert(r)
  <2> DEFINE x == [email |-> tx[r].email, pw |-> tx[r].pw, role |-> tx[r].role,
                   session |-> None]
  <2>1. tx[r].pc = "insert" /\ tx[r].op = "add" /\ u \in Users
    BY <1>1, <1>8 DEF Insert, At, TxShape
  <2>2. Write(r, u, x) /\ Go(r, "log")
    BY <1>8 DEF Insert
  <2>3. \A v \in Locked(u) : owner[v] \in {None, r}
    BY <1>8, <2>1, LockFree DEF Insert, Needs
  <2>4. Flow(tx'[r]) /\ Keeps(r) /\ tx'[r].pc = "log" /\ tx'[r].op = "add"
        /\ tx'[r].target = u
    BY <1>1, <2>1, <2>2, GoFields DEF Flow, Keeps
  <2>5. db[u] = None
    BY <2>1 DEF AddInv, ColumnInv
  <2>6. x.session = None
    OBVIOUS
  <2>7. Cell(tx'[r], u, db[u], x)
    <3> HIDE DEF x
    <3> QED
      BY <2>4, <2>5, <2>6 DEF Cell, Live
  <2>8. StatementCells(r, u, x)
    BY <2>1, <2>4, <2>7, CellsMove DEF StatementCells
  <2>9. QED
    <3> HIDE DEF x
    <3> QED
      BY <1>8, <2>1, <2>2, <2>3, <2>8, StatementColumns
<1>9. CASE Going /\ Update(r)
  <2> DEFINE row == View(r)[u]
             x == Patched(row, tx[r])
             p == AfterUpdate(tx[r])
  <2>1. tx[r].pc = "update" /\ tx[r].op = "update" /\ u \in Users
    BY <1>1, <1>9 DEF Update, At, TxShape, Flow
  <2>2. /\ row # None
        /\ IF Changes(tx[r]) THEN Write(r, u, x) ELSE UNCHANGED <<work, owner>>
        /\ tx' = [tx EXCEPT ![r].snap = x, ![r].pc = p]
    BY <1>9 DEF Update, Refreshed
  <2>3. row \in Row /\ x \in Row
    BY <1>1, <2>1, <2>2, PatchedType DEF Table
  <2>4. Changes(tx[r]) => \A v \in Locked(u) : owner[v] \in {None, r}
    <3>1. Changes(tx[r]) => Needs(r) = u
      BY <2>1 DEF Needs
    <3>2. QED
      BY <1>9, <2>1, <3>1, LockFree DEF Update
  <2>5. tx' = [tx EXCEPT ![r] = Advance(tx[r], p, x, tx[r].old, tx[r].entry)]
    <3>1. [tx[r] EXCEPT !.snap = x, !.pc = p] =
            Advance(tx[r], p, x, tx[r].old, tx[r].entry)
      <4> HIDE DEF x, p
      <4> QED
        BY <1>1, AdvanceSnap
    <3>2. QED
      BY <2>2, <3>1
  <2>6. /\ tx'[r].pc = p /\ tx'[r].snap = x
        /\ tx'[r].old = tx[r].old /\ tx'[r].entry = tx[r].entry
        /\ tx'[r].op = tx[r].op /\ tx'[r].target = tx[r].target
        /\ tx'[r].email = tx[r].email /\ tx'[r].pw = tx[r].pw /\ tx'[r].role = tx[r].role
    <3> HIDE DEF x, p
    <3> QED
      BY <2>5 DEF Advance, TypeInv, TypeOK
  <2>7. p = (IF tx[r].pw # None \/ tx[r].role # None THEN "clear" ELSE "log")
    BY DEF AfterUpdate
  <2>8. Flow(tx'[r]) /\ Keeps(r) /\ tx'[r].pc # "idle"
    <3> HIDE DEF x, p
    <3> QED
      BY <1>1, <2>1, <2>6, <2>7 DEF Flow, Keeps
  <2>9. /\ x.email # row.email => tx[r].email = x.email
        /\ x.pw # row.pw => tx[r].pw = x.pw /\ tx[r].pw # None
        /\ x.role # row.role => tx[r].role = x.role /\ tx[r].role # None
        /\ x.session = row.session
    BY <2>3 DEF Patched, Given, Row
  <2>10. ~ Changes(tx[r]) => x = row
    BY <2>3 DEF Changes, Patched, Row
  <2>11. Cell(tx[r], u, db[u], row)
    BY <1>1, <2>1
  <2>12. Cell(tx'[r], u, db[u], x)
    <3>1. db[u] # None
      BY <2>1, <2>2, <2>11 DEF Cell
    <3>2. /\ x.email # db[u].email => tx[r].email = x.email
          /\ x.pw # db[u].pw => tx[r].pw = x.pw
          /\ x.role # db[u].role => tx[r].role = x.role
          /\ x.pw # db[u].pw \/ x.role # db[u].role => x.session = None \/ p = "clear"
      <4> HIDE DEF x, p
      <4> QED
        BY <2>1, <2>2, <2>3, <2>7, <2>9, <2>11, <3>1, NoneAssumption DEF Cell
    <3>3. QED
      <4> HIDE DEF x, p
      <4> QED
        BY <2>1, <2>6, <2>7, <3>1, <3>2 DEF Cell
  <2>13. StatementCells(r, u, x)
    BY <2>1, <2>8, <2>12, CellsMove DEF StatementCells
  <2>14. QED
    <3> HIDE DEF x
    <3> QED
      BY <1>9, <2>1, <2>2, <2>4, <2>10, <2>13, StatementColumns
<1>10. CASE Going /\ Clear(r)
  <2> DEFINE row == View(r)[u]
             x == IF tx[r].snap.session # None THEN [row EXCEPT !.session = None] ELSE row
             p == IF tx[r].op = "logout" THEN "commit" ELSE "log"
  <2>1. tx[r].pc = "clear" /\ tx[r].op \in {"update", "logout"} /\ u \in Users
    BY <1>1, <1>10 DEF Clear, At, TxShape, Flow
  <2>2. /\ row # None
        /\ IF tx[r].snap.session # None THEN Write(r, u, x) ELSE UNCHANGED <<work, owner>>
        /\ Go(r, p)
    BY <1>10 DEF Clear
  <2>3. tx[r].snap.session # None => \A v \in Locked(u) : owner[v] \in {None, r}
    <3>1. tx[r].snap.session # None => Needs(r) = u
      BY <2>1 DEF Needs
    <3>2. QED
      BY <1>10, <2>1, <3>1, LockFree DEF Clear
  <2>4. /\ x.email = row.email /\ x.pw = row.pw /\ x.role = row.role
        /\ x.session = None \/ (x = row /\ tx[r].snap.session = None)
        /\ x # None
    <3>1. row \in Row
      BY <1>1, <2>1, <2>2 DEF Table
    <3>2. QED
      BY <2>2, <3>1, NoneAssumption DEF Row
  <2>5. /\ tx'[r].pc = p /\ tx'[r].old = tx[r].old /\ tx'[r].entry = tx[r].entry
        /\ tx'[r].op = tx[r].op /\ tx'[r].target = tx[r].target
        /\ tx'[r].email = tx[r].email /\ tx'[r].pw = tx[r].pw /\ tx'[r].role = tx[r].role
    <3> HIDE DEF p
    <3> QED
      BY <2>2, GoFields
  <2>6. Flow(tx'[r]) /\ tx'[r].pc # "idle"
    BY <1>1, <2>1, <2>5 DEF Flow
  <2>7. ASSUME NEW v \in Users \ {u}
        PROVE  Cell(tx'[r], v, db[v], View(r)[v])
    <3>1. Cell(tx[r], v, db[v], View(r)[v]) /\ v # u
      BY <1>1, <2>7
    <3>2. Live(View(r)[v]) = Live(db[v])
      BY <2>1, <3>1 DEF Cell
    <3>3. QED
      BY <2>1, <2>5, <3>1, <3>2 DEF Cell
  <2>8. Cell(tx'[r], u, db[u], x)
    <3>1. Cell(tx[r], u, db[u], row) /\ db[u] # None
      BY <1>1, <2>1, <2>2 DEF Cell
    <3>2. Rights(x) = Rights(row)
      BY <2>2, <2>4 DEF Rights
    <3>3. (x.pw # db[u].pw \/ x.role # db[u].role) => x.session = None
      BY <2>2, <2>4, <3>1 DEF Cell
    <3>4. QED
      <4> HIDE DEF x
      <4> QED
        BY <2>1, <2>2, <2>4, <2>5, <3>1, <3>2, <3>3 DEF Cell
  <2>9. StatementCells(r, u, x)
    BY <2>6, <2>7, <2>8 DEF StatementCells
  <2>10. QED
    BY <1>10, <2>1, <2>2, <2>3, <2>9, StatementColumns
<1>11. CASE Going /\ Store(r)
  <2> DEFINE row == View(r)[u]
             x == Opened(row, tx[r])
             p == IF tx[r].op = "login" THEN "log" ELSE "commit"
  <2>1. tx[r].pc = "store" /\ tx[r].op \in {"login", "refresh"} /\ u \in Users
    BY <1>1, <1>11 DEF Store, At, TxShape
  <2>2. row # None /\ Write(r, u, x) /\ Go(r, p)
    BY <1>11 DEF Store
  <2>3. \A v \in Locked(u) : owner[v] \in {None, r}
    <3>1. Needs(r) = u
      BY <2>1 DEF Needs
    <3>2. QED
      BY <1>11, <2>1, <3>1, LockFree DEF Store
  <2>4. /\ x.email = row.email /\ x.pw = row.pw /\ x.role = row.role
        /\ x # None
    <3>1. row \in Row /\ tx[r].sid \in Sids
      BY <1>1, <2>1, <2>2 DEF Table, TxShape
    <3>2. QED
      BY <3>1, NoneAssumption DEF Row, Opened
  <2>5. /\ tx'[r].pc = p /\ tx'[r].old = tx[r].old /\ tx'[r].entry = tx[r].entry
        /\ tx'[r].op = tx[r].op /\ tx'[r].target = tx[r].target
        /\ tx'[r].email = tx[r].email /\ tx'[r].pw = tx[r].pw /\ tx'[r].role = tx[r].role
    <3> HIDE DEF p
    <3> QED
      BY <2>2, GoFields
  <2>6. Flow(tx'[r]) /\ Keeps(r) /\ tx'[r].pc # "idle"
    BY <1>1, <2>1, <2>5 DEF Flow, Keeps
  <2>7. Cell(tx'[r], u, db[u], x)
    <3>1. Cell(tx[r], u, db[u], row)
      BY <1>1, <2>1
    <3>2. Rights(x) = Rights(row)
      BY <2>2, <2>4 DEF Rights
    <3>3. QED
      <4> HIDE DEF x
      <4> QED
        BY <2>1, <2>2, <2>4, <2>5, <3>1, <3>2 DEF Cell
  <2>8. StatementCells(r, u, x)
    BY <2>1, <2>6, <2>7, CellsMove DEF StatementCells
  <2>9. QED
    <3> HIDE DEF x
    <3> QED
      BY <1>11, <2>1, <2>2, <2>3, <2>8, StatementColumns
<1>12. CASE Going /\ Log(r)
  <2> DEFINE p == IF tx[r].op = "delete" \/ tx[r].old # None THEN "drop" ELSE "commit"
             h == tx[r].self
  <2>1. tx[r].pc = "log" /\ h \in Users /\ h # None
    BY <1>1, <1>12, NoneAssumption DEF Log, At, TxShape
  <2>2. /\ \/ Backend = "sqlite" /\ Write(r, h, View(r)[h])
           \/ UNCHANGED <<work, owner>>
        /\ tx' = [tx EXCEPT ![r].entry = h, ![r].pc = p]
    BY <1>12 DEF Log
  <2>3. Backend = "sqlite" => \A v \in Locked(h) : owner[v] \in {None, r}
    <3>1. Needs(r) = h
      BY <2>1 DEF Needs
    <3>2. QED
      BY <1>12, <2>1, <3>1, LockFree DEF Log
  <2>4. tx' = [tx EXCEPT ![r] = Advance(tx[r], p, tx[r].snap, tx[r].old, h)]
    <3>1. [tx[r] EXCEPT !.entry = h, !.pc = p] =
            Advance(tx[r], p, tx[r].snap, tx[r].old, h)
      <4> HIDE DEF p, h
      <4> QED
        BY <1>1, AdvanceEntry
    <3>2. QED
      BY <2>2, <3>1
  <2>5. /\ tx'[r].pc = p /\ tx'[r].old = tx[r].old /\ tx'[r].entry = h
        /\ tx'[r].op = tx[r].op /\ tx'[r].target = tx[r].target
        /\ tx'[r].email = tx[r].email /\ tx'[r].pw = tx[r].pw /\ tx'[r].role = tx[r].role
    <3> HIDE DEF p, h
    <3> QED
      BY <2>4 DEF Advance, TypeInv, TypeOK
  <2>6. Flow(tx'[r]) /\ Keeps(r) /\ tx'[r].pc # "idle"
    <3> HIDE DEF h
    <3> QED
      BY <1>1, <2>1, <2>5 DEF Flow, Keeps
  <2>7. QED
    <3> HIDE DEF h
    <3> QED
      BY <1>12, <2>1, <2>2, <2>3, <2>6, ReadColumns
<1>13. CASE Going /\ Drop(r)
  <2> DEFINE w == Needs(r)
  <2>1. tx[r].pc = "drop" /\ tx[r].op \in {"add", "delete"} /\ tx[r].entry # None
    BY <1>1, <1>13 DEF Drop, At, Flow
  <2>2. w = (IF tx[r].op = "add" THEN tx[r].old ELSE u) /\ w \in Users
    BY <1>1, <2>1 DEF Needs, TxShape, Tx
  <2>3. \A v \in Locked(w) : owner[v] \in {None, r}
    BY <1>13, <2>1, <2>2, LockFree DEF Drop
  <2>4. Write(r, w, None) /\ Go(r, "commit")
    BY <1>13 DEF Drop
  <2>5. /\ tx'[r].pc = "commit" /\ tx'[r].old = tx[r].old /\ tx'[r].entry = tx[r].entry
        /\ tx'[r].op = tx[r].op /\ tx'[r].target = tx[r].target
        /\ tx'[r].email = tx[r].email /\ tx'[r].pw = tx[r].pw /\ tx'[r].role = tx[r].role
    BY <2>4, GoFields
  <2>6. Flow(tx'[r]) /\ Keeps(r) /\ tx'[r].pc # "idle"
    BY <1>1, <2>1, <2>5 DEF Flow, Keeps
  <2>7. Cell(tx'[r], w, db[w], None)
    <3> HIDE DEF w
    <3> QED
      BY <2>1, <2>2, <2>5 DEF Cell
  <2>8. StatementCells(r, w, None)
    BY <2>1, <2>6, <2>7, CellsMove DEF StatementCells
  <2>9. QED
    <3> HIDE DEF w
    <3> QED
      BY <1>13, <2>2, <2>3, <2>4, <2>8, StatementColumns
<1>14. QED
  <2>1. CASE DeadlockVictim(r)
    BY <1>2, <2>1 DEF DeadlockVictim
  <2>2. Rollback(r) \/ Commit(r) \/ Going
    BY StatementForm
  <2>3. QED
    BY <1>2, <1>3, <1>4, <1>5, <1>6, <1>7, <1>8, <1>9, <1>10, <1>11, <1>12, <1>13,
       <2>1, <2>2, Step(r) DEF Step

\* The inductive invariant of the columns.
THEOREM ColumnsHold == Spec => [](TypeInv /\ ColumnInv)
<1>1. ASSUME Init
      PROVE  TypeInv /\ ColumnInv
  <2>1. \A r \in Requests : tx[r] = Idle
    BY <1>1 DEF Init
  <2>2. \A r \in Requests, u \in Users : owner[u] # r /\ View(r)[u] = db[u]
    BY <1>1, NoneAssumption DEF Init, View
  <2>3. Idle.pc = "idle" /\ Idle.op = None /\ Idle.old = None /\ None \notin Operations
    BY NoneAssumption DEF Idle
  <2>4. FlowInv
    BY <2>1, <2>3 DEF FlowInv, Flow, Operations
  <2>5. OwnsInv /\ AddInv /\ CellInv
    BY <2>1, <2>2, <2>3, CellSame DEF OwnsInv, AddInv, CellInv, Operations
  <2>6. QED
    BY <1>1, <2>4, <2>5, InitType DEF ColumnInv
<1>2. TypeInv /\ ColumnInv /\ [Next]_vars => (TypeInv /\ ColumnInv)'
  <2> SUFFICES ASSUME TypeInv, ColumnInv, [Next]_vars PROVE TypeInv' /\ ColumnInv'
    OBVIOUS
  <2>1. CASE UNCHANGED vars
    <3>1. FlowInv' /\ OwnsInv' /\ AddInv'
      BY <2>1 DEF vars, ColumnInv, FlowInv, OwnsInv, AddInv
    <3>2. CellInv'
      BY <2>1 DEF vars, ColumnInv, CellInv, View
    <3>3. QED
      BY <3>1, <3>2, NextType DEF ColumnInv
  <2>2. CASE Next
    <3>1. PICK r \in Requests : Arrive(r) \/ Step(r) \/ DbError(r)
      BY <2>2 DEF Next
    <3>2. ColumnInv'
      BY <3>1, ArriveColumns, StepColumns, EndColumns DEF DbError, Rollback
    <3>3. QED
      BY <3>2, NextType
  <2>3. QED
    BY <2>1, <2>2
<1>3. QED
  BY <1>1, <1>2, PTL DEF Spec

\* The table changes only when a request commits, and then to what that
\* request may have made of its rows.
LEMMA TableStep ==
  ASSUME TypeInv, ColumnInv, [Next]_vars
  PROVE  \/ UNCHANGED <<db, retired>>
         \/ \E r \in Requests :
              /\ Commit(r) /\ tx[r].pc = "commit" /\ tx'[r].pc = "idle"
              /\ \A u \in Users : Cell(tx[r], u, db[u], db'[u])
<1>1. CASE UNCHANGED vars
  BY <1>1 DEF vars
<1>2. CASE Next
  <2>1. PICK r \in Requests : Arrive(r) \/ Step(r) \/ DbError(r)
    BY <1>2 DEF Next
  <2>2. CASE Arrive(r)
    BY <2>2 DEF Arrive, Login, Refresh, Logout, AddUser, DeleteUser, UpdateUser, Begin
  <2>3. CASE Commit(r)
    <3>1. tx[r].pc = "commit" /\ db' = View(r) /\ Release(r)
      BY <2>3 DEF Commit
    <3>2. tx'[r].pc = "idle"
      BY <3>1, ReleaseEffect DEF Idle
    <3>3. QED
      BY <2>3, <3>1, <3>2 DEF ColumnInv, CellInv
  <2>4. CASE DbError(r)
    BY <2>4 DEF DbError, Rollback
  <2>5. CASE Step(r) /\ ~ Commit(r)
    BY <2>5, StatementForm DEF Rollback, Shared
  <2>6. QED
    BY <2>1, <2>2, <2>3, <2>4, <2>5
<1>3. QED
  BY <1>1, <1>2

\* Every change of a password or a role closes the session of its user, for
\* any number of logins, refreshes and updates that overlap with it.
THEOREM RightsRevoked == Spec => RightsChangeRevokes
<1>1. ASSUME TypeInv, ColumnInv, [Next]_vars
      PROVE  [\A u \in Users :
                (/\ db[u] # None /\ db'[u] # None
                 /\ db[u].pw # db'[u].pw \/ db[u].role # db'[u].role)
                => db'[u].session = None]_vars
  BY <1>1, TableStep DEF Cell
<1>2. QED
  BY <1>1, ColumnsHold, PTL DEF Spec, RightsChangeRevokes

\* No commit changes a column of an existing user that no update of that user
\* asked for, so no write from a stale snapshot undoes another request's.
THEOREM NothingCollateral == Spec => NoCollateralChange
<1>1. ASSUME TypeInv, ColumnInv, [Next]_vars
      PROVE  [\A u \in Users :
                (db[u] # None /\ db'[u] # None) =>
                  /\ db'[u].email # db[u].email => Asked(u, "email", db'[u].email)
                  /\ db'[u].pw # db[u].pw => Asked(u, "pw", db'[u].pw)
                  /\ db'[u].role # db[u].role => Asked(u, "role", db'[u].role)]_vars
  BY <1>1, TableStep DEF Cell, Asked
<1>2. QED
  BY <1>1, ColumnsHold, PTL DEF Spec, NoCollateralChange

\* Every change of the users commits with the log entry about it.
THEOREM ChangesAudited == Spec => Audited
<1>1. ASSUME TypeInv, ColumnInv, [Next]_vars
      PROVE  [\A u \in Users :
                Rights(db[u]) # Rights(db'[u]) =>
                  \E r \in Requests :
                    tx[r].pc = "commit" /\ tx'[r].pc = "idle" /\ tx[r].entry # None]_vars
  <2>1. SUFFICES ASSUME NEW u \in Users, Rights(db[u]) # Rights(db'[u])
                 PROVE  \E r \in Requests : /\ tx[r].pc = "commit" /\ tx'[r].pc = "idle"
                                            /\ tx[r].entry # None
    OBVIOUS
  <2>2. CASE UNCHANGED <<db, retired>>
    BY <2>1, <2>2
  <2>3. CASE \E r \in Requests :
               /\ Commit(r) /\ tx[r].pc = "commit" /\ tx'[r].pc = "idle"
               /\ \A w \in Users : Cell(tx[r], w, db[w], db'[w])
    BY <2>1, <2>3 DEF Cell
  <2>4. QED
    BY <1>1, <2>2, <2>3, TableStep
<1>2. QED
  BY <1>1, ColumnsHold, PTL DEF Spec, Audited

\* The sessions of the table are those of the abstract specification: a commit
\* opens a fresh session for one user, closes one, or changes none.
LEMMA SessionStep ==
  ASSUME TypeInv, SessionInv, ColumnInv, [Next]_vars
  PROVE  [Sessions!Next]_(Sessions!vars)
<1> DEFINE live == [u \in Users |-> IF db[u] = None THEN None ELSE db[u].session]
           live2 == [u \in Users |-> IF db'[u] = None THEN None ELSE db'[u].session]
<1>1. CASE UNCHANGED <<db, retired>>
  BY <1>1 DEF Sessions!vars
<1>2. CASE \E r \in Requests : /\ Commit(r) /\ tx[r].pc = "commit"
                               /\ \A u \in Users : Cell(tx[r], u, db[u], db'[u])
  <2>1. PICK r \in Requests : /\ Commit(r) /\ tx[r].pc = "commit"
                              /\ \A u \in Users : Cell(tx[r], u, db[u], db'[u])
    BY <1>2
  <2>2. \A u \in Users : live[u] = Live(db[u]) /\ live2[u] = Live(db'[u])
    BY DEF Live
  <2> DEFINE w == IF tx[r].op = "add" THEN tx[r].old ELSE tx[r].target
  <2>3. \A u \in Users \ {w} : live2[u] = live[u]
    BY <2>1, <2>2 DEF Cell
  <2>4. \A s : s \in SessionsOf(db) <=> s # None /\ \E u \in Users : live[u] = s
    BY DEF SessionsOf, Present
  <2>5. \A s : s \in SessionsOf(db)' <=> s # None /\ \E u \in Users : live2[u] = s
    BY DEF SessionsOf, Present
  <2>6. retired' = retired \cup (SessionsOf(db) \ SessionsOf(db)')
    BY <2>1 DEF Commit, SessionsOf, Present
  <2>7. \A u, v \in Users : (live[u] = live[v] /\ live[u] # None) => u = v
    BY DEF SessionInv, OneOwnerInv
  <2>8. CASE live2 = live
    <3>1. retired' = retired
      BY <2>4, <2>5, <2>6, <2>8
    <3>2. QED
      BY <2>8, <3>1 DEF Sessions!vars
  <2>9. CASE live2 # live
    <3>1. w \in Users /\ live2[w] # live[w]
      BY <2>3, <2>9
    <3>2. live2 = [live EXCEPT ![w] = live2[w]]
      BY <2>3, <3>1
    <3>3. \/ live2[w] = None
          \/ live2[w] = tx[r].sid /\ tx[r].sid # None
      <4>1. db'[w] = IF owner[w] = r THEN work[w] ELSE db[w]
        BY <2>1, <3>1 DEF Commit, View
      <4>2. QED
        BY <3>1, <4>1 DEF SessionInv, WorkInv
    <3>4. CASE live2[w] = None
      <4>1. SessionsOf(db) \ SessionsOf(db)' = {live[w]}
        <5> HIDE DEF live, live2, w
        <5>1. live[w] \in SessionsOf(db)
          BY <2>4, <3>1, <3>4
        <5>2. live[w] \notin SessionsOf(db)'
          BY <2>3, <2>5, <2>7, <3>1, <3>4
        <5>3. ASSUME NEW s, s \in SessionsOf(db), s \notin SessionsOf(db)'
              PROVE  s = live[w]
          BY <2>3, <2>4, <2>5, <5>3
        <5>4. QED
          BY <5>1, <5>2, <5>3
      <4>2. Sessions!Close(w)
        <5> HIDE DEF w
        <5> QED
          BY <2>6, <3>1, <3>2, <3>4, <4>1 DEF Sessions!Close
      <4>3. Sessions!Next
        <5> HIDE DEF w
        <5> QED
          BY <3>1, <4>2 DEF Sessions!Next, Sessions!Close
      <4>4. QED
        BY <4>3
    <3>5. CASE live2[w] # None
      <4> DEFINE s == tx[r].sid
      <4>1. live2[w] = s /\ s # None /\ s \in Sids
        BY <3>3, <3>5 DEF TypeInv, TypeOK, Tx
      <4>2. s \notin retired /\ \A u \in Users : live[u] # s
        BY <4>1 DEF SessionInv, FreshInv
      <4>3. SessionsOf(db) \ SessionsOf(db)' = {live[w]} \ {None}
        <5> HIDE DEF live, live2, w, s
        <5>1. live[w] # None => live[w] \in SessionsOf(db)
          BY <2>4, <3>1
        <5>2. live[w] \notin SessionsOf(db)'
          BY <2>3, <2>5, <2>7, <3>1, <4>1, <4>2
        <5>3. ASSUME NEW z, z \in SessionsOf(db), z \notin SessionsOf(db)'
              PROVE  z = live[w] /\ z # None
          BY <2>3, <2>4, <2>5, <5>3
        <5>4. QED
          BY <5>1, <5>2, <5>3
      <4>4. Sessions!Open(w, s)
        <5> HIDE DEF w, s
        <5> QED
          BY <2>6, <3>1, <3>2, <4>1, <4>2, <4>3 DEF Sessions!Open, Sessions!Live
      <4>5. Sessions!Next
        <5> HIDE DEF w, s
        <5> QED
          BY <3>1, <4>1, <4>4 DEF Sessions!Next, Sessions!Open
      <4>6. QED
        BY <4>5
    <3>6. QED
      BY <3>4, <3>5
  <2>10. QED
    BY <2>8, <2>9
<1>3. QED
  BY <1>1, <1>2, TableStep

\* Accounts implements SessionLife: in each of its behaviours the sessions of
\* the table open, are replaced and close as the abstract specification says.
THEOREM SessionsImplemented == Spec => SessionsRefined
<1>1. Init => Sessions!Init
  <2> SUFFICES ASSUME Init PROVE Sessions!Init
    OBVIOUS
  <2>1. db \in Table /\ WellFormed(db) /\ retired = {}
    BY TableAssumption DEF Init
  <2>2. [u \in Users |-> IF db[u] = None THEN None ELSE db[u].session]
          \in [Users -> Sids \cup {None}]
    BY <2>1 DEF Table, Row
  <2>3. QED
    BY <2>1, <2>2 DEF Sessions!Init, WellFormed
<1>2. TypeInv /\ SessionInv /\ ColumnInv /\ [Next]_vars => [Sessions!Next]_(Sessions!vars)
  BY SessionStep
<1>3. QED
  BY <1>1, <1>2, SessionsHold, ColumnsHold, PTL DEF Spec, SessionsRefined, Sessions!Spec

-----------------------------------------------------------------------------
(* The default user *)

\* No request gives a user the email of the default user.
EmailInv == \A r \in Requests : tx[r].email = None \/ tx[r].email # DefaultEmail

\* A row with the email of the default user is committed with it.
DefaultRowInv ==
  \A r \in Requests, v \in Users :
    (View(r)[v] # None /\ View(r)[v].email = DefaultEmail) =>
      db[v] # None /\ db[v].email = DefaultEmail

\* An add_user that has not inserted its row has no version of its own; one
\* that has looked for the default user knows it, and has deleted it when it
\* is about to commit.
AddsInv ==
  \A r \in Requests : tx[r].op = "add" =>
    /\ tx[r].pc \in {"unique", "default"} => \A v \in Users : owner[v] # r
    /\ tx[r].pc \in {"insert", "log", "drop", "commit"} =>
         \A d \in Users : (db[d] # None /\ db[d].email = DefaultEmail) =>
           tx[r].old = d /\ (tx[r].pc = "commit" => View(r)[d] = None)

DefaultInv == EmailInv /\ DefaultRowInv /\ AddsInv /\ DefaultStandsAlone

\* What the theorem about the default user asks of the clients and of the
\* table the server starts from.
DefaultKept ==
  /\ \A p \in Payloads : p.email # DefaultEmail
  /\ \A t \in InitialTables : \A d \in Present(t) :
       t[d].email = DefaultEmail => Present(t) = {d}

\* A statement that writes no row, removes one, keeps its email or gives it
\* the email that was asked for.
LEMMA StatementDefault ==
  ASSUME TypeInv, DefaultInv, NEW r \in Requests, NEW u \in Users, NEW x,
         Moved(r), UNCHANGED Shared,
         \/ Write(r, u, x) /\ \A v \in Locked(u) : owner[v] \in {None, r}
         \/ UNCHANGED <<work, owner>> /\ x = View(r)[u],
         \/ x = None
         \/ View(r)[u] # None /\ x.email = View(r)[u].email
         \/ tx[r].email # None /\ x.email = tx[r].email,
         tx[r].op = "add" =>
           /\ tx'[r].pc \in {"unique", "default"} =>
                tx[r].pc \in {"unique", "default"} /\ UNCHANGED owner
           /\ tx'[r].pc \in {"insert", "log", "drop", "commit"} =>
                \A d \in Users : (db[d] # None /\ db[d].email = DefaultEmail) =>
                  tx'[r].old = d /\ (tx'[r].pc = "commit" => u = d /\ x = None)
  PROVE  DefaultInv'
<1>1. /\ \A v \in Users : View(r)'[v] = IF v = u THEN x ELSE View(r)[v]
      /\ \A q \in Requests \ {r}, v \in Users : View(q)'[v] = View(q)[v]
      /\ \A v \in Users : owner'[v] \in {owner[v], r}
  <2>1. CASE UNCHANGED <<work, owner>> /\ x = View(r)[u]
    BY <2>1 DEF View, Shared
  <2>2. QED
    BY <2>1, WriteView
<1>2. UNCHANGED db
  BY DEF Shared
<1>3. \A q \in Requests : /\ tx'[q].op = tx[q].op /\ tx'[q].email = tx[q].email
                          /\ q # r => tx'[q] = tx[q]
  BY DEF Moved
<1>4. EmailInv'
  BY <1>3 DEF EmailInv, DefaultInv
<1>5. DefaultStandsAlone'
  BY <1>2 DEF DefaultStandsAlone, DefaultInv, Present
<1>6. x # None /\ x.email = DefaultEmail => View(r)[u] # None /\ View(r)[u].email = DefaultEmail
  BY DEF EmailInv, DefaultInv
<1>7. DefaultRowInv'
  <2>1. SUFFICES ASSUME NEW q \in Requests, NEW v \in Users, View(q)'[v] # None,
                        View(q)'[v].email = DefaultEmail
                 PROVE  db[v] # None /\ db[v].email = DefaultEmail
    BY <1>2 DEF DefaultRowInv
  <2>2. View(q)[v] # None /\ View(q)[v].email = DefaultEmail
    BY <1>1, <1>6, <2>1
  <2>3. QED
    BY <2>2 DEF DefaultRowInv, DefaultInv
<1>8. AddsInv'
  <2>1. SUFFICES ASSUME NEW q \in Requests, tx[q].op = "add"
                 PROVE  /\ tx'[q].pc \in {"unique", "default"} => \A v \in Users : owner'[v] # q
                        /\ tx'[q].pc \in {"insert", "log", "drop", "commit"} =>
                             \A d \in Users : (db[d] # None /\ db[d].email = DefaultEmail) =>
                               tx'[q].old = d /\ (tx'[q].pc = "commit" => View(q)'[d] = None)
    BY <1>2, <1>3 DEF AddsInv
  <2>2. CASE q = r
    BY <1>1, <2>1, <2>2 DEF AddsInv, DefaultInv
  <2>3. CASE q # r
    BY <1>1, <1>3, <2>1, <2>3 DEF AddsInv, DefaultInv
  <2>4. QED
    BY <2>2, <2>3
<1>9. QED
  BY <1>4, <1>5, <1>7, <1>8 DEF DefaultInv

\* Every statement but a commit or a rollback.
LEMMA MoveDefault ==
  ASSUME TypeInv, ColumnInv, DefaultInv, NEW r \in Requests, Step(r),
         Moved(r), UNCHANGED Shared, ~ Rollback(r), ~ Commit(r)
  PROVE  DefaultInv'
<1> DEFINE u == tx[r].target
           row == View(r)[u]
<1>1. /\ tx[r] \in Tx /\ TxShape(tx[r]) /\ Flow(tx[r]) /\ View(r) \in Table
  BY ViewTable DEF TypeInv, TypeOK, ColumnInv, FlowInv
<1>2. ~ DeadlockVictim(r)
  BY DEF DeadlockVictim
<1>3. CASE Find(r) \/ Count(r)
  <2>1. tx[r].op # "add" /\ UNCHANGED <<work, owner>> /\ u \in Users
    BY <1>1, <1>3 DEF Find, Count, At, Flow, TxShape
  <2>2. row = None \/ row.email = row.email
    OBVIOUS
  <2>3. QED
    BY <2>1, StatementDefault
<1>4. CASE Unique(r)
  <2>1. tx[r].pc = "unique" /\ UNCHANGED <<work, owner>> /\ u \in Users
    BY <1>1, <1>4 DEF Unique, At, TxShape
  <2>2. Go(r, IF tx[r].op = "add" THEN "default" ELSE "update")
    BY <1>4 DEF Unique
  <2>3. tx[r].op = "add" => tx'[r].pc = "default"
    BY <2>2, GoFields
  <2>4. QED
    BY <2>1, <2>3, StatementDefault
<1>5. CASE Default(r)
  <2>1. tx[r].pc = "default" /\ tx[r].op = "add" /\ UNCHANGED <<work, owner>> /\ u \in Users
    BY <1>1, <1>5 DEF Default, At, TxShape
  <2>2. \A v \in Users : View(r)[v] = db[v]
    BY <2>1 DEF DefaultInv, AddsInv, View
  <2> DEFINE found == {d \in Present(View(r)) : View(r)[d].email = DefaultEmail}
  <2>3. \A d \in Users : (db[d] # None /\ db[d].email = DefaultEmail) => found = {d}
    BY <2>2 DEF DefaultInv, DefaultStandsAlone, Present
  <2>4. CASE Go(r, "insert") /\ found = {}
    <3>1. tx'[r].pc = "insert"
      BY <2>4, GoFields
    <3>2. QED
      BY <2>1, <2>3, <2>4, <3>1, StatementDefault
  <2>5. CASE ~ (Go(r, "insert") /\ found = {})
    <3>1. PICK d \in found :
            tx' = [tx EXCEPT ![r].old = d, ![r].snap = View(r)[d], ![r].pc = "insert"]
      BY <1>5, <2>5 DEF Default
    <3>2. [tx[r] EXCEPT !.old = d, !.snap = View(r)[d], !.pc = "insert"] =
            Advance(tx[r], "insert", View(r)[d], d, tx[r].entry)
      BY <1>1, AdvanceOld
    <3>3. tx' = [tx EXCEPT ![r] = Advance(tx[r], "insert", View(r)[d], d, tx[r].entry)]
      BY <3>1, <3>2
    <3>4. tx'[r].pc = "insert" /\ tx'[r].old = d
      BY <3>3 DEF Advance, TypeInv, TypeOK
    <3>5. \A e \in Users : (db[e] # None /\ db[e].email = DefaultEmail) => d = e
      BY <2>3, <3>1
    <3>6. QED
      BY <2>1, <3>4, <3>5, StatementDefault
  <2>6. QED
    BY <2>4, <2>5
<1>6. CASE Insert(r)
  <2> DEFINE x == [email |-> tx[r].email, pw |-> tx[r].pw, role |-> tx[r].role,
                   session |-> None]
  <2>1. tx[r].pc = "insert" /\ tx[r].op = "add" /\ u \in Users /\ tx[r].email # None
    BY <1>1, <1>6 DEF Insert, At, TxShape
  <2>2. Write(r, u, x) /\ Go(r, "log")
    BY <1>6 DEF Insert
  <2>3. \A v \in Locked(u) : owner[v] \in {None, r}
    BY <1>6, <2>1, LockFree DEF Insert, Needs
  <2>4. tx'[r].pc = "log" /\ tx'[r].old = tx[r].old
    BY <2>2, GoFields
  <2>5. \A d \in Users : (db[d] # None /\ db[d].email = DefaultEmail) => tx[r].old = d
    BY <2>1 DEF DefaultInv, AddsInv
  <2>6. x.email = tx[r].email
    OBVIOUS
  <2>7. QED
    <3> HIDE DEF x
    <3> QED
      BY <2>1, <2>2, <2>3, <2>4, <2>5, <2>6, StatementDefault
<1>7. CASE Update(r)
  <2> DEFINE x == Patched(row, tx[r])
  <2>1. tx[r].pc = "update" /\ tx[r].op # "add" /\ u \in Users
    BY <1>1, <1>7 DEF Update, At, Flow, TxShape
  <2>2. row # None /\ IF Changes(tx[r]) THEN Write(r, u, x) ELSE UNCHANGED <<work, owner>>
    BY <1>7 DEF Update
  <2>3. Changes(tx[r]) => \A v \in Locked(u) : owner[v] \in {None, r}
    <3>1. Changes(tx[r]) => Needs(r) = u
      BY <2>1 DEF Needs
    <3>2. QED
      BY <1>7, <2>1, <3>1, LockFree DEF Update
  <2>4. row \in Row
    BY <1>1, <2>1, <2>2 DEF Table
  <2>5. x.email = row.email \/ (tx[r].email # None /\ x.email = tx[r].email)
    BY <2>4 DEF Patched, Given, Row
  <2>6. ~ Changes(tx[r]) => x = row
    BY <2>4 DEF Changes, Patched, Row
  <2>7. QED
    <3> HIDE DEF x
    <3> QED
      BY <2>1, <2>2, <2>3, <2>5, <2>6, StatementDefault
<1>8. CASE Clear(r)
  <2> DEFINE x == IF tx[r].snap.session # None THEN [row EXCEPT !.session = None] ELSE row
  <2>1. tx[r].pc = "clear" /\ tx[r].op # "add" /\ u \in Users
    BY <1>1, <1>8 DEF Clear, At, Flow, TxShape
  <2>2. /\ row # None
        /\ IF tx[r].snap.session # None THEN Write(r, u, x) ELSE UNCHANGED <<work, owner>>
    BY <1>8 DEF Clear
  <2>3. tx[r].snap.session # None => \A v \in Locked(u) : owner[v] \in {None, r}
    <3>1. tx[r].snap.session # None => Needs(r) = u
      BY <2>1 DEF Needs
    <3>2. QED
      BY <1>8, <2>1, <3>1, LockFree DEF Clear
  <2>4. row \in Row
    BY <1>1, <2>1, <2>2 DEF Table
  <2>5. x.email = row.email /\ (tx[r].snap.session = None => x = row)
    BY <2>4 DEF Row
  <2>6. QED
    <3> HIDE DEF x
    <3> QED
      BY <2>1, <2>2, <2>3, <2>5, StatementDefault
<1>9. CASE Store(r)
  <2> DEFINE x == Opened(row, tx[r])
  <2>1. tx[r].pc = "store" /\ tx[r].op # "add" /\ u \in Users
    BY <1>1, <1>9 DEF Store, At, TxShape
  <2>2. row # None /\ Write(r, u, x)
    BY <1>9 DEF Store
  <2>3. \A v \in Locked(u) : owner[v] \in {None, r}
    <3>1. Needs(r) = u
      BY <2>1 DEF Needs
    <3>2. QED
      BY <1>9, <2>1, <3>1, LockFree DEF Store
  <2>4. row \in Row
    BY <1>1, <2>1, <2>2 DEF Table
  <2>5. x.email = row.email
    BY <2>4 DEF Opened, Row
  <2>6. QED
    <3> HIDE DEF x
    <3> QED
      BY <2>1, <2>2, <2>3, <2>5, StatementDefault
<1>10. CASE Log(r)
  <2> DEFINE p == IF tx[r].op = "delete" \/ tx[r].old # None THEN "drop" ELSE "commit"
             h == tx[r].self
             x == View(r)[h]
  <2>1. tx[r].pc = "log" /\ h \in Users
    BY <1>1, <1>10 DEF Log, At, TxShape
  <2>2. /\ x # None
        /\ \/ Backend = "sqlite" /\ Write(r, h, x)
           \/ UNCHANGED <<work, owner>>
        /\ tx' = [tx EXCEPT ![r].entry = h, ![r].pc = p]
    BY <1>10 DEF Log
  <2>3. Backend = "sqlite" => \A v \in Locked(h) : owner[v] \in {None, r}
    <3>1. Needs(r) = h
      BY <2>1 DEF Needs
    <3>2. QED
      BY <1>10, <2>1, <3>1, LockFree DEF Log
  <2>4. tx'[r].pc = p /\ tx'[r].old = tx[r].old
    <3>1. [tx[r] EXCEPT !.entry = h, !.pc = p] =
            Advance(tx[r], p, tx[r].snap, tx[r].old, h)
      <4> HIDE DEF p, h
      <4> QED
        BY <1>1, AdvanceEntry
    <3>2. tx' = [tx EXCEPT ![r] = Advance(tx[r], p, tx[r].snap, tx[r].old, h)]
      BY <2>2, <3>1
    <3>3. QED
      <4> HIDE DEF p, h
      <4> QED
        BY <3>2 DEF Advance, TypeInv, TypeOK
  <2>5. tx[r].op = "add" =>
          \A d \in Users : (db[d] # None /\ db[d].email = DefaultEmail) =>
            tx[r].old = d /\ p = "drop"
    BY <2>1, NoneAssumption DEF DefaultInv, AddsInv
  <2>6. p \in {"drop", "commit"}
    OBVIOUS
  <2>7. QED
    <3> HIDE DEF p, h
    <3>1. x # None /\ x.email = x.email
      BY <2>2
    <3>2. QED
      BY <2>1, <2>2, <2>3, <2>4, <2>5, <2>6, <3>1, StatementDefault
<1>11. CASE Drop(r)
  <2> DEFINE w == Needs(r)
  <2>1. tx[r].pc = "drop" /\ tx[r].op \in {"add", "delete"}
    BY <1>1, <1>11 DEF Drop, At, Flow
  <2>2. w = (IF tx[r].op = "add" THEN tx[r].old ELSE u) /\ w \in Users
    BY <1>1, <2>1 DEF Needs, TxShape, Tx
  <2>3. \A v \in Locked(w) : owner[v] \in {None, r}
    BY <1>11, <2>1, <2>2, LockFree DEF Drop
  <2>4. Write(r, w, None) /\ Go(r, "commit")
    BY <1>11 DEF Drop
  <2>5. tx'[r].pc = "commit" /\ tx'[r].old = tx[r].old
    BY <2>4, GoFields
  <2>6. tx[r].op = "add" =>
          \A d \in Users : (db[d] # None /\ db[d].email = DefaultEmail) => tx[r].old = d
    BY <2>1 DEF DefaultInv, AddsInv
  <2>7. QED
    <3> HIDE DEF w
    <3> QED
      BY <2>1, <2>2, <2>3, <2>4, <2>5, <2>6, StatementDefault
<1>12. QED
  BY <1>2, <1>3, <1>4, <1>5, <1>6, <1>7, <1>8, <1>9, <1>10, <1>11, Step(r) DEF Step

\* The end of a request; the table keeps its rows or takes those of r.
LEMMA EndDefault ==
  ASSUME TypeInv, ColumnInv, DefaultInv, NEW r \in Requests, Release(r),
         \/ UNCHANGED db
         \/ db' = View(r) /\ tx[r].pc = "commit"
  PROVE  DefaultInv'
<1>1. /\ \A q \in Requests : tx'[q] = IF q = r THEN Idle ELSE tx[q]
      /\ \A u \in Users : owner'[u] = IF owner[u] = r THEN None ELSE owner[u]
      /\ \A u \in Users : owner[u] # r => work'[u] = work[u]
  BY ReleaseEffect
<1>2. Idle.email = None /\ Idle.op # "add" /\ None \notin Requests
  BY NoneAssumption DEF Idle, Operations
<1>3. \A u \in Users : owner[u] # r => db'[u] = db[u]
  BY DEF View
<1>4. \A u \in Users : db'[u] = db[u] \/ (db'[u] = View(r)[u] /\ tx[r].pc = "commit")
  OBVIOUS
<1>5. \A d \in Users : (db'[d] # None /\ db'[d].email = DefaultEmail) =>
                         db[d] # None /\ db[d].email = DefaultEmail
  BY <1>4 DEF DefaultInv, DefaultRowInv
<1>6. EmailInv'
  BY <1>1, <1>2 DEF EmailInv, DefaultInv
<1>7. DefaultRowInv'
  <2>1. SUFFICES ASSUME NEW q \in Requests, NEW v \in Users, View(q)'[v] # None,
                        View(q)'[v].email = DefaultEmail
                 PROVE  db'[v] # None /\ db'[v].email = DefaultEmail
    BY DEF DefaultRowInv
  <2>2. View(q)'[v] = IF owner'[v] = q THEN work'[v] ELSE db'[v]
    BY DEF View
  <2>3. CASE owner'[v] = q
    <3>1. q # r /\ owner[v] = q /\ work'[v] = work[v] /\ db'[v] = db[v]
      BY <1>1, <1>2, <1>3, <2>3
    <3>2. View(q)[v] = work[v]
      BY <3>1 DEF View
    <3>3. QED
      BY <2>1, <2>2, <2>3, <3>1, <3>2 DEF DefaultInv, DefaultRowInv
  <2>4. QED
    BY <2>1, <2>2, <2>3
<1>8. AddsInv'
  <2>1. SUFFICES ASSUME NEW q \in Requests, q # r, tx[q].op = "add"
                 PROVE  /\ tx[q].pc \in {"unique", "default"} => \A v \in Users : owner'[v] # q
                        /\ tx[q].pc \in {"insert", "log", "drop", "commit"} =>
                             \A d \in Users : (db'[d] # None /\ db'[d].email = DefaultEmail) =>
                               tx[q].old = d /\ (tx[q].pc = "commit" => View(q)'[d] = None)
    BY <1>1, <1>2 DEF AddsInv
  <2>2. tx[q].pc \in {"unique", "default"} => \A v \in Users : owner'[v] # q
    BY <1>1, <1>2, <2>1 DEF DefaultInv, AddsInv
  <2>3. ASSUME NEW d \in Users, db'[d] # None, db'[d].email = DefaultEmail,
               tx[q].pc \in {"insert", "log", "drop", "commit"}
        PROVE  tx[q].old = d /\ (tx[q].pc = "commit" => View(q)'[d] = None)
    <3>1. db[d] # None /\ db[d].email = DefaultEmail
      BY <1>5, <2>3
    <3>2. tx[q].old = d /\ (tx[q].pc = "commit" => View(q)[d] = None)
      BY <2>1, <2>3, <3>1 DEF DefaultInv, AddsInv
    <3>3. tx[q].pc = "commit" => owner[d] = q /\ work[d] = None
      BY <3>1, <3>2 DEF View
    <3>4. QED
      BY <1>1, <2>1, <3>2, <3>3 DEF View
  <2>4. QED
    BY <2>2, <2>3
<1>9. DefaultStandsAlone'
  <2>1. SUFFICES ASSUME NEW d \in Users, db'[d] # None, db'[d].email = DefaultEmail,
                        NEW v \in Users, db'[v] # None, v # d
                 PROVE  FALSE
    BY DEF DefaultStandsAlone, Present
  <2>2. db[d] # None /\ db[d].email = DefaultEmail
    BY <1>5, <2>1
  <2>3. db[v] = None
    BY <2>1, <2>2 DEF DefaultInv, DefaultStandsAlone, Present
  <2>4. db'[v] = View(r)[v] /\ tx[r].pc = "commit" /\ db' = View(r)
    BY <1>4, <2>1, <2>3
  <2>5. tx[r].op = "add"
    BY <2>1, <2>3, <2>4 DEF ColumnInv, CellInv, Cell
  <2>6. View(r)[d] = None
    BY <2>2, <2>4, <2>5 DEF DefaultInv, AddsInv
  <2>7. QED
    BY <2>1, <2>4, <2>6
<1>10. QED
  BY <1>6, <1>7, <1>8, <1>9 DEF DefaultInv

\* A slot takes up a request.
LEMMA BeginDefault ==
  ASSUME TypeInv, ColumnInv, DefaultInv, NEW r \in Requests, NEW op, NEW t, Begin(r, op, t),
         t.email = None \/ t.email # DefaultEmail,
         t.op = "add" => t.pc = "unique"
  PROVE  DefaultInv'
<1>1. UNCHANGED <<db, work, owner, gone, retired, delivered>>
  BY DEF Begin
<1>2. \A q \in Requests : tx'[q] = IF q = r THEN t ELSE tx[q]
  BY DEF Begin, TypeInv, TypeOK
<1>3. \A u \in Users : owner[u] # r
  BY DEF Begin, OwnsInv, ColumnInv
<1>4. \A q \in Requests, v \in Users : View(q)'[v] = View(q)[v]
  BY <1>1 DEF View
<1>5. EmailInv' /\ DefaultRowInv'
  BY <1>1, <1>2, <1>4 DEF EmailInv, DefaultRowInv, DefaultInv
<1>6. AddsInv'
  BY <1>1, <1>2, <1>3, <1>4 DEF AddsInv, DefaultInv
<1>7. DefaultStandsAlone'
  BY <1>1 DEF DefaultStandsAlone, DefaultInv, Present
<1>8. QED
  BY <1>5, <1>6, <1>7 DEF DefaultInv

LEMMA ArriveDefault ==
  ASSUME TypeInv, ColumnInv, DefaultInv, DefaultKept, NEW r \in Requests, Arrive(r)
  PROVE  DefaultInv'
<1>1. Idle.email = None /\ \A op \in {"login", "refresh", "logout", "delete", "update"} : op # "add"
  BY DEF Idle
<1>2. CASE Login(r) \/ Refresh(r)
  <2>1. PICK op \in {"login", "refresh"}, u \in Present(db), s \in FreshSids :
          Begin(r, op, [Idle EXCEPT !.pc = "store", !.op = op, !.self = u,
                                    !.target = u, !.sid = s, !.snap = db[u]])
    BY <1>2 DEF Login, Refresh
  <2> DEFINE t == [Idle EXCEPT !.pc = "store", !.op = op, !.self = u,
                               !.target = u, !.sid = s, !.snap = db[u]]
  <2>2. t.email = None /\ t.op = op
    BY DEF Idle
  <2>3. QED
    BY <1>1, <2>1, <2>2, BeginDefault
<1>3. CASE Logout(r)
  <2>1. PICK u : Begin(r, "logout", [Idle EXCEPT !.pc = "clear", !.op = "logout", !.self = u,
                                                 !.target = u, !.snap = db[u]])
    BY <1>3 DEF Logout
  <2> DEFINE t == [Idle EXCEPT !.pc = "clear", !.op = "logout", !.self = u,
                               !.target = u, !.snap = db[u]]
  <2>2. t.email = None /\ t.op = "logout"
    BY DEF Idle
  <2>3. QED
    BY <2>1, <2>2, BeginDefault
<1>4. CASE AddUser(r)
  <2>1. PICK a \in AdminCallers, u \in FreshUsers, p \in Payloads :
          Begin(r, "add", [Idle EXCEPT !.pc = "unique", !.op = "add", !.self = a,
                                 !.target = u, !.email = p.email, !.pw = p.pw, !.role = p.role])
    BY <1>4 DEF AddUser
  <2> DEFINE t == [Idle EXCEPT !.pc = "unique", !.op = "add", !.self = a, !.target = u,
                               !.email = p.email, !.pw = p.pw, !.role = p.role]
  <2>2. t.email = p.email /\ t.pc = "unique" /\ p.email # DefaultEmail
    BY DEF Idle, DefaultKept
  <2>3. QED
    BY <2>1, <2>2, BeginDefault
<1>5. CASE DeleteUser(r)
  <2>1. PICK a, u :
          Begin(r, "delete", [Idle EXCEPT !.pc = "find", !.op = "delete", !.self = a,
                                          !.target = u, !.snap = db[a]])
    BY <1>5 DEF DeleteUser
  <2> DEFINE t == [Idle EXCEPT !.pc = "find", !.op = "delete", !.self = a,
                               !.target = u, !.snap = db[a]]
  <2>2. t.email = None /\ t.op = "delete"
    BY DEF Idle
  <2>3. QED
    BY <2>1, <2>2, BeginDefault
<1>6. CASE UpdateUser(r)
  <2>1. PICK a \in AdminCallers, u \in Users, p \in Payloads :
          Begin(r, "update", [Idle EXCEPT !.pc = "find", !.op = "update", !.self = a,
                                 !.target = u, !.email = p.email, !.pw = p.pw,
                                 !.role = p.role, !.snap = db[a]])
    BY <1>6 DEF UpdateUser
  <2> DEFINE t == [Idle EXCEPT !.pc = "find", !.op = "update", !.self = a, !.target = u,
                               !.email = p.email, !.pw = p.pw, !.role = p.role,
                               !.snap = db[a]]
  <2>2. t.email = p.email /\ t.op = "update" /\ p.email # DefaultEmail
    BY DEF Idle, DefaultKept
  <2>3. QED
    BY <2>1, <2>2, BeginDefault
<1>7. QED
  BY <1>2, <1>3, <1>4, <1>5, <1>6, Arrive(r) DEF Arrive

\* DefaultStandsAlone holds in every reachable state when it holds in the
\* table the server starts from and nobody asks for the email of the default
\* user: however many requests race to add the first users, the default user
\* goes with the first of them that commits, and none commits beside it.
THEOREM DefaultAlone ==
  ASSUME DefaultKept
  PROVE  Spec => []DefaultStandsAlone
<1>1. ASSUME Init
      PROVE  DefaultInv
  <2>1. \A r \in Requests : tx[r] = Idle
    BY <1>1 DEF Init
  <2>2. \A r \in Requests, u \in Users : owner[u] # r /\ View(r)[u] = db[u]
    BY <1>1, NoneAssumption DEF Init, View
  <2>3. Idle.email = None /\ Idle.op # "add"
    BY NoneAssumption DEF Idle, Operations
  <2>4. EmailInv /\ DefaultRowInv /\ AddsInv
    BY <2>1, <2>2, <2>3 DEF EmailInv, DefaultRowInv, AddsInv
  <2>5. DefaultStandsAlone
    BY <1>1, DefaultKept DEF Init, DefaultKept, DefaultStandsAlone
  <2>6. QED
    BY <2>4, <2>5 DEF DefaultInv
<1>2. ASSUME TypeInv, ColumnInv, DefaultInv, [Next]_vars
      PROVE  DefaultInv'
  <2>1. CASE UNCHANGED vars
    BY <1>2, <2>1 DEF vars, DefaultInv, EmailInv, DefaultRowInv, AddsInv, DefaultStandsAlone,
                      View, Present
  <2>2. CASE Next
    <3>1. PICK r \in Requests : Arrive(r) \/ Step(r) \/ DbError(r)
      BY <2>2 DEF Next
    <3>2. CASE Arrive(r)
      BY <1>2, <3>2, DefaultKept, ArriveDefault
    <3>3. CASE Rollback(r) \/ Commit(r)
      BY <1>2, <3>3, EndDefault DEF Rollback, Commit
    <3>4. CASE Step(r) /\ ~ Rollback(r) /\ ~ Commit(r)
      BY <1>2, <3>4, StatementForm, MoveDefault
    <3>5. QED
      BY <3>1, <3>2, <3>3, <3>4 DEF DbError
  <2>3. QED
    BY <1>2, <2>1, <2>2
<1>3. DefaultInv => DefaultStandsAlone
  BY DEF DefaultInv
<1>4. QED
  BY <1>1, <1>2, <1>3, ColumnsHold, PTL DEF Spec

-----------------------------------------------------------------------------
(* The last administrator *)

Removing(t) == t.op \in {"delete", "update"}

\* At any time at most one request deletes or updates a user; whatever else
\* runs may overlap with it.
OneRemoval == \A q, r \in Requests : Removing(tx[q]) /\ Removing(tx[r]) => q = r

\* Administrators that are none any more when r commits.
Loses(r) == Admins(db) \ Admins(View(r))

\* An administrator besides the target of r.
Spare(r) == \E a \in Admins(db) : a # tx[r].target

\* Steps before the first write of a request.
Early == {"find", "count", "unique", "default", "insert", "update"}

\* What a request loses is replaced: the default user by the administrator who
\* is being added, the target of a removal by another one.
Replaced(r) ==
  \A v \in Loses(r) :
    \/ tx[r].op = "add" /\ tx[r].pc = "commit" /\ v = tx[r].old
    \/ Removing(tx[r]) /\ v = tx[r].target /\ Spare(r)

\* An add_user that knows the default user adds an administrator.
Adding(r) ==
  tx[r].op = "add" /\ tx[r].old # None =>
    /\ tx[r].role = "admin" /\ tx[r].old # tx[r].target
    /\ tx[r].pc \in {"log", "drop", "commit"} => tx[r].target \in Admins(View(r))

\* A removal past count_admins leaves an administrator.
Counted(r) ==
  /\ tx[r].op = "delete" /\ tx[r].pc \in {"log", "drop"} /\ tx[r].target \in Admins(db) => Spare(r)
  /\ (tx[r].op = "update" /\ tx[r].pc \in {"unique", "update"} /\ tx[r].role = "user"
      /\ tx[r].snap.role # "user") => Spare(r)

\* A removal knows its own row as that of an administrator, and, once it has
\* found its target, no request is adding that user.
Found(r) ==
  Removing(tx[r]) =>
    /\ tx[r].pc = "find" /\ tx[r].target = tx[r].self => tx[r].snap.role = "admin"
    /\ tx[r].pc # "find" =>
         \A q \in Requests : tx[q].op = "add" => tx[q].target # tx[r].target

Unwritten(r) == tx[r].pc \in Early => \A v \in Users : owner[v] # r

Guarded(r) == Replaced(r) /\ Adding(r) /\ Counted(r) /\ Found(r) /\ Unwritten(r)

AdminInv == AdminRemains /\ \A r \in Requests : Guarded(r)

\* The server starts with an administrator, see create_initial_admin.
AdminsFirst == \A t \in InitialTables : Admins(t) # {}

\* A statement that makes x of row u.
LEMMA StatementAdmins ==
  ASSUME TypeInv, AdminInv, NEW r \in Requests, NEW u \in Users, NEW x,
         Moved(r), UNCHANGED Shared,
         \/ Write(r, u, x) /\ \A v \in Locked(u) : owner[v] \in {None, r}
         \/ UNCHANGED <<work, owner>> /\ x = View(r)[u],
         tx[r].pc # "commit",
         (u \in Admins(db) /\ (x = None \/ x.role # "admin")) =>
           \/ View(r)[u] = x
           \/ tx[r].op = "add" /\ tx'[r].pc = "commit" /\ u = tx'[r].old
           \/ Removing(tx[r]) /\ u = tx[r].target /\ Spare(r),
         tx[r].op = "add" /\ tx'[r].old # None =>
           /\ tx'[r].role = "admin" /\ tx'[r].old # tx[r].target
           /\ tx'[r].pc \in {"log", "drop", "commit"} =>
                IF u = tx[r].target THEN x # None /\ x.role = "admin"
                                    ELSE tx[r].target \in Admins(View(r)),
         tx[r].op = "delete" /\ tx'[r].pc \in {"log", "drop"} /\ tx[r].target \in Admins(db)
           => Spare(r),
         (tx[r].op = "update" /\ tx'[r].pc \in {"unique", "update"} /\ tx'[r].role = "user"
          /\ tx'[r].snap.role # "user") => Spare(r),
         Removing(tx[r]) =>
           /\ tx'[r].pc # "find"
           /\ \A q \in Requests : tx[q].op = "add" => tx[q].target # tx[r].target,
         tx'[r].pc \in Early => tx[r].pc \in Early /\ UNCHANGED owner
  PROVE  AdminInv'
<1>1. /\ \A v \in Users : View(r)'[v] = IF v = u THEN x ELSE View(r)[v]
      /\ \A q \in Requests \ {r}, v \in Users : View(q)'[v] = View(q)[v]
      /\ \A v \in Users : owner'[v] \in {owner[v], r}
  <2>1. CASE UNCHANGED <<work, owner>> /\ x = View(r)[u]
    BY <2>1 DEF View, Shared
  <2>2. QED
    BY <2>1, WriteView
<1>2. UNCHANGED db
  BY DEF Shared
<1>3. \A q \in Requests : /\ tx'[q].op = tx[q].op /\ tx'[q].target = tx[q].target
                          /\ q # r => tx'[q] = tx[q]
  BY DEF Moved
<1>4. AdminRemains' /\ Guarded(r)
  BY <1>2 DEF AdminInv, AdminRemains, Admins, Present
<1>5. \A q \in Requests : Spare(q)' <=> Spare(q)
  BY <1>2, <1>3 DEF Spare, Admins, Present
<1>6. \A v \in Users : v \in Admins(db)' <=> v \in Admins(db)
  BY <1>2 DEF Admins, Present
<1>7. ASSUME NEW q \in Requests \ {r}
      PROVE  Guarded(q)'
  <2>1. Guarded(q) /\ tx'[q] = tx[q]
    BY <1>3 DEF AdminInv
  <2>2. \A v \in Users : v \in Admins(View(q))' <=> v \in Admins(View(q))
    BY <1>1 DEF Admins, Present
  <2>3. Loses(q)' = Loses(q)
    BY <1>6, <2>2 DEF Loses, Admins, Present
  <2>4. Replaced(q)'
    BY <1>5, <2>1, <2>3 DEF Replaced, Removing, Guarded
  <2>5. Adding(q)'
    BY <2>1, <2>2 DEF Adding, Guarded, Admins, Present
  <2>6. Counted(q)'
    BY <1>2, <1>5, <2>1 DEF Counted, Guarded, Admins, Present
  <2>7. Found(q)'
    BY <1>3, <2>1 DEF Found, Guarded, Removing
  <2>8. Unwritten(q)'
    BY <1>1, <2>1 DEF Unwritten, Guarded
  <2>9. QED
    BY <2>4, <2>5, <2>6, <2>7, <2>8 DEF Guarded
<1>8. Guarded(r)'
  <2>1. \A v \in Users : v \in Admins(View(r))' <=>
          IF v = u THEN x # None /\ x.role = "admin" ELSE v \in Admins(View(r))
    BY <1>1 DEF Admins, Present
  <2>2. ASSUME NEW v \in Loses(r)'
        PROVE  \/ tx'[r].op = "add" /\ tx'[r].pc = "commit" /\ v = tx'[r].old
               \/ Removing(tx[r]) /\ v = tx[r].target /\ Spare(r)
    <3>1. v \in Users /\ v \in Admins(db) /\ v \notin Admins(View(r))'
      BY <1>2, <2>2 DEF Loses, Admins, Present
    <3>2. CASE v \in Loses(r)
      <4>1. Replaced(r)
        BY <1>4 DEF Guarded
      <4>2. QED
        BY <1>3, <3>2, <4>1 DEF Replaced
    <3>3. CASE v \notin Loses(r)
      <4>1. v \in Admins(View(r))
        BY <3>1, <3>3 DEF Loses
      <4>2. v = u /\ (x = None \/ x.role # "admin") /\ View(r)[u] # x
        BY <2>1, <3>1, <4>1 DEF Admins, Present
      <4>3. QED
        BY <1>3, <3>1, <4>2
    <3>4. QED
      BY <3>2, <3>3
  <2>3. Replaced(r)'
    BY <1>3, <1>5, <2>2 DEF Replaced, Removing
  <2>4. Adding(r)'
    <3>1. tx[r].op = "add" => tx[r].target \in Users
      BY DEF TypeInv, TypeOK, Idle, TxShape, Operations
    <3>2. QED
      BY <1>3, <2>1, <3>1 DEF Adding
  <2>5. Counted(r)'
    BY <1>2, <1>3, <1>5 DEF Counted, Admins, Present
  <2>6. Found(r)'
    BY <1>3 DEF Found, Removing
  <2>7. Unwritten(r)'
    BY <1>4 DEF Unwritten, Guarded
  <2>8. QED
    BY <2>3, <2>4, <2>5, <2>6, <2>7 DEF Guarded
<1>9. QED
  BY <1>4, <1>7, <1>8 DEF AdminInv

\* Every statement but a commit or a rollback.
LEMMA MoveAdmins ==
  ASSUME TypeInv, ColumnInv, AdminInv, NEW r \in Requests, Step(r),
         Moved(r), UNCHANGED Shared, ~ Rollback(r), ~ Commit(r)
  PROVE  AdminInv'
<1> DEFINE u == tx[r].target
           row == View(r)[u]
<1>1. /\ tx[r] \in Tx /\ TxShape(tx[r]) /\ Flow(tx[r]) /\ View(r) \in Table /\ db \in Table
  BY ViewTable DEF TypeInv, TypeOK, ColumnInv, FlowInv
<1>2. ~ DeadlockVictim(r)
  BY DEF DeadlockVictim
<1>3. Adding(r) /\ Counted(r) /\ Found(r) /\ Unwritten(r)
  BY DEF AdminInv, Guarded
<1>4. tx[r].pc \in Early => \A v \in Users : View(r)[v] = db[v]
  BY <1>3 DEF Unwritten, View
<1>5. tx[r].pc \notin {"idle", "find"} /\ Removing(tx[r]) =>
        \A q \in Requests : tx[q].op = "add" => tx[q].target # u
  BY <1>3 DEF Found
<1>6. CASE Find(r)
  <2> DEFINE snap == IF u = tx[r].self THEN tx[r].snap ELSE db[u]
             counts == snap.role = "admin" /\ (tx[r].op = "delete" \/ tx[r].role = "user")
             p == IF counts THEN "count" ELSE IF tx[r].op = "delete" THEN "log" ELSE "unique"
  <2>1. tx[r].pc = "find" /\ tx[r].op \in {"delete", "update"} /\ u \in Users /\ db[u] \in Row
    BY <1>1, <1>6 DEF Find, At, Flow, TxShape, Table
  <2>2. tx' = [tx EXCEPT ![r].snap = snap, ![r].pc = p] /\ UNCHANGED <<work, owner>>
    BY <1>6 DEF Find
  <2>3. tx'[r].pc = p /\ tx'[r].snap = snap /\ tx'[r].role = tx[r].role
    <3>1. [tx[r] EXCEPT !.snap = snap, !.pc = p] =
            Advance(tx[r], p, snap, tx[r].old, tx[r].entry)
      <4> HIDE DEF p, snap
      <4> QED
        BY <1>1, AdvanceSnap
    <3>2. tx' = [tx EXCEPT ![r] = Advance(tx[r], p, snap, tx[r].old, tx[r].entry)]
      BY <2>2, <3>1
    <3>3. QED
      <4> HIDE DEF p, snap
      <4> QED
        BY <3>2 DEF Advance, TypeInv, TypeOK
  <2>4. \A q \in Requests : tx[q].op = "add" => tx[q].target # u
    BY <2>1, NoneAssumption DEF ColumnInv, AddInv
  <2>5. snap.role = "admin" \/ (snap = db[u] /\ snap.role = "user")
    BY <1>3, <2>1 DEF Found, Removing, Row, Roles
  <2>6. p = "log" => u \notin Admins(db)
    BY <2>1, <2>5 DEF Admins
  <2>7. p \in {"unique", "update"} /\ tx[r].op = "update" /\ tx[r].role = "user" => snap.role = "user"
    BY <2>5
  <2>8. p \in {"count", "log", "unique"} /\ (tx[r].op = "delete" => p \in {"count", "log"})
    OBVIOUS
  <2>9. row = View(r)[u]
    OBVIOUS
  <2>10. QED
    <3> HIDE DEF p, snap
    <3> QED
      BY <2>1, <2>2, <2>3, <2>4, <2>6, <2>7, <2>8, <2>9, StatementAdmins DEF Early
<1>7. CASE Count(r)
  <2>1. tx[r].pc = "count" /\ tx[r].op \in {"delete", "update"} /\ u \in Users
        /\ UNCHANGED <<work, owner>> /\ ~ LastAdmin(View(r))
    BY <1>1, <1>7 DEF Count, At, Flow, TxShape
  <2>2. Go(r, IF tx[r].op = "delete" THEN "log" ELSE "unique")
    BY <1>7 DEF Count
  <2>3. tx'[r].pc \in {"log", "unique"}
    BY <2>2, GoFields
  <2>4. Spare(r)
    <3>1. Admins(View(r)) = Admins(db)
      BY <1>4, <2>1 DEF Early, Admins, Present
    <3>2. ~ (Admins(db) \subseteq {u})
      <4>1. SUFFICES ASSUME Admins(db) \subseteq {u}
                     PROVE  Cardinality(Admins(db)) <= 1
        BY <2>1, <3>1 DEF LastAdmin
      <4>2. CASE Admins(db) = {}
        BY <4>2, FS_EmptySet
      <4>3. CASE Admins(db) = {u}
        <5>1. Cardinality({u}) = 1
          BY FS_Singleton
        <5>2. QED
          BY <4>3, <5>1
      <4>4. QED
        BY <4>1, <4>2, <4>3
    <3>3. QED
      BY <3>2 DEF Spare
  <2>5. QED
    BY <1>5, <2>1, <2>3, <2>4, StatementAdmins DEF Early
<1>8. CASE Unique(r)
  <2>1. tx[r].pc = "unique" /\ tx[r].op \in {"add", "update"} /\ u \in Users
        /\ UNCHANGED <<work, owner>>
    BY <1>1, <1>8 DEF Unique, At, Flow, TxShape
  <2>2. Go(r, IF tx[r].op = "add" THEN "default" ELSE "update")
    BY <1>8 DEF Unique
  <2>3. /\ tx'[r].pc \in {"default", "update"} /\ tx'[r].old = tx[r].old
        /\ tx'[r].role = tx[r].role /\ tx'[r].snap = tx[r].snap
    BY <2>2, GoFields
  <2>4. QED
    BY <1>3, <1>5, <2>1, <2>3, StatementAdmins DEF Early, Adding, Counted
<1>9. CASE Default(r)
  <2>1. tx[r].pc = "default" /\ tx[r].op = "add" /\ u \in Users /\ UNCHANGED <<work, owner>>
    BY <1>1, <1>9 DEF Default, At, TxShape
  <2> DEFINE found == {d \in Present(View(r)) : View(r)[d].email = DefaultEmail}
  <2>2. ~ Removing(tx[r])
    BY <2>1 DEF Removing
  <2>3. CASE Go(r, "insert")
    <3>1. tx'[r].pc = "insert" /\ tx'[r].old = tx[r].old /\ tx'[r].role = tx[r].role
      BY <2>3, GoFields
    <3>2. QED
      BY <1>3, <2>1, <2>2, <3>1, StatementAdmins DEF Early, Adding
  <2>4. CASE ~ Go(r, "insert")
    <3>1. PICK d \in found :
            tx' = [tx EXCEPT ![r].old = d, ![r].snap = View(r)[d], ![r].pc = "insert"]
      BY <1>9, <2>4 DEF Default
    <3>2. tx[r].role = "admin"
      BY <1>9, <2>4 DEF Default
    <3>3. [tx[r] EXCEPT !.old = d, !.snap = View(r)[d], !.pc = "insert"] =
            Advance(tx[r], "insert", View(r)[d], d, tx[r].entry)
      BY <1>1, AdvanceOld
    <3>4. tx' = [tx EXCEPT ![r] = Advance(tx[r], "insert", View(r)[d], d, tx[r].entry)]
      BY <3>1, <3>3
    <3>5. tx'[r].pc = "insert" /\ tx'[r].old = d /\ tx'[r].role = tx[r].role
      BY <3>4 DEF Advance, TypeInv, TypeOK
    <3>6. d # u
      BY <1>4, <2>1, <3>1 DEF Early, Present, ColumnInv, AddInv
    <3>7. QED
      BY <2>1, <2>2, <3>2, <3>5, <3>6, StatementAdmins DEF Early
  <2>5. QED
    BY <2>3, <2>4
<1>10. CASE Insert(r)
  <2> DEFINE x == [email |-> tx[r].email, pw |-> tx[r].pw, role |-> tx[r].role,
                   session |-> None]
  <2>1. tx[r].pc = "insert" /\ tx[r].op = "add" /\ u \in Users /\ ~ Removing(tx[r])
    BY <1>1, <1>10 DEF Insert, At, TxShape, Removing
  <2>2. Write(r, u, x) /\ Go(r, "log")
    BY <1>10 DEF Insert
  <2>3. \A v \in Locked(u) : owner[v] \in {None, r}
    BY <1>10, <2>1, LockFree DEF Insert, Needs
  <2>4. tx'[r].pc = "log" /\ tx'[r].old = tx[r].old /\ tx'[r].role = tx[r].role
    BY <2>2, GoFields
  <2>5. u \notin Admins(db)
    BY <2>1 DEF ColumnInv, AddInv, Admins, Present
  <2>6. tx[r].old # None => tx[r].role = "admin" /\ tx[r].old # u
    BY <1>3, <2>1 DEF Adding
  <2>7. x.role = tx[r].role /\ x # None
    <3>1. tx[r].email \in Emails /\ tx[r].pw \in Passwords /\ tx[r].role \in Roles
      BY <1>1, <2>1 DEF Tx, TxShape
    <3>2. x \in Row
      BY <3>1 DEF Row
    <3>3. QED
      BY <3>2, NoneAssumption
  <2>8. QED
    <3> HIDE DEF x
    <3> QED
      BY <2>1, <2>2, <2>3, <2>4, <2>5, <2>6, <2>7, StatementAdmins DEF Early
<1>11. CASE Update(r)
  <2> DEFINE x == Patched(row, tx[r])
  <2>1. tx[r].pc = "update" /\ tx[r].op = "update" /\ u \in Users
    BY <1>1, <1>11 DEF Update, At, Flow, TxShape
  <2>2. /\ row # None
        /\ IF Changes(tx[r]) THEN Write(r, u, x) ELSE UNCHANGED <<work, owner>>
        /\ tx' = [tx EXCEPT ![r].snap = Refreshed(row, tx[r]), ![r].pc = AfterUpdate(tx[r])]
    BY <1>11 DEF Update
  <2>3. Changes(tx[r]) => \A v \in Locked(u) : owner[v] \in {None, r}
    <3>1. Changes(tx[r]) => Needs(r) = u
      BY <2>1 DEF Needs
    <3>2. QED
      BY <1>11, <2>1, <3>1, LockFree DEF Update
  <2>4. row \in Row /\ row = db[u]
    BY <1>1, <1>4, <2>1, <2>2 DEF Table, Early
  <2>5. ~ Changes(tx[r]) => x = row
    BY <2>4 DEF Changes, Patched, Row
  <2>6. u \in Admins(db) /\ x.role # "admin" => Spare(r)
    <3>1. SUFFICES ASSUME row.role = "admin", x.role # "admin"
                   PROVE  Spare(r)
      BY <2>4 DEF Admins
    <3>2. Given(tx[r]).role /\ x.role = tx[r].role
      BY <2>4, <3>1 DEF Patched, Row
    <3>3. tx[r].role = "user" /\ tx[r].snap.role # "user"
      BY <1>1, <3>1, <3>2 DEF Given, Tx, Roles
    <3>4. QED
      BY <1>3, <2>1, <3>3 DEF Counted
  <2>7. tx'[r].pc \in {"clear", "log"}
    <3> DEFINE s == Refreshed(row, tx[r])
               p == AfterUpdate(tx[r])
    <3>1. p \in {"clear", "log"}
      BY DEF AfterUpdate
    <3>2. [tx[r] EXCEPT !.snap = s, !.pc = p] = Advance(tx[r], p, s, tx[r].old, tx[r].entry)
      <4> HIDE DEF s, p
      <4> QED
        BY <1>1, AdvanceSnap
    <3>3. tx' = [tx EXCEPT ![r] = Advance(tx[r], p, s, tx[r].old, tx[r].entry)]
      BY <2>2, <3>2
    <3>4. QED
      <4> HIDE DEF s, p
      <4> QED
        BY <3>1, <3>3 DEF Advance, TypeInv, TypeOK
  <2>8. x \in Row
    BY <1>1, <2>4, PatchedType
  <2>9. x # None
    BY <2>8, NoneAssumption
  <2>10. \/ Write(r, u, x) /\ \A v \in Locked(u) : owner[v] \in {None, r}
         \/ UNCHANGED <<work, owner>> /\ x = View(r)[u]
    <3> HIDE DEF x
    <3> QED
      BY <2>2, <2>3, <2>5
  <2>11. Removing(tx[r]) /\ tx'[r].pc \notin Early
    BY <2>1, <2>7 DEF Removing, Early
  <2>12. QED
    <3> HIDE DEF x
    <3> QED
      BY <1>5, <2>1, <2>6, <2>7, <2>9, <2>10, <2>11, StatementAdmins
<1>12. CASE Clear(r)
  <2> DEFINE x == IF tx[r].snap.session # None THEN [row EXCEPT !.session = None] ELSE row
  <2>1. tx[r].pc = "clear" /\ tx[r].op \in {"update", "logout"} /\ u \in Users
    BY <1>1, <1>12 DEF Clear, At, Flow, TxShape
  <2>2. /\ row # None
        /\ IF tx[r].snap.session # None THEN Write(r, u, x) ELSE UNCHANGED <<work, owner>>
        /\ Go(r, IF tx[r].op = "logout" THEN "commit" ELSE "log")
    BY <1>12 DEF Clear
  <2>3. tx[r].snap.session # None => \A v \in Locked(u) : owner[v] \in {None, r}
    <3>1. tx[r].snap.session # None => Needs(r) = u
      BY <2>1 DEF Needs
    <3>2. QED
      BY <1>12, <2>1, <3>1, LockFree DEF Clear
  <2>4. row \in Row
    BY <1>1, <2>1, <2>2 DEF Table
  <2>5. x.role = row.role /\ x # None /\ (tx[r].snap.session = None => x = row)
    <3>1. x \in Row /\ x.role = row.role
      BY <2>4 DEF Row
    <3>2. QED
      BY <3>1, NoneAssumption
  <2>6. tx'[r].pc \in {"commit", "log"}
    BY <2>2, GoFields
  <2>7. u \in Admins(db) /\ x.role # "admin" => Removing(tx[r]) /\ Spare(r)
    <3>1. SUFFICES ASSUME u \in Admins(db), row.role # "admin"
                   PROVE  Removing(tx[r]) /\ Spare(r)
      BY <2>5
    <3>2. u \in Loses(r)
      BY <3>1 DEF Loses, Admins
    <3>3. QED
      BY <2>1, <3>2 DEF AdminInv, Guarded, Replaced
  <2>8. QED
    <3> HIDE DEF x
    <3> QED
      BY <1>5, <2>1, <2>2, <2>3, <2>5, <2>6, <2>7, StatementAdmins DEF Early
<1>13. CASE Store(r)
  <2> DEFINE x == Opened(row, tx[r])
  <2>1. tx[r].pc = "store" /\ tx[r].op \in {"login", "refresh"} /\ u \in Users
    BY <1>1, <1>13 DEF Store, At, TxShape
  <2>2. row # None /\ Write(r, u, x) /\ Go(r, IF tx[r].op = "login" THEN "log" ELSE "commit")
    BY <1>13 DEF Store
  <2>3. \A v \in Locked(u) : owner[v] \in {None, r}
    <3>1. Needs(r) = u
      BY <2>1 DEF Needs
    <3>2. QED
      BY <1>13, <2>1, <3>1, LockFree DEF Store
  <2>4. row \in Row /\ tx[r].sid \in Sids
    BY <1>1, <2>1, <2>2 DEF Table, TxShape
  <2>5. x.role = row.role /\ x # None
    <3>1. x \in Row /\ x.role = row.role
      BY <2>4 DEF Opened, Row
    <3>2. QED
      BY <3>1, NoneAssumption
  <2>6. tx'[r].pc \in {"commit", "log"}
    BY <2>2, GoFields
  <2>7. ~ (u \in Admins(db) /\ x.role # "admin")
    <3>1. SUFFICES ASSUME u \in Admins(db), row.role # "admin"
                   PROVE  FALSE
      BY <2>5
    <3>2. u \in Loses(r)
      BY <3>1 DEF Loses, Admins
    <3>3. QED
      BY <2>1, <3>2 DEF AdminInv, Guarded, Replaced, Removing
  <2>8. ~ Removing(tx[r])
    BY <2>1 DEF Removing
  <2>9. QED
    <3> HIDE DEF x
    <3> QED
      BY <2>1, <2>2, <2>3, <2>5, <2>6, <2>7, <2>8, StatementAdmins DEF Early
<1>14. CASE Log(r)
  <2> DEFINE p == IF tx[r].op = "delete" \/ tx[r].old # None THEN "drop" ELSE "commit"
             h == tx[r].self
             x == View(r)[h]
  <2>1. tx[r].pc = "log" /\ h \in Users
    BY <1>1, <1>14 DEF Log, At, TxShape
  <2>2. /\ x # None
        /\ \/ Backend = "sqlite" /\ Write(r, h, x)
           \/ UNCHANGED <<work, owner>>
        /\ tx' = [tx EXCEPT ![r].entry = h, ![r].pc = p]
    BY <1>14 DEF Log
  <2>3. Backend = "sqlite" => \A v \in Locked(h) : owner[v] \in {None, r}
    <3>1. Needs(r) = h
      BY <2>1 DEF Needs
    <3>2. QED
      BY <1>14, <2>1, <3>1, LockFree DEF Log
  <2>4. tx'[r].pc = p /\ tx'[r].old = tx[r].old /\ tx'[r].role = tx[r].role
    <3>1. [tx[r] EXCEPT !.entry = h, !.pc = p] =
            Advance(tx[r], p, tx[r].snap, tx[r].old, h)
      <4> HIDE DEF p, h
      <4> QED
        BY <1>1, AdvanceEntry
    <3>2. tx' = [tx EXCEPT ![r] = Advance(tx[r], p, tx[r].snap, tx[r].old, h)]
      BY <2>2, <3>1
    <3>3. QED
      <4> HIDE DEF p, h
      <4> QED
        BY <3>2 DEF Advance, TypeInv, TypeOK
  <2>5. p \in {"drop", "commit"}
    OBVIOUS
  <2>6. tx[r].op = "add" /\ tx[r].old # None =>
          /\ tx[r].role = "admin" /\ tx[r].old # u
          /\ u \in Admins(View(r)) /\ (h = u => x.role = "admin")
    BY <1>3, <2>1 DEF Adding, Admins
  <2>7. QED
    <3> HIDE DEF p, h
    <3> QED
      BY <1>3, <1>5, <2>1, <2>2, <2>3, <2>4, <2>5, <2>6, StatementAdmins DEF Early, Counted
<1>15. CASE Drop(r)
  <2> DEFINE w == Needs(r)
  <2>1. tx[r].pc = "drop" /\ tx[r].op \in {"add", "delete"}
    BY <1>1, <1>15 DEF Drop, At, Flow
  <2>2. w = (IF tx[r].op = "add" THEN tx[r].old ELSE u) /\ w \in Users
    BY <1>1, <2>1 DEF Needs, TxShape, Tx
  <2>3. \A v \in Locked(w) : owner[v] \in {None, r}
    BY <1>15, <2>1, <2>2, LockFree DEF Drop
  <2>4. Write(r, w, None) /\ Go(r, "commit")
    BY <1>15 DEF Drop
  <2>5. tx'[r].pc = "commit" /\ tx'[r].old = tx[r].old /\ tx'[r].role = tx[r].role
    BY <2>4, GoFields
  <2>6. CASE tx[r].op = "add"
    <3>1. w # u /\ w = tx[r].old /\ tx[r].old # None /\ ~ Removing(tx[r])
      BY <1>1, <1>3, <2>1, <2>2, <2>6 DEF Adding, TxShape, Removing
    <3>2. tx[r].role = "admin" /\ u \in Admins(View(r))
      BY <1>3, <2>1, <2>6, <3>1 DEF Adding
    <3>3. QED
      <4> HIDE DEF w
      <4> QED
        BY <2>1, <2>2, <2>3, <2>4, <2>5, <2>6, <3>1, <3>2, StatementAdmins DEF Early
  <2>7. CASE tx[r].op = "delete"
    <3>1. u \in Admins(db) => Spare(r)
      BY <1>3, <2>1, <2>7 DEF Counted
    <3>2. w = u
      BY <2>2, <2>7
    <3>3. QED
      <4> HIDE DEF w
      <4> QED
        BY <1>5, <2>1, <2>2, <2>3, <2>4, <2>5, <2>7, <3>1, <3>2, StatementAdmins
           DEF Early, Removing
  <2>8. QED
    BY <2>1, <2>6, <2>7
<1>16. QED
  BY <1>2, <1>6, <1>7, <1>8, <1>9, <1>10, <1>11, <1>12, <1>13, <1>14, <1>15, Step(r) DEF Step

\* The end of a request; the table keeps its rows or takes those of r.
LEMMA EndAdmins ==
  ASSUME TypeInv, ColumnInv, AdminInv, OneRemoval, NEW r \in Requests, Release(r),
         \/ UNCHANGED db
         \/ db' = View(r) /\ tx[r].pc = "commit"
  PROVE  AdminInv'
<1>1. /\ \A q \in Requests : tx'[q] = IF q = r THEN Idle ELSE tx[q]
      /\ \A u \in Users : owner'[u] = IF owner[u] = r THEN None ELSE owner[u]
      /\ \A u \in Users : owner[u] # r => work'[u] = work[u]
  BY ReleaseEffect
<1>2. Idle.op \notin {"add", "delete", "update"} /\ Idle.pc \notin Early /\ None \notin Requests
  BY NoneAssumption DEF Idle, Operations, Early
<1>3. \A u \in Users : owner[u] # r => db'[u] = db[u]
  BY DEF View
<1>4. \A q \in Requests, v \in Users :
        View(q)'[v] = IF owner'[v] = q THEN work'[v] ELSE db'[v]
  BY DEF View
<1>5. /\ \A v : v \in Admins(db) <=> v \in Users /\ db[v] # None /\ db[v].role = "admin"
      /\ \A v : v \in Admins(db)' <=> v \in Users /\ db'[v] # None /\ db'[v].role = "admin"
      /\ \A q, v : v \in Admins(View(q)) <=>
           v \in Users /\ View(q)[v] # None /\ View(q)[v].role = "admin"
  BY DEF Admins, Present
<1>6. \A q \in Requests, v \in Users : v \in Admins(View(q))' <=>
        View(q)'[v] # None /\ View(q)'[v].role = "admin"
  BY DEF Admins, Present
<1>7. ASSUME NEW a \in Admins(db), a \notin Admins(db)'
      PROVE  /\ a \in Loses(r) /\ tx[r].pc = "commit" /\ db' = View(r)
             /\ \/ Removing(tx[r]) /\ a = tx[r].target /\ Spare(r)
                \/ tx[r].op = "add" /\ tx[r].target \in Admins(db)'
  <2>1. db' = View(r) /\ tx[r].pc = "commit"
    BY <1>5, <1>7
  <2>2. a \in Loses(r)
    BY <1>5, <1>7, <2>1 DEF Loses
  <2>3. Guarded(r)
    BY DEF AdminInv
  <2>4. CASE tx[r].op = "add"
    <3>1. a = tx[r].old /\ a # None
      BY <1>5, <2>2, <2>3, <2>4, NoneAssumption DEF Guarded, Replaced, Removing
    <3>2. tx[r].target \in Admins(View(r))
      BY <2>1, <2>3, <2>4, <3>1 DEF Guarded, Adding
    <3>3. QED
      BY <1>5, <2>1, <2>2, <2>4, <3>2
  <2>5. CASE tx[r].op # "add"
    BY <2>1, <2>2, <2>3, <2>5 DEF Guarded, Replaced
  <2>6. QED
    BY <2>4, <2>5
<1>8. AdminRemains'
  <2>1. SUFFICES ASSUME Admins(db)' = {} PROVE FALSE
    BY DEF AdminRemains
  <2>2. PICK a \in Admins(db) : TRUE
    BY DEF AdminInv, AdminRemains
  <2>3. Removing(tx[r]) /\ a = tx[r].target /\ Spare(r)
    BY <1>7, <2>1, <2>2
  <2>4. PICK b \in Admins(db) : b # a
    BY <2>3 DEF Spare
  <2>5. b = a
    BY <1>7, <2>1, <2>3, <2>4
  <2>6. QED
    BY <2>4, <2>5
<1>9. Guarded(r)'
  <2>1. tx'[r] = Idle /\ \A v \in Users : owner'[v] # r
    BY <1>1, <1>2
  <2>2. \A v \in Users : View(r)'[v] = db'[v]
    BY <1>4, <2>1
  <2>3. Loses(r)' = {}
    BY <1>5, <1>6, <2>2 DEF Loses
  <2>4. QED
    BY <1>2, <2>1, <2>3 DEF Guarded, Replaced, Adding, Counted, Found, Unwritten, Removing
<1>10. ASSUME NEW q \in Requests, q # r
       PROVE  Guarded(q)'
  <2>1. Guarded(q) /\ tx'[q] = tx[q]
    BY <1>1, <1>10 DEF AdminInv
  <2>2. \A v \in Users : owner[v] = q =>
          owner'[v] = q /\ work'[v] = work[v] /\ db'[v] = db[v] /\ View(q)'[v] = View(q)[v]
    BY <1>1, <1>3, <1>4, <1>10 DEF View
  <2>3. ASSUME NEW v \in Loses(q)'
        PROVE  v \in Loses(q)
    <3>1. v \in Admins(db)' /\ v \notin Admins(View(q))' /\ v \in Users
      BY <1>5, <2>3 DEF Loses
    <3>2. owner'[v] = q
      BY <1>4, <1>5, <1>6, <3>1
    <3>3. owner[v] = q
      BY <1>1, <1>2, <3>1, <3>2
    <3>4. QED
      BY <1>5, <1>6, <2>2, <3>1, <3>3 DEF Loses
  <2>4. Removing(tx[q]) => ~ Removing(tx[r])
    BY <1>10 DEF OneRemoval
  <2>5. Removing(tx[q]) /\ tx[q].pc # "find" /\ Spare(q) => Spare(q)'
    <3>1. SUFFICES ASSUME Removing(tx[q]), tx[q].pc # "find", NEW a \in Admins(db),
                          a # tx[q].target, a \notin Admins(db)'
                   PROVE  Spare(q)'
      BY <2>1 DEF Spare
    <3>2. tx[r].op = "add" /\ tx[r].target \in Admins(db)'
      BY <1>7, <2>4, <3>1
    <3>3. tx[r].target # tx[q].target
      BY <2>1, <3>1, <3>2 DEF Guarded, Found
    <3>4. QED
      BY <2>1, <3>2, <3>3 DEF Spare
  <2>6. Replaced(q)'
    <3>1. SUFFICES ASSUME NEW v \in Loses(q)'
                   PROVE  \/ tx[q].op = "add" /\ tx[q].pc = "commit" /\ v = tx[q].old
                          \/ Removing(tx[q]) /\ v = tx[q].target /\ Spare(q)'
      BY <2>1 DEF Replaced, Removing
    <3>2. v \in Loses(q)
      BY <2>3
    <3>3. \/ tx[q].op = "add" /\ tx[q].pc = "commit" /\ v = tx[q].old
          \/ Removing(tx[q]) /\ v = tx[q].target /\ Spare(q)
      BY <2>1, <3>2 DEF Guarded, Replaced
    <3>4. tx[q].pc # "find"
      <4>1. owner[v] = q /\ v \in Users
        BY <1>5, <3>2 DEF Loses, View
      <4>2. QED
        BY <2>1, <4>1 DEF Guarded, Unwritten, Early
    <3>5. QED
      BY <2>5, <3>3, <3>4
  <2>7. Adding(q)'
    <3>1. SUFFICES ASSUME tx[q].op = "add", tx[q].old # None,
                          tx[q].pc \in {"log", "drop", "commit"}
                   PROVE  tx[q].target \in Admins(View(q))'
      BY <2>1 DEF Adding, Guarded
    <3>2. tx[q].target \in Admins(View(q))
      BY <2>1, <3>1 DEF Adding, Guarded
    <3>3. db[tx[q].target] = None /\ tx[q].target \in Users
      BY <1>5, <3>1, <3>2 DEF ColumnInv, AddInv
    <3>4. owner[tx[q].target] = q
      BY <1>5, <3>2, <3>3 DEF View
    <3>5. QED
      BY <1>5, <1>6, <2>2, <3>2, <3>3, <3>4
  <2>8. Counted(q)'
    <3>1. ASSUME tx[q].op = "delete", tx[q].pc \in {"log", "drop"},
                 tx[q].target \in Admins(db)'
          PROVE  Spare(q)'
      <4> DEFINE u == tx[q].target
      <4>1. Removing(tx[q]) /\ u \in Users /\ ~ Removing(tx[r])
        BY <1>5, <2>4, <3>1 DEF Removing
      <4>2. u \in Admins(db)
        <5>1. SUFFICES ASSUME u \notin Admins(db) PROVE FALSE
          OBVIOUS
        <5>2. db'[u] = View(r)[u]
          BY <1>5, <3>1, <5>1
        <5>3. Cell(tx[r], u, db[u], View(r)[u])
          BY <4>1 DEF ColumnInv, CellInv
        <5>4. View(r)[u] # None /\ View(r)[u].role = "admin"
          BY <1>5, <3>1, <5>2
        <5>5. CASE db[u] = None
          <6>1. tx[r].op = "add" /\ u = tx[r].target
            BY <5>3, <5>4, <5>5 DEF Cell
          <6>2. QED
            BY <2>1, <3>1, <4>1, <6>1 DEF Guarded, Found
        <5>6. CASE db[u] # None
          BY <1>5, <4>1, <5>1, <5>3, <5>4, <5>6 DEF Cell, Removing
        <5>7. QED
          BY <5>5, <5>6
      <4>3. Spare(q)
        BY <2>1, <3>1, <4>2 DEF Guarded, Counted
      <4>4. QED
        BY <2>5, <3>1, <4>1, <4>3
    <3>2. ASSUME tx[q].op = "update", tx[q].pc \in {"unique", "update"}, tx[q].role = "user",
                 tx[q].snap.role # "user"
          PROVE  Spare(q)'
      BY <2>1, <2>5, <3>2 DEF Guarded, Counted, Removing
    <3>3. QED
      BY <2>1, <3>1, <3>2 DEF Counted
  <2>9. Found(q)'
    BY <1>1, <1>2, <2>1 DEF Guarded, Found, Removing
  <2>10. Unwritten(q)'
    BY <1>1, <1>2, <2>1 DEF Guarded, Unwritten
  <2>11. QED
    BY <2>6, <2>7, <2>8, <2>9, <2>10 DEF Guarded
<1>11. QED
  BY <1>8, <1>9, <1>10 DEF AdminInv

\* A slot takes up a request.
LEMMA BeginAdmins ==
  ASSUME TypeInv, ColumnInv, AdminInv, NEW r \in Requests, NEW op, NEW t, Begin(r, op, t),
         Removing(t) => t.pc = "find" /\ (t.target = t.self => t.snap.role = "admin"),
         t.op = "add" => /\ t.old = None
                         /\ \A q \in Requests : tx[q].target # t.target
  PROVE  AdminInv'
<1>1. UNCHANGED <<db, work, owner, gone, retired, delivered>>
  BY DEF Begin
<1>2. \A q \in Requests : tx'[q] = IF q = r THEN t ELSE tx[q]
  BY DEF Begin, TypeInv, TypeOK
<1>3. \A u \in Users : owner[u] # r
  BY DEF Begin, OwnsInv, ColumnInv
<1>4. \A q \in Requests : View(q)' = View(q) /\ Loses(q)' = Loses(q)
  BY <1>1 DEF View, Loses, Admins, Present
<1>5. Loses(r) = {}
  BY <1>3 DEF Loses, View, Admins, Present
<1>6. Guarded(r)'
  <2>1. Replaced(r)' /\ Unwritten(r)'
    BY <1>1, <1>3, <1>4, <1>5 DEF Replaced, Unwritten
  <2>2. Adding(r)' /\ Counted(r)' /\ Found(r)'
    BY <1>2 DEF Adding, Counted, Found, Removing
  <2>3. QED
    BY <2>1, <2>2 DEF Guarded
<1>7. ASSUME NEW q \in Requests, q # r
      PROVE  Guarded(q)'
  <2>1. Guarded(q) /\ tx'[q] = tx[q]
    BY <1>2, <1>7 DEF AdminInv
  <2>2. Replaced(q)' /\ Adding(q)' /\ Counted(q)' /\ Unwritten(q)'
    BY <1>1, <1>4, <2>1
       DEF Guarded, Replaced, Adding, Counted, Unwritten, Spare, Removing, Admins, Present
  <2>3. Found(q)'
    BY <1>2, <2>1 DEF Guarded, Found, Removing
  <2>4. QED
    BY <2>2, <2>3 DEF Guarded
<1>8. AdminRemains'
  BY <1>1 DEF AdminInv, AdminRemains, Admins, Present
<1>9. QED
  BY <1>6, <1>7, <1>8 DEF AdminInv

LEMMA ArriveAdmins ==
  ASSUME TypeInv, ColumnInv, AdminInv, NEW r \in Requests, Arrive(r)
  PROVE  AdminInv'
<1>1. \A t : t.op \in {"login", "refresh", "logout"} => ~ Removing(t) /\ t.op # "add"
  BY DEF Removing
<1>2. CASE Login(r) \/ Refresh(r)
  <2>1. PICK op \in {"login", "refresh"}, u \in Present(db), s \in FreshSids :
          Begin(r, op, [Idle EXCEPT !.pc = "store", !.op = op, !.self = u,
                                    !.target = u, !.sid = s, !.snap = db[u]])
    BY <1>2 DEF Login, Refresh
  <2> DEFINE t == [Idle EXCEPT !.pc = "store", !.op = op, !.self = u,
                               !.target = u, !.sid = s, !.snap = db[u]]
  <2>2. t.op = op
    BY DEF Idle
  <2>3. Begin(r, op, t)
    BY <2>1
  <2>4. QED
    <3> HIDE DEF t
    <3> QED
      BY <1>1, <2>2, <2>3, BeginAdmins
<1>3. CASE Logout(r)
  <2>1. PICK u : Begin(r, "logout", [Idle EXCEPT !.pc = "clear", !.op = "logout", !.self = u,
                                                 !.target = u, !.snap = db[u]])
    BY <1>3 DEF Logout
  <2> DEFINE t == [Idle EXCEPT !.pc = "clear", !.op = "logout", !.self = u,
                               !.target = u, !.snap = db[u]]
  <2>2. t.op = "logout"
    BY DEF Idle
  <2>3. Begin(r, "logout", t)
    BY <2>1
  <2>4. QED
    <3> HIDE DEF t
    <3> QED
      BY <1>1, <2>2, <2>3, BeginAdmins
<1>4. CASE AddUser(r)
  <2>1. PICK a \in AdminCallers, u \in FreshUsers, p \in Payloads :
          Begin(r, "add", [Idle EXCEPT !.pc = "unique", !.op = "add", !.self = a,
                                 !.target = u, !.email = p.email, !.pw = p.pw, !.role = p.role])
    BY <1>4 DEF AddUser
  <2> DEFINE t == [Idle EXCEPT !.pc = "unique", !.op = "add", !.self = a, !.target = u,
                               !.email = p.email, !.pw = p.pw, !.role = p.role]
  <2>2. t.op = "add" /\ t.old = None /\ t.target = u /\ ~ Removing(t)
    BY DEF Idle, Removing
  <2>3. \A q \in Requests : tx[q].target # u
    BY DEF FreshUsers
  <2>4. Begin(r, "add", t)
    BY <2>1
  <2>5. QED
    <3> HIDE DEF t
    <3> QED
      BY <2>2, <2>3, <2>4, BeginAdmins
<1>5. AdminCallers \subseteq Admins(db)
  BY DEF AdminCallers
<1>6. CASE DeleteUser(r)
  <2>1. PICK a \in AdminCallers, u \in Users :
          Begin(r, "delete", [Idle EXCEPT !.pc = "find", !.op = "delete", !.self = a,
                                          !.target = u, !.snap = db[a]])
    BY <1>6 DEF DeleteUser
  <2> DEFINE t == [Idle EXCEPT !.pc = "find", !.op = "delete", !.self = a,
                               !.target = u, !.snap = db[a]]
  <2>2. t.op = "delete" /\ t.pc = "find" /\ t.snap.role = "admin"
    BY <1>5, <2>1 DEF Idle, Admins
  <2>3. Begin(r, "delete", t)
    BY <2>1
  <2>4. QED
    <3> HIDE DEF t
    <3> QED
      BY <2>2, <2>3, BeginAdmins
<1>7. CASE UpdateUser(r)
  <2>1. PICK a \in AdminCallers, u \in Users, p \in Payloads :
          Begin(r, "update", [Idle EXCEPT !.pc = "find", !.op = "update", !.self = a, !.target = u,
                                 !.email = p.email, !.pw = p.pw, !.role = p.role,
                                 !.snap = db[a]])
    BY <1>7 DEF UpdateUser
  <2> DEFINE t == [Idle EXCEPT !.pc = "find", !.op = "update", !.self = a, !.target = u,
                               !.email = p.email, !.pw = p.pw, !.role = p.role,
                               !.snap = db[a]]
  <2>2. t.op = "update" /\ t.pc = "find" /\ t.snap.role = "admin"
    BY <1>5, <2>1 DEF Idle, Admins
  <2>3. Begin(r, "update", t)
    BY <2>1
  <2>4. QED
    <3> HIDE DEF t
    <3> QED
      BY <2>2, <2>3, BeginAdmins
<1>8. QED
  BY <1>2, <1>3, <1>4, <1>6, <1>7, Arrive(r) DEF Arrive

\* There is always an administrator, as CannotRemoveLastAdminError and
\* CannotDemoteLastAdminError promise, as long as no two requests that delete
\* or update users overlap: logins, refreshes, logouts and the addition of
\* users, which removes the default user, may run between any two of their
\* statements, on either backend.
THEOREM AdminKept ==
  ASSUME AdminsFirst
  PROVE  Spec /\ []OneRemoval => []AdminRemains
<1>1. ASSUME Init
      PROVE  AdminInv
  <2>1. \A r \in Requests : tx[r] = Idle
    BY <1>1 DEF Init
  <2>2. \A r \in Requests, u \in Users : owner[u] # r /\ View(r)[u] = db[u]
    BY <1>1, NoneAssumption DEF Init, View
  <2>3. Idle.op \notin {"add", "delete", "update"}
    BY NoneAssumption DEF Idle, Operations
  <2>4. \A r \in Requests : Loses(r) = {}
    BY <2>2 DEF Loses, Admins, Present
  <2>5. \A r \in Requests : Guarded(r)
    BY <2>1, <2>2, <2>3, <2>4
       DEF Guarded, Replaced, Adding, Counted, Found, Unwritten, Removing
  <2>6. AdminRemains
    BY <1>1, AdminsFirst DEF Init, AdminsFirst, AdminRemains
  <2>7. QED
    BY <2>5, <2>6 DEF AdminInv
<1>2. ASSUME TypeInv, ColumnInv, OneRemoval, AdminInv, [Next]_vars
      PROVE  AdminInv'
  <2>1. CASE UNCHANGED vars
    <3>1. \A r \in Requests : View(r)' = View(r) /\ Loses(r)' = Loses(r)
      BY <2>1 DEF vars, View, Loses, Admins, Present
    <3>2. \A r \in Requests : Guarded(r)'
      BY <1>2, <2>1, <3>1
         DEF AdminInv, Guarded, Replaced, Adding, Counted, Found, Unwritten, Removing, Spare,
             Admins, Present, vars
    <3>3. QED
      BY <1>2, <2>1, <3>2 DEF AdminInv, AdminRemains, Admins, Present, vars
  <2>2. CASE Next
    <3>1. PICK r \in Requests : Arrive(r) \/ Step(r) \/ DbError(r)
      BY <2>2 DEF Next
    <3>2. CASE Arrive(r)
      BY <1>2, <3>2, ArriveAdmins
    <3>3. CASE Rollback(r) \/ Commit(r)
      BY <1>2, <3>3, EndAdmins DEF Rollback, Commit
    <3>4. CASE Step(r) /\ ~ Rollback(r) /\ ~ Commit(r)
      BY <1>2, <3>4, StatementForm, MoveAdmins
    <3>5. QED
      BY <3>1, <3>2, <3>3, <3>4 DEF DbError
  <2>3. QED
    BY <1>2, <2>1, <2>2
<1>3. AdminInv => AdminRemains
  BY DEF AdminInv
<1>4. QED
  BY <1>1, <1>2, <1>3, ColumnsHold, PTL DEF Spec
=============================================================================
