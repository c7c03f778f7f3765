---------------------------- MODULE FilesProofs ----------------------------
(***************************************************************************)
(* Proofs about what the server keeps in files of its own: the settings,   *)
(* for any paths, payloads, managers and number of requests, and the pair  *)
(* of JWT keys, for any number of pairs.                                   *)
(***************************************************************************)
EXTENDS Settings, TLAPS

-----------------------------------------------------------------------------
(* The types of Settings *)

Busy == {"schema", "books", "chunks", "insert", "save", "dispose", "publish"}

\* What a request holds at the steps that use it.
Shape(t) ==
  /\ t.pc \in Busy => /\ t.mgr \in Managers /\ t.new \in Managers
                      /\ t.old \in Setting /\ t.draft \in Setting
  /\ t.pc \in {"write", "remove"} => t.mgr \in Managers /\ t.key \in Keys

TypeInv ==
  /\ TypeOK
  /\ \A r \in Requests : Shape(tx[r])
  /\ app = None => \A r \in Requests : tx[r].pc = "idle"

\* A setting names a database.
LEMMA UrlType ==
  ASSUME NEW s \in Setting
  PROVE  Url(s) \in Urls
BY DEF Url, Urls, Setting

\* _apply_payload makes a setting of a setting.
LEMMA AppliedType ==
  ASSUME Parameters, NEW s \in Setting, NEW p \in Payloads
  PROVE  Applied(s, p) \in Setting
BY DEF Parameters, Applied, Setting, Payload

LEMMA IdleType == Idle \in Tx /\ Idle.pc = "idle" /\ Shape(Idle)
BY DEF Idle, Tx, Empty, Database, Steps, Shape, Busy

LEMMA InitType == Parameters /\ Init => TypeInv
<1> SUFFICES ASSUME Parameters, Init
             PROVE  TypeInv
  OBVIOUS
<1>1. file \in Setting
  BY DEF Init, Setting
<1>2. data \in [Urls -> Database]
  BY DEF Init, Empty, Database
<1>3. TypeOK
  BY <1>1, <1>2, IdleType, UrlType DEF Init, TypeOK
<1>4. QED
  BY <1>3, IdleType DEF Init, TypeInv

\* A request that starts.
LEMMA TakeType ==
  ASSUME TypeInv, NEW r \in Requests, NEW t \in Tx, Shape(t), Take(r, t),
         url' \in [Managers -> Urls]
  PROVE  TypeInv'
<1>1. tx' = [tx EXCEPT ![r] = t] /\ app' = app /\ app # None
  BY DEF Take
<1>2. tx \in [Requests -> Tx]
  BY DEF TypeInv, TypeOK
<1>3. tx' \in [Requests -> Tx] /\ tx'[r] = t /\ \A q \in Requests \ {r} : tx'[q] = tx[q]
  BY <1>1, <1>2
<1>4. TypeOK'
  BY <1>3 DEF TypeInv, TypeOK, Take
<1>5. QED
  BY <1>1, <1>3, <1>4 DEF TypeInv

\* A request that goes on, or ends, with t.
LEMMA StepType ==
  ASSUME TypeInv, NEW r \in Requests, tx[r].pc # "idle", NEW t \in Tx, Shape(t),
         tx' = [tx EXCEPT ![r] = t],
         file' \in Setting \cup {Torn}, memory' \in Setting, app' \in Managers,
         UNCHANGED <<local, url>>, pooled' \subseteq Managers, data' \in [Urls -> Database],
         acked' \subseteq Keys, None \notin Managers
  PROVE  TypeInv'
<1>1. tx \in [Requests -> Tx]
  BY DEF TypeInv, TypeOK
<1>2. tx' \in [Requests -> Tx] /\ tx'[r] = t /\ \A q \in Requests \ {r} : tx'[q] = tx[q]
  BY <1>1
<1>3. TypeOK'
  BY <1>2 DEF TypeInv, TypeOK
<1>4. QED
  BY <1>2, <1>3 DEF TypeInv

\* u is t at step pc, with the rows c.
Copied(u, t, c, pc) ==
  /\ u \in Tx /\ u.pc = pc /\ u.copied = c
  /\ u.mgr = t.mgr /\ u.new = t.new /\ u.old = t.old /\ u.draft = t.draft

\* migrate_to keeps what it read and goes on.
LEMMA CopiedType ==
  ASSUME NEW t \in Tx, NEW c \in Database, NEW pc \in Steps
  PROVE  Copied([t EXCEPT !.copied = c, !.pc = pc], t, c, pc)
<1> DEFINE v == [t EXCEPT !.copied = c]
           u == [v EXCEPT !.pc = pc]
<1>1. v \in Tx /\ v.mgr = t.mgr /\ v.new = t.new /\ v.old = t.old /\ v.draft = t.draft
      /\ v.copied = c
  BY DEF Tx
<1>2. [t EXCEPT !.copied = c, !.pc = pc] = u
  OBVIOUS
<1> HIDE DEF v
<1>3. u \in Tx /\ u.pc = pc /\ u.copied = c
      /\ u.mgr = t.mgr /\ u.new = t.new /\ u.old = t.old /\ u.draft = t.draft
  BY <1>1 DEF Tx
<1>4. QED
  BY <1>2, <1>3 DEF Copied

LEMMA NextType ==
  ASSUME Parameters, TypeInv, [Next]_vars
  PROVE  TypeInv'
<1> USE DEF Parameters
<1>0. /\ tx \in [Requests -> Tx] /\ url \in [Managers -> Urls] /\ data \in [Urls -> Database]
      /\ memory \in Setting /\ app \in Managers \cup {None} /\ pooled \subseteq Managers
      /\ file \in Setting \cup {Torn} /\ acked \subseteq Keys /\ local \in Managers
      /\ None \notin Managers
  BY DEF TypeInv, TypeOK
<1>a. \A r \in Requests : tx[r].pc # "idle" => app \in Managers
  BY <1>0 DEF TypeInv
<1>1. CASE Stop
  BY <1>1 DEF Stop, AllIdle, TypeInv, TypeOK
<1>2. CASE Crash
  <2>1. tx' = [r \in Requests |-> Idle] /\ app' = None /\ pooled' = {} /\ file' \in {file, Torn}
        /\ UNCHANGED <<memory, local, url, data, acked>>
    BY <1>2 DEF Crash, Die
  <2>2. tx' \in [Requests -> Tx] /\ \A r \in Requests : tx'[r] = Idle
    BY <2>1, IdleType
  <2>3. TypeOK'
    BY <2>1, <2>2, <1>0 DEF TypeOK
  <2>4. QED
    BY <2>2, <2>3, IdleType DEF TypeInv
<1>3. CASE Start
  <2>1. file \in Setting
    BY <1>3, <1>0 DEF Start
  <2>2. Url(file) \in Urls
    BY <2>1, UrlType
  <2>3. url' \in [Managers -> Urls]
    BY <1>3, <1>0, <2>2 DEF Start
  <2>4. [data[Url(file)] EXCEPT !.users = TRUE] \in Database
    BY <2>2, <1>0 DEF Database
  <2>5. data' = [data EXCEPT ![Url(file)] = [data[Url(file)] EXCEPT !.users = TRUE]]
    BY <1>3 DEF Start
  <2>6. data' \in [Urls -> Database]
    BY <2>4, <2>5, <1>0
  <2>7. TypeOK'
    BY <1>3, <1>0, <2>1, <2>3, <2>6 DEF Start, TypeOK
  <2>8. tx' = tx /\ app = None /\ app' # None
    BY <1>3, <1>0 DEF Start
  <2>9. QED
    BY <2>7, <2>8 DEF TypeInv
<1>4. ASSUME NEW r \in Requests, Add(r)
      PROVE  TypeInv'
  <2>1. PICK k \in Keys \ acked : Take(r, [Idle EXCEPT !.pc = "write", !.mgr = app, !.key = k])
    BY <1>4 DEF Add
  <2> DEFINE t == [Idle EXCEPT !.pc = "write", !.mgr = app, !.key = k]
  <2>2. t \in Tx /\ t.pc = "write" /\ t.mgr = app /\ t.key = k
    BY <1>0, IdleType DEF Tx, Idle, Steps
  <2>3. app \in Managers
    BY <1>0, <2>1 DEF Take
  <2>4. Shape(t)
    BY <2>2, <2>3 DEF Shape, Busy
  <2>5. url' \in [Managers -> Urls]
    BY <1>4, <1>0 DEF Add
  <2> HIDE DEF t
  <2>6. Take(r, t)
    BY <2>1 DEF t
  <2>7. QED
    BY <2>2, <2>4, <2>5, <2>6, TakeType
<1>5. ASSUME NEW r \in Requests, Remove(r)
      PROVE  TypeInv'
  <2>0. app \in Managers
    BY <1>0, <1>5 DEF Remove
  <2>1. PICK k \in data[url[app]].books :
               Take(r, [Idle EXCEPT !.pc = "remove", !.mgr = app, !.key = k])
    BY <1>5 DEF Remove
  <2>a. k \in Keys
    BY <2>0, <2>1, <1>0 DEF Database
  <2> DEFINE t == [Idle EXCEPT !.pc = "remove", !.mgr = app, !.key = k]
  <2>2. t \in Tx /\ t.pc = "remove" /\ t.mgr = app /\ t.key = k
    BY <1>0, <2>a, IdleType DEF Tx, Idle, Steps
  <2>4. Shape(t)
    BY <2>2, <2>0, <2>a DEF Shape, Busy
  <2>5. url' \in [Managers -> Urls]
    BY <1>5, <1>0 DEF Remove
  <2> HIDE DEF t
  <2>6. Take(r, t)
    BY <2>1 DEF t
  <2>7. QED
    BY <2>2, <2>4, <2>5, <2>6, TakeType
<1>6. ASSUME NEW r \in Requests, NEW db \in Database, NEW answered \in SUBSET Keys,
             tx[r].pc \in {"write", "remove"}, Finish(r, db, answered)
      PROVE  TypeInv'
  <2>1. tx[r].mgr \in Managers
    BY <1>6 DEF TypeInv, Shape
  <2>2. data' \in [Urls -> Database] /\ pooled' \subseteq Managers /\ acked' \subseteq Keys
        /\ tx' = [tx EXCEPT ![r] = Idle] /\ UNCHANGED <<file, memory, app, local, url>>
    BY <1>6, <1>0, <2>1 DEF Finish
  <2>3. app \in Managers /\ tx[r].pc # "idle"
    BY <1>6, <1>a
  <2>4. QED
    BY <1>0, <2>2, <2>3, IdleType, StepType
<1>7. ASSUME NEW r \in Requests, Written(r)
      PROVE  TypeInv'
  <2>1. tx[r].pc = "write" /\ tx[r].mgr \in Managers /\ tx[r].key \in Keys
    BY <1>7 DEF Written, TypeInv, Shape
  <2> DEFINE db == data[url[tx[r].mgr]]
             new == [db EXCEPT !.books = @ \cup {tx[r].key}, !.chunks = @ \cup {tx[r].key}]
  <2>2. db \in Database
    BY <2>1, <1>0
  <2>3. new \in Database
    BY <2>1, <2>2 DEF Database
  <2>4. Finish(r, new, acked \cup {tx[r].key})
    BY <1>7 DEF Written
  <2>5. acked \cup {tx[r].key} \in SUBSET Keys
    BY <1>0, <2>1
  <2> HIDE DEF new
  <2>6. QED
    BY <1>6, <2>1, <2>3, <2>4, <2>5
<1>8. ASSUME NEW r \in Requests, Removed(r)
      PROVE  TypeInv'
  <2>1. tx[r].pc = "remove" /\ tx[r].mgr \in Managers
    BY <1>8 DEF Removed, TypeInv, Shape
  <2> DEFINE db == data[url[tx[r].mgr]]
             new == [db EXCEPT !.books = @ \ {tx[r].key}, !.chunks = @ \ {tx[r].key}]
  <2>2. db \in Database
    BY <2>1, <1>0
  <2>3. new \in Database
    BY <2>1, <2>2 DEF Database
  <2>4. Finish(r, new, acked \ {tx[r].key})
    BY <1>8 DEF Removed
  <2>5. acked \ {tx[r].key} \in SUBSET Keys
    BY <1>0
  <2> HIDE DEF new
  <2>6. QED
    BY <1>6, <2>1, <2>3, <2>4, <2>5
<1>9. ASSUME NEW r \in Requests, Patch(r)
      PROVE  TypeInv'
  <2>1. PICK p \in Payloads, m \in FreshManagers :
          /\ Take(r, [Idle EXCEPT !.pc = "schema", !.mgr = app, !.old = memory,
                                  !.draft = Applied(memory, p), !.new = m])
          /\ url' = [url EXCEPT ![m] = Url(Applied(memory, p))]
    BY <1>9 DEF Patch
  <2> DEFINE d == Applied(memory, p)
  <2>2. d \in Setting /\ Url(d) \in Urls
    BY <1>0, AppliedType, UrlType
  <2>3. m \in Managers /\ app \in Managers
    BY <1>0, <2>1 DEF FreshManagers, Take
  <2> HIDE DEF d
  <2> DEFINE t == [Idle EXCEPT !.pc = "schema", !.mgr = app, !.old = memory,
                               !.draft = d, !.new = m]
  <2>4. t \in Tx /\ t.pc = "schema" /\ t.mgr = app /\ t.old = memory /\ t.draft = d /\ t.new = m
    BY <1>0, <2>2, <2>3, IdleType DEF Tx, Idle, Steps
  <2>5. Shape(t)
    BY <2>2, <2>3, <2>4, <1>0 DEF Shape, Busy
  <2>6. Take(r, t) /\ url' = [url EXCEPT ![m] = Url(d)]
    BY <2>1 DEF d
  <2> HIDE DEF t
  <2>7. url' \in [Managers -> Urls]
    BY <2>2, <2>3, <2>6, <1>0
  <2>8. QED
    BY <2>4, <2>5, <2>6, <2>7, TakeType
<1>10. ASSUME NEW r \in Requests, NEW pc \in Busy, tx[r].pc \in Busy, Go(r, pc),
              file' \in Setting \cup {Torn}, memory' \in Setting, app' \in Managers,
              UNCHANGED <<local, url>>, pooled' \subseteq Managers, data' \in [Urls -> Database],
              acked' \subseteq Keys
       PROVE  TypeInv'
  <2> DEFINE t == [tx[r] EXCEPT !.pc = pc]
  <2>1. t \in Tx /\ t.pc = pc /\ t.mgr = tx[r].mgr /\ t.new = tx[r].new /\ t.old = tx[r].old
        /\ t.draft = tx[r].draft
    BY <1>0, <1>10 DEF Tx, Busy, Steps
  <2>2. tx[r].mgr \in Managers /\ tx[r].new \in Managers
        /\ tx[r].old \in Setting /\ tx[r].draft \in Setting /\ tx[r].pc # "idle"
    BY <1>10 DEF TypeInv, Shape, Busy
  <2>3. Shape(t)
    BY <2>1, <2>2, <1>10 DEF Shape, Busy
  <2>4. tx' = [tx EXCEPT ![r] = t]
    BY <1>10, <1>0 DEF Go
  <2> HIDE DEF t
  <2>5. QED
    BY <1>0, <1>10, <2>1, <2>2, <2>3, <2>4, StepType
<1>11. ASSUME NEW r \in Requests, tx[r].pc \in Busy, Fail(r), file' \in {file, Torn},
              memory' \in Setting
       PROVE  TypeInv'
  <2>1. app \in Managers /\ tx[r].pc # "idle"
    BY <1>11, <1>a DEF Busy
  <2>2. QED
    BY <1>0, <1>11, <2>1, IdleType, StepType DEF Fail
<1>12. ASSUME NEW r \in Requests, Schema(r)
       PROVE  TypeInv'
  <2>1. PICK pc \in {"books", "save"} : Go(r, pc)
    BY <1>12 DEF Schema
  <2>2. tx[r].pc \in Busy /\ pc \in Busy /\ app \in Managers
    BY <1>12, <1>a DEF Schema, Busy
  <2>3. QED
    BY <1>0, <1>10, <1>12, <2>1, <2>2 DEF Schema
<1>13. ASSUME NEW r \in Requests, ReadBooks(r)
       PROVE  TypeInv'
  <2>1. tx[r].pc = "books" /\ tx[r].mgr \in Managers /\ tx[r].new \in Managers
        /\ tx[r].old \in Setting /\ tx[r].draft \in Setting
    BY <1>13 DEF ReadBooks, TypeInv, Shape, Busy
  <2> DEFINE c == [data[url[tx[r].mgr]] EXCEPT !.chunks = {}]
             t == [tx[r] EXCEPT !.copied = c, !.pc = "chunks"]
  <2>2. c \in Database
    BY <2>1, <1>0 DEF Database
  <2>3. tx' = [tx EXCEPT ![r] = t]
    BY <1>13, <1>0 DEF ReadBooks
  <2> HIDE DEF c
  <2>4. t \in Tx /\ t.pc = "chunks" /\ t.mgr = tx[r].mgr /\ t.new = tx[r].new /\ t.old = tx[r].old
        /\ t.draft = tx[r].draft
    <3>1. tx[r] \in Tx /\ "chunks" \in Steps
      BY <1>0 DEF Steps
    <3>2. Copied(t, tx[r], c, "chunks")
      BY <3>1, <2>2, CopiedType, Zenon
    <3>3. QED
      BY <3>2 DEF Copied
  <2>5. Shape(t)
    BY <2>1, <2>4 DEF Shape, Busy
  <2> HIDE DEF t
  <2>6. app \in Managers
    BY <2>1, <1>a
  <2>7. QED
    BY <1>0, <1>13, <2>1, <2>3, <2>4, <2>5, <2>6, StepType DEF ReadBooks
<1>14. ASSUME NEW r \in Requests, ReadChunks(r)
       PROVE  TypeInv'
  <2>1. tx[r].pc = "chunks" /\ tx[r].mgr \in Managers /\ tx[r].new \in Managers
        /\ tx[r].old \in Setting /\ tx[r].draft \in Setting
    BY <1>14 DEF ReadChunks, TypeInv, Shape, Busy
  <2> DEFINE c == [tx[r].copied EXCEPT !.chunks = data[url[tx[r].mgr]].chunks]
             t == [tx[r] EXCEPT !.copied = c, !.pc = "insert"]
  <2>2. tx[r].copied \in Database /\ data[url[tx[r].mgr]].chunks \in SUBSET Keys
    BY <2>1, <1>0 DEF Database, Tx
  <2>a. c \in Database
    BY <2>2 DEF Database
  <2>3. tx' = [tx EXCEPT ![r] = t]
    BY <1>14, <1>0 DEF ReadChunks
  <2> HIDE DEF c
  <2>4. t \in Tx /\ t.pc = "insert" /\ t.mgr = tx[r].mgr /\ t.new = tx[r].new /\ t.old = tx[r].old
        /\ t.draft = tx[r].draft
    <3>1. tx[r] \in Tx /\ "insert" \in Steps
      BY <1>0 DEF Steps
    <3>2. Copied(t, tx[r], c, "insert")
      BY <3>1, <2>a, CopiedType, Zenon
    <3>3. QED
      BY <3>2 DEF Copied
  <2>5. Shape(t)
    BY <2>1, <2>4 DEF Shape, Busy
  <2> HIDE DEF t
  <2>6. app \in Managers
    BY <2>1, <1>a
  <2>7. QED
    BY <1>0, <1>14, <2>1, <2>3, <2>4, <2>5, <2>6, StepType DEF ReadChunks
<1>15. ASSUME NEW r \in Requests, Copy(r)
       PROVE  TypeInv'
  <2>1. tx[r].pc = "insert" /\ tx[r].pc \in Busy /\ tx[r].new \in Managers /\ app \in Managers
    BY <1>15, <1>a DEF Copy, TypeInv, Shape, Busy
  <2> DEFINE target == data[url[tx[r].new]]
             rows == tx[r].copied
             filled == [users |-> target.users \/ rows.users,
                        books |-> target.books \cup rows.books,
                        chunks |-> target.chunks \cup rows.chunks]
  <2>2. target \in Database /\ rows \in Database
    BY <2>1, <1>0 DEF Tx
  <2>3. filled \in Database
    <3>1. target.users \in BOOLEAN /\ rows.users \in BOOLEAN
      BY <2>2 DEF Database
    <3>2. target.books \cup rows.books \in SUBSET Keys
          /\ target.chunks \cup rows.chunks \in SUBSET Keys
      BY <2>2 DEF Database
    <3>3. (target.users \/ rows.users) \in BOOLEAN
      BY <3>1
    <3>4. QED
      BY <3>2, <3>3 DEF Database
  <2>4. CASE Refused(rows, target)
    BY <1>0, <1>11, <1>15, <2>1, <2>4 DEF Copy
  <2>5. CASE ~ Refused(rows, target)
    <3>1. data' = [data EXCEPT ![url[tx[r].new]] = filled] /\ Go(r, "save")
          /\ UNCHANGED <<file, memory, app, local, url, pooled, acked>>
      BY <1>15, <2>5 DEF Copy
    <3> HIDE DEF filled
    <3>2. data' \in [Urls -> Database]
      BY <2>3, <3>1, <1>0
    <3>3. "save" \in Busy
      BY DEF Busy
    <3>4. QED
      BY <1>0, <1>10, <2>1, <3>1, <3>2, <3>3
  <2>6. QED
    BY <2>4, <2>5
<1>16. ASSUME NEW r \in Requests, Save(r)
       PROVE  TypeInv'
  <2>1. tx[r].pc \in Busy /\ tx[r].draft \in Setting /\ app \in Managers /\ "dispose" \in Busy
    BY <1>16, <1>a DEF Save, TypeInv, Shape, Busy
  <2>2. QED
    BY <1>0, <1>10, <1>16, <2>1 DEF Save
<1>17. ASSUME NEW r \in Requests, Unsaved(r)
       PROVE  TypeInv'
  <2>1. tx[r].pc \in Busy /\ tx[r].old \in Setting
    BY <1>17 DEF Unsaved, TypeInv, Shape, Busy
  <2>2. QED
    BY <1>11, <1>17, <2>1 DEF Unsaved
<1>18. ASSUME NEW r \in Requests, Dispose(r)
       PROVE  TypeInv'
  <2>1. tx[r].pc \in Busy /\ app \in Managers /\ "publish" \in Busy
    BY <1>18, <1>a DEF Dispose, Busy
  <2>2. QED
    BY <1>0, <1>10, <1>18, <2>1 DEF Dispose
<1>19. ASSUME NEW r \in Requests, Publish(r)
       PROVE  TypeInv'
  <2>1. tx[r].pc # "idle" /\ tx[r].new \in Managers
    BY <1>19 DEF Publish, TypeInv, Shape, Busy
  <2>2. QED
    BY <1>0, <1>19, <2>1, IdleType, StepType DEF Publish
<1>20. ASSUME NEW r \in Requests, Error(r)
       PROVE  TypeInv'
  <2>1. tx[r].pc \in Busy
    BY <1>20 DEF Error, Busy
  <2>2. QED
    BY <1>0, <1>11, <1>20, <2>1 DEF Error
<1>21. CASE UNCHANGED vars
  BY <1>21 DEF vars, TypeInv, TypeOK
<1>22. QED
  BY <1>1, <1>2, <1>3, <1>4, <1>5, <1>7, <1>8, <1>9, <1>12, <1>13, <1>14, <1>15, <1>16, <1>17,
     <1>18, <1>19, <1>20, <1>21 DEF Next

\* The state of the settings and of the databases is always one the code
\* knows, for any paths, payloads and number of requests at a time.
THEOREM TypeCorrect ==
  ASSUME Parameters
  PROVE  Spec => []TypeOK
<1>1. Init => TypeInv
  BY InitType
<1>2. TypeInv /\ [Next]_vars => TypeInv'
  BY NextType
<1>3. TypeInv => TypeOK
  BY DEF TypeInv
<1>4. QED
  BY <1>1, <1>2, <1>3, PTL DEF Spec

-----------------------------------------------------------------------------
(* Settings that agree *)

\* The requests that are changing the settings.
Patches == {r \in Requests : tx[r].pc \in Busy}

\* No two of them overlap.
OnePatch == \A r, q \in Patches : r = q

\* Settings in memory, file and database agree.
Settled == url[app] = Url(memory) /\ file \in {memory, Torn}

\* A PATCH leaves them alone until it has saved, and then has made the new ones.
PatchShape(t) ==
  /\ t.mgr = app /\ url[t.new] = Url(t.draft)
  /\ IF t.pc \in {"dispose", "publish"} THEN memory = t.draft /\ file = t.draft
     ELSE memory = t.old /\ Settled

AgreeInv ==
  /\ app # None /\ Patches = {} => Settled
  /\ \A r \in Patches : PatchShape(tx[r])

\* A request that neither starts nor ends a PATCH, nor is one.
LEMMA OtherStep ==
  ASSUME AgreeInv, tx \in [Requests -> Tx], NEW r \in Requests, NEW t,
         tx' = [tx EXCEPT ![r] = t], tx[r].pc \notin Busy, t.pc \notin Busy,
         UNCHANGED <<file, memory, app, url>>
  PROVE  AgreeInv'
<1>1. tx'[r] = t /\ \A q \in Requests \ {r} : tx'[q] = tx[q]
  OBVIOUS
<1>2. Patches' = Patches /\ \A q \in Patches : tx'[q] = tx[q]
  BY <1>1 DEF Patches
<1>3. QED
  BY <1>2 DEF AgreeInv, PatchShape, Settled

\* The only PATCH goes on with t.
LEMMA PatchStep ==
  ASSUME OnePatch, tx \in [Requests -> Tx], NEW r \in Patches, NEW t,
         tx' = [tx EXCEPT ![r] = t], t.pc \in Busy, PatchShape(t)'
  PROVE  AgreeInv'
<1>1. r \in Requests /\ tx'[r] = t /\ \A q \in Requests \ {r} : tx'[q] = tx[q]
  BY DEF Patches
<1>2. Patches = {r}
  BY DEF OnePatch
<1>3. Patches' = {r}
  BY <1>1, <1>2 DEF Patches
<1>4. QED
  BY <1>1, <1>3 DEF AgreeInv

\* The only PATCH ends.
LEMMA PatchEnds ==
  ASSUME OnePatch, tx \in [Requests -> Tx], NEW r \in Patches,
         tx' = [tx EXCEPT ![r] = Idle], Settled'
  PROVE  AgreeInv'
<1>1. r \in Requests /\ tx'[r] = Idle /\ \A q \in Requests \ {r} : tx'[q] = tx[q]
  BY DEF Patches
<1>2. Patches = {r}
  BY DEF OnePatch
<1>3. Patches' = {}
  BY <1>1, <1>2, IdleType DEF Patches, Busy
<1>4. QED
  BY <1>3 DEF AgreeInv

LEMMA AgreeInit == Init => AgreeInv
<1> SUFFICES ASSUME Init
             PROVE  AgreeInv
  OBVIOUS
<1>1. Patches = {}
  BY IdleType DEF Init, Patches, Busy
<1>2. Settled
  BY DEF Init, Settled
<1>3. QED
  BY <1>1, <1>2 DEF AgreeInv

LEMMA AgreeNext ==
  ASSUME Parameters, TypeInv, AgreeInv, OnePatch, OnePatch', [Next]_vars
  PROVE  AgreeInv'
<1>0. /\ tx \in [Requests -> Tx] /\ url \in [Managers -> Urls]
      /\ app \in Managers \cup {None} /\ None \notin Managers
  BY DEF TypeInv, TypeOK, Parameters
<1>a. \A r \in Patches : r \in Requests /\ tx[r].pc \in Busy /\ PatchShape(tx[r])
  BY DEF AgreeInv, Patches
<1>b. \A r \in Requests : tx[r].pc = "idle" => r \notin Patches
  BY DEF Patches, Busy
<1>1. CASE Stop
  <2>1. Patches' = {} /\ app' = None
    BY <1>1 DEF Stop, AllIdle, Patches, Busy
  <2>2. QED
    BY <2>1 DEF AgreeInv
<1>2. CASE Crash
  <2>1. tx' = [r \in Requests |-> Idle] /\ app' = None
    BY <1>2 DEF Crash, Die
  <2>2. Patches' = {}
    BY <2>1, IdleType DEF Patches, Busy
  <2>3. QED
    BY <2>1, <2>2 DEF AgreeInv
<1>3. CASE Start
  <2>1. \A r \in Requests : tx[r].pc = "idle"
    BY <1>3 DEF Start, TypeInv
  <2>2. Patches' = {}
    BY <1>3, <2>1 DEF Start, Patches, Busy
  <2>3. Settled'
    BY <1>3, <1>0 DEF Start, Settled
  <2>4. QED
    BY <2>2, <2>3 DEF AgreeInv
<1>4. ASSUME NEW r \in Requests, NEW t, t.pc \notin Busy, Take(r, t), UNCHANGED url
      PROVE  AgreeInv'
  <2>1. tx' = [tx EXCEPT ![r] = t] /\ tx[r].pc \notin Busy /\ UNCHANGED <<file, memory, app, url>>
    BY <1>4 DEF Take, Busy
  <2>2. QED
    BY <1>0, <1>4, <2>1, OtherStep
<1>5. ASSUME NEW r \in Requests, Add(r)
      PROVE  AgreeInv'
  <2>1. PICK k : Take(r, [Idle EXCEPT !.pc = "write", !.mgr = app, !.key = k])
    BY <1>5 DEF Add
  <2> DEFINE t == [Idle EXCEPT !.pc = "write", !.mgr = app, !.key = k]
  <2>2. t.pc \notin Busy
    BY DEF Idle, Busy
  <2>3. Take(r, t) /\ UNCHANGED url
    BY <1>5, <2>1 DEF Add
  <2> HIDE DEF t
  <2>4. QED
    BY <1>4, <2>2, <2>3
<1>6. ASSUME NEW r \in Requests, Remove(r)
      PROVE  AgreeInv'
  <2>1. PICK k : Take(r, [Idle EXCEPT !.pc = "remove", !.mgr = app, !.key = k])
    BY <1>6 DEF Remove
  <2> DEFINE t == [Idle EXCEPT !.pc = "remove", !.mgr = app, !.key = k]
  <2>2. t.pc \notin Busy
    BY DEF Idle, Busy
  <2>3. Take(r, t) /\ UNCHANGED url
    BY <1>6, <2>1 DEF Remove
  <2> HIDE DEF t
  <2>4. QED
    BY <1>4, <2>2, <2>3
<1>7. ASSUME NEW r \in Requests, Written(r) \/ Removed(r)
      PROVE  AgreeInv'
  <2>1. tx' = [tx EXCEPT ![r] = Idle] /\ UNCHANGED <<file, memory, app, url>>
    BY <1>7 DEF Written, Removed, Finish
  <2>2. tx[r].pc \notin Busy /\ Idle.pc \notin Busy
    BY <1>7, IdleType DEF Written, Removed, Busy
  <2>3. QED
    BY <1>0, <2>1, <2>2, OtherStep
<1>8. ASSUME NEW r \in Requests, Patch(r)
      PROVE  AgreeInv'
  <2>1. PICK p \in Payloads, m \in FreshManagers :
          /\ Take(r, [Idle EXCEPT !.pc = "schema", !.mgr = app, !.old = memory,
                                  !.draft = Applied(memory, p), !.new = m])
          /\ url' = [url EXCEPT ![m] = Url(Applied(memory, p))]
    BY <1>8 DEF Patch
  <2>a. PICK d : d = Applied(memory, p)
    OBVIOUS
  <2>b. PICK t : t = [Idle EXCEPT !.pc = "schema", !.mgr = app, !.old = memory,
                                  !.draft = d, !.new = m]
    OBVIOUS
  <2>2. t.pc = "schema" /\ t.mgr = app /\ t.old = memory /\ t.draft = d /\ t.new = m
    BY <2>b DEF Idle
  <2>3. Take(r, t) /\ url' = [url EXCEPT ![m] = Url(d)]
    BY <2>1, <2>a, <2>b
  <2>4. /\ tx' = [tx EXCEPT ![r] = t] /\ tx[r].pc = "idle" /\ app # None
        /\ UNCHANGED <<file, memory, app>>
    BY <2>3 DEF Take
  <2>5. m \in Managers /\ m # app /\ app \in Managers
    BY <1>0, <2>4 DEF FreshManagers
  <2>6. url'[m] = Url(d) /\ url'[app] = url[app]
    BY <1>0, <2>3, <2>5
  <2>7. tx'[r] = t /\ \A q \in Requests \ {r} : tx'[q] = tx[q]
    BY <1>0, <2>4
  <2>8. r \in Patches' /\ r \notin Patches
    BY <1>b, <2>2, <2>4, <2>7 DEF Patches, Busy
  <2>9. \A q \in Patches : q \in Patches'
    BY <2>7, <2>8 DEF Patches
  <2>10. Patches = {} /\ Patches' = {r}
    <3>1. \A q \in Patches' : q = r
      BY <2>8 DEF OnePatch
    <3>2. QED
      BY <2>8, <2>9, <3>1
  <2>11. Settled
    BY <2>4, <2>10 DEF AgreeInv
  <2>12. Settled'
    BY <2>4, <2>6, <2>11 DEF Settled
  <2>13. PatchShape(t)'
    BY <2>2, <2>4, <2>6, <2>12 DEF PatchShape
  <2>14. QED
    BY <2>7, <2>10, <2>13 DEF AgreeInv
<1>9. ASSUME NEW r \in Patches, NEW t, tx' = [tx EXCEPT ![r] = t], t.pc \in Busy,
             t.mgr = tx[r].mgr, t.new = tx[r].new, t.old = tx[r].old, t.draft = tx[r].draft,
             tx[r].pc \in {"dispose", "publish"} <=> t.pc \in {"dispose", "publish"},
             UNCHANGED <<file, memory, app, url>>
      PROVE  AgreeInv'
  <2>1. PatchShape(tx[r])
    BY <1>a
  <2>2. PatchShape(t)'
    BY <1>9, <2>1 DEF PatchShape, Settled
  <2>3. QED
    BY <1>0, <1>9, <2>2, PatchStep
<1>10. ASSUME NEW r \in Patches, NEW pc \in Busy, Go(r, pc),
              tx[r].pc \in {"dispose", "publish"} <=> pc \in {"dispose", "publish"},
              UNCHANGED <<file, memory, app, url>>
       PROVE  AgreeInv'
  <2> DEFINE t == [tx[r] EXCEPT !.pc = pc]
  <2>1. t.pc = pc /\ t.mgr = tx[r].mgr /\ t.new = tx[r].new /\ t.old = tx[r].old
        /\ t.draft = tx[r].draft
    BY <1>0, <1>a DEF Tx
  <2>2. tx' = [tx EXCEPT ![r] = t]
    BY <1>10, <1>0, <1>a DEF Go
  <2> HIDE DEF t
  <2>3. QED
    BY <1>9, <1>10, <2>1, <2>2
<1>11. ASSUME NEW r \in Patches, Fail(r), tx[r].pc \notin {"dispose", "publish"},
              memory' = memory, file' \in {file, Torn}
       PROVE  AgreeInv'
  <2>1. tx' = [tx EXCEPT ![r] = Idle] /\ UNCHANGED <<app, url>>
    BY <1>11 DEF Fail
  <2>2. Settled
    BY <1>a, <1>11 DEF PatchShape
  <2>3. Settled'
    BY <1>11, <2>1, <2>2 DEF Settled
  <2>4. QED
    BY <1>0, <2>1, <2>3, PatchEnds
<1>c. ASSUME NEW r \in Requests, tx[r].pc \in Busy
      PROVE  r \in Patches
  BY <1>c DEF Patches
<1>12. ASSUME NEW r \in Requests, Schema(r)
       PROVE  AgreeInv'
  <2>1. PICK pc \in {"books", "save"} : Go(r, pc)
    BY <1>12 DEF Schema
  <2>2. tx[r].pc = "schema" /\ tx[r].pc \in Busy /\ pc \in Busy
        /\ UNCHANGED <<file, memory, app, url>>
    BY <1>12 DEF Schema, Busy
  <2>3. QED
    BY <1>c, <1>10, <2>1, <2>2
<1>13. ASSUME NEW r \in Requests, NEW c \in Database, NEW pc \in Busy \ {"dispose", "publish"},
              tx[r].pc \in Busy \ {"dispose", "publish"},
              tx' = [tx EXCEPT ![r] = [tx[r] EXCEPT !.copied = c, !.pc = pc]],
              UNCHANGED <<file, memory, app, url>>
       PROVE  AgreeInv'
  <2> DEFINE t == [tx[r] EXCEPT !.copied = c, !.pc = pc]
  <2>1. tx[r] \in Tx /\ pc \in Steps
    BY <1>0, <1>13 DEF Steps, Busy
  <2>2. Copied(t, tx[r], c, pc)
    BY <2>1, CopiedType, Zenon
  <2>3. tx' = [tx EXCEPT ![r] = t]
    BY <1>13
  <2> HIDE DEF t
  <2>4. r \in Patches
    BY <1>c, <1>13
  <2>5. QED
    BY <1>9, <1>13, <2>2, <2>3, <2>4 DEF Copied
<1>14. ASSUME NEW r \in Requests, ReadBooks(r)
       PROVE  AgreeInv'
  <2>1. tx[r].pc = "books" /\ tx[r].mgr \in Managers
    BY <1>14 DEF ReadBooks, TypeInv, Shape, Busy
  <2> DEFINE c == [data[url[tx[r].mgr]] EXCEPT !.chunks = {}]
  <2>2. c \in Database
    BY <2>1 DEF TypeInv, TypeOK, Database
  <2>3. tx' = [tx EXCEPT ![r] = [tx[r] EXCEPT !.copied = c, !.pc = "chunks"]]
    BY <1>14, <1>0 DEF ReadBooks
  <2> HIDE DEF c
  <2>4. tx[r].pc \in Busy \ {"dispose", "publish"} /\ "chunks" \in Busy \ {"dispose", "publish"}
        /\ UNCHANGED <<file, memory, app, url>>
    BY <1>14, <2>1 DEF ReadBooks, Busy
  <2>5. QED
    BY <1>13, <2>2, <2>3, <2>4
<1>15. ASSUME NEW r \in Requests, ReadChunks(r)
       PROVE  AgreeInv'
  <2>1. tx[r].pc = "chunks" /\ tx[r].mgr \in Managers
    BY <1>15 DEF ReadChunks, TypeInv, Shape, Busy
  <2> DEFINE c == [tx[r].copied EXCEPT !.chunks = data[url[tx[r].mgr]].chunks]
  <2>2. tx[r].copied \in Database /\ data[url[tx[r].mgr]].chunks \in SUBSET Keys
    BY <2>1, <1>0 DEF TypeInv, TypeOK, Database, Tx
  <2>a. c \in Database
    BY <2>2 DEF Database
  <2>3. tx' = [tx EXCEPT ![r] = [tx[r] EXCEPT !.copied = c, !.pc = "insert"]]
    BY <1>15, <1>0 DEF ReadChunks
  <2> HIDE DEF c
  <2>4. tx[r].pc \in Busy \ {"dispose", "publish"} /\ "insert" \in Busy \ {"dispose", "publish"}
        /\ UNCHANGED <<file, memory, app, url>>
    BY <1>15, <2>1 DEF ReadChunks, Busy
  <2>5. QED
    BY <1>13, <2>a, <2>3, <2>4
<1>16. ASSUME NEW r \in Requests, Copy(r)
       PROVE  AgreeInv'
  <2>1. tx[r].pc = "insert" /\ r \in Patches /\ UNCHANGED <<file, memory>>
    BY <1>16, <1>c DEF Copy, Busy
  <2>2. CASE Fail(r)
    BY <1>11, <2>1, <2>2
  <2>3. CASE Go(r, "save") /\ UNCHANGED <<app, url>>
    BY <1>10, <2>1, <2>3 DEF Busy
  <2>4. QED
    BY <1>16, <2>2, <2>3 DEF Copy
<1>17. ASSUME NEW r \in Requests, Save(r)
       PROVE  AgreeInv'
  <2>1. tx[r].pc = "save" /\ r \in Patches /\ PatchShape(tx[r])
    BY <1>17, <1>a, <1>c DEF Save, Busy
  <2>a. PICK t : t = [tx[r] EXCEPT !.pc = "dispose"]
    OBVIOUS
  <2>2. t.pc = "dispose" /\ t.mgr = tx[r].mgr /\ t.new = tx[r].new /\ t.draft = tx[r].draft
    BY <2>a, <1>0 DEF Tx
  <2>3. tx' = [tx EXCEPT ![r] = t]
    BY <1>17, <1>0, <2>a DEF Save, Go
  <2>4. memory' = tx[r].draft /\ file' = tx[r].draft /\ UNCHANGED <<app, url>>
    BY <1>17 DEF Save
  <2>5. PatchShape(t)'
    BY <2>1, <2>2, <2>4 DEF PatchShape
  <2>6. t.pc \in Busy
    BY <2>2 DEF Busy
  <2>7. QED
    BY <1>0, <2>1, <2>3, <2>5, <2>6, PatchStep
<1>18. ASSUME NEW r \in Requests, Unsaved(r)
       PROVE  AgreeInv'
  <2>1. tx[r].pc = "save" /\ r \in Patches /\ memory' = tx[r].old /\ file' \in {file, Torn}
        /\ Fail(r)
    BY <1>18, <1>c DEF Unsaved, Busy
  <2>2. memory = tx[r].old
    BY <1>a, <2>1 DEF PatchShape
  <2>3. QED
    BY <1>11, <2>1, <2>2
<1>19. ASSUME NEW r \in Requests, Dispose(r)
       PROVE  AgreeInv'
  BY <1>10, <1>19, <1>c DEF Dispose, Busy
<1>20. ASSUME NEW r \in Requests, Publish(r)
       PROVE  AgreeInv'
  <2>1. tx[r].pc = "publish" /\ r \in Patches /\ PatchShape(tx[r])
    BY <1>20, <1>a, <1>c DEF Publish, Busy
  <2>2. tx' = [tx EXCEPT ![r] = Idle] /\ app' = tx[r].new /\ UNCHANGED <<file, memory, url>>
    BY <1>20 DEF Publish
  <2>3. Settled'
    BY <2>1, <2>2 DEF Settled, PatchShape
  <2>4. QED
    BY <1>0, <2>1, <2>2, <2>3, PatchEnds
<1>21. ASSUME NEW r \in Requests, Error(r)
       PROVE  AgreeInv'
  BY <1>11, <1>21, <1>c DEF Error, Busy
<1>22. CASE UNCHANGED vars
  BY <1>22 DEF vars, AgreeInv, Patches, PatchShape, Settled
<1>23. QED
  BY <1>1, <1>2, <1>3, <1>5, <1>6, <1>7, <1>8, <1>12, <1>14, <1>15, <1>16, <1>17,
     <1>18, <1>19, <1>20, <1>21, <1>22 DEF Next

\* As long as no two PATCHes overlap, settings in memory, config.ini and the
\* database of the requests agree between them, whatever step of the last one
\* failed and wherever the process was killed.
THEOREM SettingsKept ==
  ASSUME Parameters
  PROVE  Spec /\ []OnePatch => []SettingsAgree
<1>1. Init => TypeInv /\ AgreeInv
  BY InitType, AgreeInit
<1>2. TypeInv /\ AgreeInv /\ OnePatch /\ OnePatch' /\ [Next]_vars => (TypeInv /\ AgreeInv)'
  BY NextType, AgreeNext
<1>3. TypeInv /\ AgreeInv => SettingsAgree
  <2> SUFFICES ASSUME TypeInv, AgreeInv, app # None, ~ Patching
               PROVE  url[app] = Url(memory) /\ file \in {memory, Torn}
    BY DEF SettingsAgree
  <2>1. Patches = {}
    BY DEF Patching, Patches, Busy
  <2>2. QED
    BY <2>1 DEF AgreeInv, Settled
<1>4. QED
  BY <1>1, <1>2, <1>3, PTL DEF Spec

-----------------------------------------------------------------------------
(* Data that follow a change of backend *)

\* No request runs beside a PATCH; requests that write may overlap.
PatchAlone == \A r \in Patches, q \in Requests : tx[q].pc # "idle" => q = r

\* No payload asks for another file: the code copies nothing then.
PathsKept == \A p \in Payloads : p.path = None

Full(u) == data[u] = [users |-> TRUE, books |-> acked, chunks |-> acked]

\* The databases in use have everything, and one without users has nothing.
Stored ==
  /\ \A u \in Urls : ~ data[u].users => data[u] = Empty
  /\ app # None => Full(url[app])
  /\ file # Torn => Full(Url(file))

\* What a request carries to its end.
Carries(t) ==
  /\ t.pc \in {"write", "remove"} => t.mgr = app
  /\ t.pc \in Busy => t.old.path = t.draft.path
  /\ t.pc \in {"books", "chunks", "insert"} => url[t.new] # url[app]
  /\ t.pc = "chunks" => t.copied = [users |-> TRUE, books |-> acked, chunks |-> {}]
  /\ t.pc = "insert" => t.copied = [users |-> TRUE, books |-> acked, chunks |-> acked]
  /\ t.pc \in {"save", "dispose", "publish"} => Full(url[t.new])

DataInv == Stored /\ \A r \in Requests : Carries(tx[r])

LEMMA IdleCarries ==
  ASSUME NEW t, t.pc = "idle"
  PROVE  Carries(t)
BY DEF Carries, Busy

\* A request goes on, or ends, with t; the others write in the same database.
LEMMA WriteStep ==
  ASSUME tx \in [Requests -> Tx], NEW r \in Requests, NEW t,
         \A q \in Requests \ {r} : Carries(tx[q]) /\ tx[q].pc \notin Busy,
         tx' = [tx EXCEPT ![r] = t], app' = app, Carries(t)', Stored'
  PROVE  DataInv'
<1>1. tx'[r] = t /\ \A q \in Requests \ {r} : tx'[q] = tx[q]
  OBVIOUS
<1>2. Carries(tx[r])'
  BY <1>1
<1>3. \A q \in Requests \ {r} : Carries(tx[q])'
  BY <1>1 DEF Carries, Busy
<1>4. QED
  BY <1>2, <1>3 DEF DataInv

\* The only request goes on, or ends, with t.
LEMMA DataStep ==
  ASSUME tx \in [Requests -> Tx], NEW r \in Requests, NEW t,
         \A q \in Requests \ {r} : tx[q].pc = "idle",
         tx' = [tx EXCEPT ![r] = t], Carries(t)', Stored'
  PROVE  DataInv'
<1>1. tx'[r] = t /\ \A q \in Requests \ {r} : tx'[q].pc = "idle"
  OBVIOUS
<1>2. \A q \in Requests : Carries(tx[q])'
  <2> SUFFICES ASSUME NEW q \in Requests
               PROVE  Carries(tx[q])'
    OBVIOUS
  <2>1. CASE q = r
    BY <1>1, <2>1
  <2>2. CASE q # r
    <3>1. tx'[q].pc = "idle"
      BY <1>1, <2>2
    <3>2. QED
      BY <3>1 DEF Carries, Busy
  <2>3. QED
    BY <2>1, <2>2
<1>3. QED
  BY <1>2 DEF DataInv

\* Nothing that Stored is about changes.
LEMMA StoredKept ==
  ASSUME Stored, UNCHANGED <<app, data, acked, file>>, app # None => url'[app] = url[app]
  PROVE  Stored'
BY DEF Stored, Full, Url

\* The rows of a database of which some tables are replaced.
LEMMA RowsSame ==
  ASSUME NEW db \in Database
  PROVE  [db EXCEPT !.users = db.users] = db
BY DEF Database

LEMMA RowsChunks ==
  ASSUME NEW db \in Database, NEW d
  PROVE  [db EXCEPT !.chunks = d] = [users |-> db.users, books |-> db.books, chunks |-> d]
BY DEF Database

LEMMA RowsBoth ==
  ASSUME NEW db \in Database, db.users = TRUE, NEW d \in SUBSET Keys
  PROVE  [db EXCEPT !.books = d, !.chunks = d] = [users |-> TRUE, books |-> d, chunks |-> d]
<1> DEFINE n == [db EXCEPT !.books = d]
<1>1. n \in Database /\ n.users = TRUE /\ n.books = d
  BY DEF Database
<1>2. [db EXCEPT !.books = d, !.chunks = d] = [n EXCEPT !.chunks = d]
  OBVIOUS
<1> HIDE DEF n
<1>3. [n EXCEPT !.chunks = d] = [users |-> TRUE, books |-> d, chunks |-> d]
  BY <1>1, RowsChunks
<1>4. QED
  BY <1>2, <1>3

LEMMA DataInit == Parameters /\ Init => DataInv
<1> SUFFICES ASSUME Parameters, Init
             PROVE  DataInv
  OBVIOUS
<1>1. file \in Setting /\ Url(file) \in Urls
  BY InitType, UrlType DEF Init, Setting
<1>2. PICK m \in Managers : app = m /\ url = [n \in Managers |-> Url(file)]
  BY DEF Init
<1>3. url[app] = Url(file)
  BY <1>2
<1>4. data = [u \in Urls |-> [Empty EXCEPT !.users = (u = Url(file))]] /\ acked = {}
  BY DEF Init
<1>5. Full(Url(file))
  BY <1>1, <1>4 DEF Full, Empty
<1>6. \A u \in Urls : ~ data[u].users => data[u] = Empty
  BY <1>4 DEF Empty
<1>7. Stored
  BY <1>3, <1>5, <1>6 DEF Stored
<1>8. \A r \in Requests : Carries(tx[r])
  BY IdleType, IdleCarries DEF Init
<1>9. QED
  BY <1>7, <1>8 DEF DataInv

LEMMA DataNext ==
  ASSUME Parameters, PathsKept, TypeInv, AgreeInv, DataInv, PatchAlone, PatchAlone', [Next]_vars
  PROVE  DataInv'
<1>0. /\ tx \in [Requests -> Tx] /\ url \in [Managers -> Urls] /\ data \in [Urls -> Database]
      /\ memory \in Setting /\ app \in Managers \cup {None} /\ None \notin Managers
      /\ file \in Setting \cup {Torn} /\ acked \subseteq Keys
  BY DEF TypeInv, TypeOK, Parameters
<1>a. Stored /\ \A r \in Requests : Carries(tx[r])
  BY DEF DataInv
<1>b. ASSUME NEW r \in Requests, tx[r].pc \in Busy
      PROVE  app \in Managers /\ \A q \in Requests \ {r} : tx[q].pc = "idle"
  BY <1>b, <1>0 DEF PatchAlone, Patches, TypeInv, Busy
<1>c. ASSUME NEW r \in Requests, tx[r].pc \in Busy
      PROVE  PatchShape(tx[r]) /\ tx[r].new \in Managers /\ tx[r].old \in Setting
             /\ tx[r].draft \in Setting
  BY <1>c DEF AgreeInv, Patches, TypeInv, Shape
<1>d. ASSUME NEW r \in Requests, tx[r].pc \in {"write", "remove"}
      PROVE  app \in Managers /\ \A q \in Requests \ {r} : Carries(tx[q]) /\ tx[q].pc \notin Busy
  BY <1>d, <1>0, <1>a DEF PatchAlone, Patches, TypeInv
<1>1. CASE Stop
  <2>1. app' = None /\ UNCHANGED <<file, data, acked, tx, url>> /\ \A r \in Requests : tx[r].pc = "idle"
    BY <1>1 DEF Stop, AllIdle
  <2>2. Stored'
    BY <1>a, <2>1 DEF Stored, Full, Url
  <2>3. \A r \in Requests : Carries(tx[r])'
    BY <2>1 DEF Carries, Busy
  <2>4. QED
    BY <2>2, <2>3 DEF DataInv
<1>2. CASE Crash
  <2>1. app' = None /\ file' \in {file, Torn} /\ UNCHANGED <<data, acked>>
        /\ tx' = [r \in Requests |-> Idle]
    BY <1>2 DEF Crash, Die
  <2>2. Stored'
    BY <1>a, <2>1 DEF Stored, Full, Url
  <2>3. \A r \in Requests : tx'[r].pc = "idle"
    BY <2>1, IdleType
  <2>4. \A r \in Requests : Carries(tx[r])'
    BY <2>3 DEF Carries, Busy
  <2>5. QED
    BY <2>2, <2>4 DEF DataInv
<1>3. CASE Start
  <2>1. /\ app = None /\ file # Torn /\ UNCHANGED <<file, acked, tx>>
        /\ data' = [data EXCEPT ![Url(file)].users = TRUE]
    BY <1>3 DEF Start
  <2>2. file \in Setting /\ Url(file) \in Urls /\ Full(Url(file))
    BY <1>0, <1>a, <2>1, UrlType DEF Stored
  <2>3. data' = data
    <3>a. data[Url(file)] \in Database
      BY <1>0, <2>2
    <3>b. data[Url(file)].users = TRUE
      BY <2>2 DEF Full
    <3>1. [data[Url(file)] EXCEPT !.users = TRUE] = data[Url(file)]
      BY <3>a, <3>b, RowsSame
    <3>2. data' = [data EXCEPT ![Url(file)] = [data[Url(file)] EXCEPT !.users = TRUE]]
      BY <2>1
    <3>3. QED
      BY <1>0, <3>1, <3>2
  <2>4. PICK m \in Managers : app' = m /\ url' = [url EXCEPT ![m] = Url(file)]
    BY <1>3 DEF Start
  <2>5. url'[app'] = Url(file)
    BY <1>0, <2>4
  <2>6. Url(file)' = Url(file)
    BY <2>1 DEF Url
  <2>7. Stored'
    BY <1>a, <2>1, <2>2, <2>3, <2>5, <2>6 DEF Stored, Full
  <2>8. \A r \in Requests : tx'[r].pc = "idle"
    BY <2>1 DEF TypeInv
  <2>9. \A r \in Requests : Carries(tx[r])'
    BY <2>8 DEF Carries, Busy
  <2>10. QED
    BY <2>7, <2>9 DEF DataInv
<1>4. ASSUME NEW r \in Requests, NEW t, t.pc # "idle", Take(r, t), Carries(t)',
             url'[app] = url[app]
      PROVE  DataInv'
  <2>1. tx' = [tx EXCEPT ![r] = t] /\ UNCHANGED <<file, app, data, acked>>
    BY <1>4 DEF Take
  <2>2. tx'[r] = t /\ \A q \in Requests \ {r} : tx'[q] = tx[q]
    BY <1>0, <2>1
  <2>3. \A q \in Requests \ {r} : Carries(tx[q]) /\ tx[q].pc \notin Busy
    BY <1>4, <1>a, <2>2 DEF PatchAlone, Patches
  <2>4. Stored'
    BY <1>4, <1>a, <2>1, StoredKept
  <2>5. QED
    BY <1>0, <1>4, <2>1, <2>3, <2>4, WriteStep
<1>5. ASSUME NEW r \in Requests, NEW k, NEW pc \in {"write", "remove"}, UNCHANGED url,
             Take(r, [Idle EXCEPT !.pc = pc, !.mgr = app, !.key = k])
      PROVE  DataInv'
  <2>1. PICK t : t = [Idle EXCEPT !.pc = pc, !.mgr = app, !.key = k]
    OBVIOUS
  <2>2. t.pc = pc /\ t.mgr = app
    BY <2>1 DEF Idle
  <2>3. Take(r, t) /\ app' = app
    BY <1>5, <2>1 DEF Take
  <2>4. Carries(t)'
    BY <2>2, <2>3, <1>5 DEF Carries, Busy
  <2>5. t.pc # "idle" /\ url'[app] = url[app]
    BY <2>2, <1>5
  <2>6. QED
    BY <1>4, <2>3, <2>4, <2>5
<1>6. ASSUME NEW r \in Requests, Add(r)
      PROVE  DataInv'
  BY <1>5, <1>6 DEF Add
<1>7. ASSUME NEW r \in Requests, Remove(r)
      PROVE  DataInv'
  BY <1>5, <1>7 DEF Remove
\* A commit in the database in use and its answer.
<1>8. ASSUME NEW r \in Requests, NEW answered \in SUBSET Keys, tx[r].pc \in {"write", "remove"},
             Finish(r, [users |-> TRUE, books |-> answered, chunks |-> answered], answered)
      PROVE  DataInv'
  <2>1. /\ tx[r].mgr = app /\ app \in Managers
        /\ \A q \in Requests \ {r} : Carries(tx[q]) /\ tx[q].pc \notin Busy
    BY <1>8, <1>a, <1>d DEF Carries
  <2>2. Patches = {}
    BY <1>8, <2>1 DEF Patches, Busy
  <2>3. url[app] = Url(memory) /\ file \in {memory, Torn}
    BY <1>0, <2>1, <2>2 DEF AgreeInv, Settled
  <2>4. /\ data' = [data EXCEPT ![url[app]] = [users |-> TRUE, books |-> answered, chunks |-> answered]]
        /\ acked' = answered /\ tx' = [tx EXCEPT ![r] = Idle]
        /\ UNCHANGED <<file, memory, app, url>>
    BY <1>8, <2>1 DEF Finish
  <2>5. url[app] \in Urls
    BY <1>0, <2>1
  <2>6. Full(url[app])'
    BY <1>0, <2>4, <2>5 DEF Full
  <2>7. file # Torn => Url(file) = url[app] /\ Url(file)' = Url(file)
    BY <2>3, <2>4 DEF Url
  <2>8. \A u \in Urls : ~ data'[u].users => data'[u] = Empty
    BY <1>0, <1>a, <2>4, <2>5 DEF Stored
  <2>9. Stored'
    BY <2>4, <2>6, <2>7, <2>8 DEF Stored, Full
  <2>10. Carries(Idle)'
    BY IdleType DEF Carries, Busy, Idle
  <2>11. QED
    BY <1>0, <2>1, <2>4, <2>9, <2>10, WriteStep
<1>9. ASSUME NEW r \in Requests, Written(r)
      PROVE  DataInv'
  <2>1. tx[r].pc = "write" /\ tx[r].mgr = app /\ tx[r].key \in Keys
    BY <1>9, <1>a DEF Written, Carries, TypeInv, Shape
  <2>2. app \in Managers /\ Full(url[app])
    BY <1>a, <1>d, <1>0, <2>1 DEF Stored
  <2> DEFINE n == acked \cup {tx[r].key}
             db == data[url[app]]
  <2>a. db \in Database /\ n \in SUBSET Keys
    BY <1>0, <2>1, <2>2
  <2>b. db.users = TRUE /\ db.books = acked /\ db.chunks = acked
    BY <2>2 DEF Full
  <2>c. [db EXCEPT !.books = n, !.chunks = n] = [users |-> TRUE, books |-> n, chunks |-> n]
    BY <2>a, <2>b, RowsBoth, Zenon
  <2>3. [db EXCEPT !.books = @ \cup {tx[r].key}, !.chunks = @ \cup {tx[r].key}]
          = [users |-> TRUE, books |-> n, chunks |-> n]
    BY <2>b, <2>c
  <2>4. Finish(r, [users |-> TRUE, books |-> n, chunks |-> n], n)
    BY <1>9, <2>1, <2>3 DEF Written
  <2>5. n \in SUBSET Keys
    BY <1>0, <2>1
  <2> HIDE DEF n
  <2>6. QED
    BY <1>8, <2>1, <2>4, <2>5
<1>10. ASSUME NEW r \in Requests, Removed(r)
       PROVE  DataInv'
  <2>1. tx[r].pc = "remove" /\ tx[r].mgr = app
    BY <1>10, <1>a DEF Removed, Carries
  <2>2. app \in Managers /\ Full(url[app])
    BY <1>a, <1>d, <1>0, <2>1 DEF Stored
  <2> DEFINE n == acked \ {tx[r].key}
             db == data[url[app]]
  <2>a. db \in Database /\ n \in SUBSET Keys
    BY <1>0, <2>1, <2>2
  <2>b. db.users = TRUE /\ db.books = acked /\ db.chunks = acked
    BY <2>2 DEF Full
  <2>c. [db EXCEPT !.books = n, !.chunks = n] = [users |-> TRUE, books |-> n, chunks |-> n]
    BY <2>a, <2>b, RowsBoth, Zenon
  <2>3. [db EXCEPT !.books = @ \ {tx[r].key}, !.chunks = @ \ {tx[r].key}]
          = [users |-> TRUE, books |-> n, chunks |-> n]
    BY <2>b, <2>c
  <2>4. Finish(r, [users |-> TRUE, books |-> n, chunks |-> n], n)
    BY <1>10, <2>1, <2>3 DEF Removed
  <2>5. n \in SUBSET Keys
    BY <1>0
  <2> HIDE DEF n
  <2>6. QED
    BY <1>8, <2>1, <2>4, <2>5
<1>11. ASSUME NEW r \in Requests, Patch(r)
       PROVE  DataInv'
  <2>1. PICK p \in Payloads, m \in FreshManagers :
          /\ Take(r, [Idle EXCEPT !.pc = "schema", !.mgr = app, !.old = memory,
                                  !.draft = Applied(memory, p), !.new = m])
          /\ url' = [url EXCEPT ![m] = Url(Applied(memory, p))]
    BY <1>11 DEF Patch
  <2>2. PICK d : d = Applied(memory, p)
    OBVIOUS
  <2>3. d.path = memory.path
    BY <2>2 DEF Applied, PathsKept
  <2>4. PICK t : t = [Idle EXCEPT !.pc = "schema", !.mgr = app, !.old = memory,
                                  !.draft = d, !.new = m]
    OBVIOUS
  <2>5. t.pc = "schema" /\ t.old = memory /\ t.draft = d
    BY <2>4 DEF Idle
  <2>6. Take(r, t) /\ url' = [url EXCEPT ![m] = Url(d)]
    BY <2>1, <2>2, <2>4
  <2>7. m # app /\ app \in Managers
    BY <1>0, <2>6 DEF FreshManagers, Take
  <2>8. url'[app] = url[app]
    BY <1>0, <2>6, <2>7
  <2>9. Carries(t)'
    BY <2>3, <2>5 DEF Carries
  <2>10. QED
    BY <1>4, <2>5, <2>6, <2>8, <2>9
\* A PATCH that fails.
<1>12. ASSUME NEW r \in Requests, tx[r].pc \in Busy, Fail(r), file' \in {file, Torn}
       PROVE  DataInv'
  <2>1. tx' = [tx EXCEPT ![r] = Idle] /\ UNCHANGED <<app, url, data, acked>>
    BY <1>12 DEF Fail
  <2>2. Stored'
    BY <1>12, <1>a, <2>1 DEF Stored, Full, Url
  <2>3. Carries(Idle)'
    BY IdleType DEF Carries, Busy, Idle
  <2>4. \A q \in Requests \ {r} : tx[q].pc = "idle"
    BY <1>12, <1>b DEF Busy
  <2>5. QED
    BY <1>0, <2>1, <2>2, <2>3, <2>4, DataStep
<1>13. ASSUME NEW r \in Requests, Schema(r)
       PROVE  DataInv'
  <2>1. tx[r].pc = "schema" /\ tx[r].pc \in Busy /\ UNCHANGED <<file, app, url, data, acked>>
    BY <1>13 DEF Schema, Busy
  <2>2. PICK pc : pc = IF tx[r].old.backend # tx[r].draft.backend /\ url[tx[r].mgr] # url[tx[r].new]
                       THEN "books" ELSE "save"
    OBVIOUS
  <2>3. PICK t : t = [tx[r] EXCEPT !.pc = pc]
    OBVIOUS
  <2>4. t.pc = pc /\ t.new = tx[r].new /\ t.old = tx[r].old /\ t.draft = tx[r].draft
    BY <1>0, <2>3 DEF Tx
  <2>5. tx' = [tx EXCEPT ![r] = t]
    BY <1>13, <1>0, <2>2, <2>3 DEF Schema, Go
  <2>6. /\ tx[r].mgr = app /\ url[tx[r].new] = Url(tx[r].draft)
        /\ memory = tx[r].old /\ url[app] = Url(memory)
    BY <1>c, <2>1 DEF PatchShape, Settled
  <2>7. tx[r].old.path = tx[r].draft.path
    BY <1>a, <2>1 DEF Carries
  <2>8. app \in Managers /\ Full(url[app]) /\ \A q \in Requests \ {r} : tx[q].pc = "idle"
    BY <1>0, <1>a, <1>b, <2>1 DEF Stored
  <2>9. Carries(t)'
    <3>1. CASE pc = "books"
      <4>1. url[tx[r].new] # url[app]
        BY <2>2, <2>6, <3>1
      <4>2. QED
        BY <2>1, <2>4, <2>7, <3>1, <4>1 DEF Carries
    <3>2. CASE pc = "save"
      <4>1. url[tx[r].new] = url[app]
        BY <2>2, <2>6, <2>7, <3>2 DEF Url
      <4>2. QED
        BY <2>1, <2>4, <2>7, <2>8, <3>2, <4>1 DEF Carries, Full
    <3>3. QED
      BY <2>2, <3>1, <3>2
  <2>10. Stored'
    BY <1>a, <2>1, StoredKept
  <2>11. QED
    BY <1>0, <2>5, <2>8, <2>9, <2>10, DataStep
\* The copy reads the database in use.
<1>14. ASSUME NEW r \in Requests, NEW c \in Database, NEW pc \in {"chunks", "insert"},
              tx[r].pc \in {"books", "chunks"},
              tx' = [tx EXCEPT ![r] = [tx[r] EXCEPT !.copied = c, !.pc = pc]],
              UNCHANGED <<file, app, url, data, acked>>,
              c = [users |-> TRUE, books |-> acked,
                   chunks |-> IF pc = "chunks" THEN {} ELSE acked]
       PROVE  DataInv'
  <2>1. PICK t : t = [tx[r] EXCEPT !.copied = c, !.pc = pc]
    OBVIOUS
  <2>2. tx[r] \in Tx /\ pc \in Steps
    BY <1>0, <1>14 DEF Steps
  <2>3. Copied(t, tx[r], c, pc)
    BY <2>1, <2>2, CopiedType, Zenon
  <2>4. tx[r].old.path = tx[r].draft.path /\ url[tx[r].new] # url[app]
    BY <1>a, <1>14 DEF Carries, Busy
  <2>5. Carries(t)'
    BY <1>14, <2>3, <2>4 DEF Carries, Copied
  <2>6. Stored'
    BY <1>a, <1>14, StoredKept
  <2>7. \A q \in Requests \ {r} : tx[q].pc = "idle"
    BY <1>b, <1>14 DEF Busy
  <2>8. tx' = [tx EXCEPT ![r] = t]
    BY <1>14, <2>1
  <2>9. QED
    BY <1>0, <2>5, <2>6, <2>7, <2>8, DataStep
<1>15. ASSUME NEW r \in Requests, ReadBooks(r)
       PROVE  DataInv'
  <2>1. tx[r].pc = "books" /\ tx[r].pc \in Busy /\ UNCHANGED <<file, app, url, data, acked>>
    BY <1>15 DEF ReadBooks, Busy
  <2>2. tx[r].mgr = app /\ app \in Managers /\ Full(url[app])
    BY <1>0, <1>a, <1>b, <1>c, <2>1 DEF PatchShape, Stored
  <2> DEFINE c == [data[url[app]] EXCEPT !.chunks = {}]
  <2>a. data[url[app]] \in Database /\ data[url[app]].users = TRUE /\ data[url[app]].books = acked
    BY <1>0, <2>2 DEF Full
  <2>3. c = [users |-> TRUE, books |-> acked, chunks |-> {}]
    BY <2>a, RowsChunks
  <2>4. c \in Database
    BY <1>0, <2>3 DEF Database
  <2>5. tx' = [tx EXCEPT ![r] = [tx[r] EXCEPT !.copied = c, !.pc = "chunks"]]
    BY <1>15, <1>0, <2>2 DEF ReadBooks
  <2> HIDE DEF c
  <2>6. QED
    BY <1>14, <2>1, <2>3, <2>4, <2>5
<1>16. ASSUME NEW r \in Requests, ReadChunks(r)
       PROVE  DataInv'
  <2>1. tx[r].pc = "chunks" /\ tx[r].pc \in Busy /\ UNCHANGED <<file, app, url, data, acked>>
    BY <1>16 DEF ReadChunks, Busy
  <2>2. tx[r].mgr = app /\ app \in Managers /\ Full(url[app])
    BY <1>0, <1>a, <1>b, <1>c, <2>1 DEF PatchShape, Stored
  <2>a. tx[r].copied = [users |-> TRUE, books |-> acked, chunks |-> {}]
    BY <1>a, <2>1 DEF Carries
  <2> DEFINE c == [tx[r].copied EXCEPT !.chunks = data[url[app]].chunks]
  <2>b. tx[r].copied \in Database /\ tx[r].copied.users = TRUE /\ tx[r].copied.books = acked
        /\ data[url[app]].chunks = acked
    BY <1>0, <2>2, <2>a DEF Full, Database
  <2>3. c = [users |-> TRUE, books |-> acked, chunks |-> acked]
    BY <2>b, RowsChunks
  <2>4. c \in Database
    BY <1>0, <2>3 DEF Database
  <2>5. tx' = [tx EXCEPT ![r] = [tx[r] EXCEPT !.copied = c, !.pc = "insert"]]
    BY <1>16, <1>0, <2>2 DEF ReadChunks
  <2> HIDE DEF c
  <2>6. QED
    BY <1>14, <2>1, <2>3, <2>4, <2>5
\* A PATCH whose new database has everything goes on.
<1>17. ASSUME NEW r \in Requests, tx[r].pc \in Busy, NEW pc \in {"save", "dispose", "publish"},
              Go(r, pc), UNCHANGED <<app, url>>, Stored',
              data'[url[tx[r].new]] = [users |-> TRUE, books |-> acked', chunks |-> acked']
       PROVE  DataInv'
  <2>1. PICK t : t = [tx[r] EXCEPT !.pc = pc]
    OBVIOUS
  <2>2. t.pc = pc /\ t.new = tx[r].new /\ t.old = tx[r].old /\ t.draft = tx[r].draft
    BY <1>0, <2>1 DEF Tx
  <2>3. tx' = [tx EXCEPT ![r] = t]
    BY <1>17, <1>0, <2>1 DEF Go
  <2>4. tx[r].old.path = tx[r].draft.path
    BY <1>a, <1>17 DEF Carries
  <2>5. Full(url[t.new])'
    BY <1>17, <2>2 DEF Full
  <2>6. Carries(t)'
    BY <1>17, <2>2, <2>4, <2>5 DEF Carries
  <2>7. \A q \in Requests \ {r} : tx[q].pc = "idle"
    BY <1>b, <1>17 DEF Busy
  <2>8. QED
    BY <1>0, <1>17, <2>3, <2>6, <2>7, DataStep
<1>18. ASSUME NEW r \in Requests, Copy(r)
       PROVE  DataInv'
  <2>1. tx[r].pc = "insert" /\ tx[r].pc \in Busy /\ UNCHANGED <<file, memory>>
    BY <1>18 DEF Copy, Busy
  <2> DEFINE target == data[url[tx[r].new]]
             rows == tx[r].copied
             full == [users |-> TRUE, books |-> acked, chunks |-> acked]
             filled == [users |-> target.users \/ rows.users,
                        books |-> target.books \cup rows.books,
                        chunks |-> target.chunks \cup rows.chunks]
  <2>2. CASE Refused(rows, target)
    <3>1. Fail(r)
      BY <1>18, <2>2 DEF Copy
    <3>2. QED
      BY <1>12, <2>1, <3>1
  <2>3. CASE ~ Refused(rows, target)
    <3>1. rows = full /\ url[tx[r].new] # url[app]
      BY <1>a, <2>1 DEF Carries
    <3>2. rows.users = TRUE /\ rows.books = acked /\ rows.chunks = acked
      BY <3>1
    <3>3. tx[r].new \in Managers /\ url[tx[r].new] \in Urls /\ app \in Managers
      BY <1>0, <1>b, <1>c, <2>1
    <3>4. ~ target.users
      BY <2>3, <3>2 DEF Refused
    <3>5. target = Empty
      BY <1>a, <3>3, <3>4 DEF Stored
    <3>6. target.books = {} /\ target.chunks = {}
      BY <3>5 DEF Empty
    <3>7. filled = full
      BY <3>2, <3>6
    <3>8. data' = [data EXCEPT ![url[tx[r].new]] = full] /\ Go(r, "save")
          /\ UNCHANGED <<app, url, acked>>
      BY <1>18, <2>3, <3>7 DEF Copy
    <3>9. data'[url[tx[r].new]] = full /\ \A u \in Urls \ {url[tx[r].new]} : data'[u] = data[u]
      BY <1>0, <3>3, <3>8
    <3>10. file \in {memory, Torn} /\ url[app] = Url(memory) /\ Full(url[app])
      BY <1>0, <1>a, <1>c, <2>1, <3>3 DEF PatchShape, Settled, Stored
    <3>11. url[app] \in Urls
      BY <1>0, <3>3
    <3>12. Full(url[app])'
      BY <3>1, <3>8, <3>9, <3>10, <3>11 DEF Full
    <3>13. file # Torn => Url(file) = url[app] /\ Url(file)' = Url(file)
      BY <2>1, <3>10 DEF Url
    <3>14. \A u \in Urls : ~ data'[u].users => data'[u] = Empty
      BY <1>a, <3>9 DEF Stored
    <3>15. Stored'
      BY <2>1, <3>8, <3>12, <3>13, <3>14 DEF Stored, Full
    <3>16. data'[url[tx[r].new]] = [users |-> TRUE, books |-> acked', chunks |-> acked']
      BY <3>8, <3>9
    <3>17. "save" \in {"save", "dispose", "publish"}
      OBVIOUS
    <3>18. QED
      BY <1>17, <2>1, <3>8, <3>15, <3>16, <3>17
  <2>4. QED
    BY <2>2, <2>3
<1>20. ASSUME NEW r \in Requests, Save(r)
       PROVE  DataInv'
  <2>1. /\ tx[r].pc = "save" /\ tx[r].pc \in Busy /\ file' = tx[r].draft /\ Go(r, "dispose")
        /\ UNCHANGED <<app, url, data, acked>>
    BY <1>20 DEF Save, Busy
  <2>2. url[tx[r].new] = Url(tx[r].draft) /\ Full(url[tx[r].new])
    BY <1>a, <1>c, <2>1 DEF PatchShape, Carries
  <2>3. Full(Url(file))'
    BY <2>1, <2>2 DEF Full, Url
  <2>4. Stored'
    BY <1>a, <2>1, <2>3 DEF Stored, Full
  <2>5. data'[url[tx[r].new]] = [users |-> TRUE, books |-> acked', chunks |-> acked']
    BY <2>1, <2>2 DEF Full
  <2>6. QED
    BY <1>17, <2>1, <2>4, <2>5
<1>21. ASSUME NEW r \in Requests, Unsaved(r)
       PROVE  DataInv'
  BY <1>12, <1>21 DEF Unsaved, Busy
<1>22. ASSUME NEW r \in Requests, Dispose(r)
       PROVE  DataInv'
  <2>1. /\ tx[r].pc = "dispose" /\ tx[r].pc \in Busy /\ Go(r, "publish")
        /\ UNCHANGED <<file, app, url, data, acked>>
    BY <1>22 DEF Dispose, Busy
  <2>2. Full(url[tx[r].new])
    BY <1>a, <2>1 DEF Carries
  <2>3. Stored'
    BY <1>a, <2>1, StoredKept
  <2>4. data'[url[tx[r].new]] = [users |-> TRUE, books |-> acked', chunks |-> acked']
    BY <2>1, <2>2 DEF Full
  <2>5. QED
    BY <1>17, <2>1, <2>3, <2>4
<1>23. ASSUME NEW r \in Requests, Publish(r)
       PROVE  DataInv'
  <2>1. /\ tx[r].pc = "publish" /\ app' = tx[r].new /\ tx' = [tx EXCEPT ![r] = Idle]
        /\ UNCHANGED <<file, url, data, acked>>
    BY <1>23 DEF Publish
  <2>2. Full(url[tx[r].new]) /\ \A q \in Requests \ {r} : tx[q].pc = "idle"
    BY <1>a, <1>b, <2>1 DEF Carries, Busy
  <2>3. Stored'
    BY <1>a, <2>1, <2>2 DEF Stored, Full, Url
  <2>4. Carries(Idle)'
    BY IdleType DEF Carries, Busy, Idle
  <2>5. QED
    BY <1>0, <2>1, <2>2, <2>3, <2>4, DataStep
<1>24. ASSUME NEW r \in Requests, Error(r)
       PROVE  DataInv'
  BY <1>12, <1>24 DEF Error, Busy
<1>25. CASE UNCHANGED vars
  BY <1>25 DEF vars, DataInv, Stored, Carries, Full, Url
<1>26. QED
  BY <1>1, <1>2, <1>3, <1>6, <1>7, <1>9, <1>10, <1>11, <1>13, <1>15, <1>16, <1>18,
     <1>20, <1>21, <1>22, <1>23, <1>24, <1>25 DEF Next

\* As long as no request runs beside a PATCH, and no PATCH asks for another
\* file, the database in use and the one the next start opens hold every book
\* that was acknowledged, with its chunks, and no other: no change of backend,
\* failed, killed or done, loses, tears or resurrects one.
THEOREM DataKept ==
  ASSUME Parameters, PathsKept
  PROVE  Spec /\ []PatchAlone => []DataFollows
<1>1. Init => TypeInv /\ AgreeInv /\ DataInv
  BY InitType, AgreeInit, DataInit
<1>2. PatchAlone => OnePatch
  BY DEF PatchAlone, OnePatch, Patches, Busy
<1>3. PatchAlone' => OnePatch'
  BY DEF PatchAlone, OnePatch, Patches, Busy
<1>4. TypeInv /\ AgreeInv /\ DataInv /\ PatchAlone /\ PatchAlone' /\ [Next]_vars
        => (TypeInv /\ AgreeInv /\ DataInv)'
  BY <1>2, <1>3, NextType, AgreeNext, DataNext
<1>5. DataInv => DataFollows
  BY DEF DataInv, Stored, DataFollows, Full
<1>6. QED
  BY <1>1, <1>4, <1>5, PTL DEF Spec

-----------------------------------------------------------------------------
(* The pair of keys *)

CONSTANTS Pairs, Missing

VARIABLES private, public, step, draft, signing, verifying, tokens

K == INSTANCE KeyFiles

\* The public key is the mark of a finished pair: while it is missing no token
\* has been signed, and once it is there nothing is written any more.
Finished ==
  /\ public # Missing => step \in {"down", "up"} /\ private \in Pairs /\ public \in {private, Torn}
  /\ public = Missing => step # "up" /\ tokens = {}
  /\ tokens \subseteq {private}

\* What the process holds in memory at each of its steps.
Memory ==
  /\ step \in {"private", "public"} => draft \in Pairs
  /\ step = "public" => private = draft
  /\ step = "up" => signing = private /\ verifying = public

KeyInv == K!TypeOK /\ Finished /\ Memory

LEMMA KeyInit == K!Parameters /\ K!Init => KeyInv
BY DEF K!Parameters, K!Init, KeyInv, K!TypeOK, Finished, Memory, K!Contents

LEMMA KeyNext ==
  ASSUME K!Parameters, KeyInv, [K!Next]_K!vars
  PROVE  KeyInv'
<1> USE DEF K!Parameters, KeyInv, K!TypeOK, K!Contents
<1>1. CASE K!Read
  BY <1>1 DEF K!Read, K!Loaded, Finished, Memory
<1>2. CASE K!Generate
  BY <1>2 DEF K!Generate, Finished, Memory
<1>3. CASE K!WritePrivate
  BY <1>3 DEF K!WritePrivate, Finished, Memory
<1>4. CASE K!WritePublic
  BY <1>4 DEF K!WritePublic, K!Loaded, Finished, Memory
<1>5. CASE K!Sign
  BY <1>5 DEF K!Sign, Finished, Memory
<1>6. CASE K!Expire
  BY <1>6 DEF K!Expire, Finished, Memory
<1>7. CASE K!End
  BY <1>7 DEF K!End, Finished, Memory
<1>8. CASE UNCHANGED K!vars
  BY <1>8 DEF K!vars, Finished, Memory
<1>9. QED
  BY <1>1, <1>2, <1>3, <1>4, <1>5, <1>6, <1>7, <1>8 DEF K!Next

\* The state of the key files and of the process is always one the code
\* knows, for any number of key pairs, restarts and crashes.
THEOREM KeysTypeCorrect ==
  ASSUME K!Parameters
  PROVE  K!Spec => []K!TypeOK
<1>1. K!Init => KeyInv
  BY KeyInit
<1>2. KeyInv /\ [K!Next]_K!vars => KeyInv'
  BY KeyNext
<1>3. KeyInv => K!TypeOK
  BY DEF KeyInv
<1>4. QED
  BY <1>1, <1>2, <1>3, PTL DEF K!Spec

\* However often the process is killed while it writes them, keys that are
\* whole belong together, and a process that serves accepts every token that
\* one before it has signed.
THEOREM PairHolds ==
  ASSUME K!Parameters
  PROVE  K!Spec => []K!KeysAgree
<1>1. K!Init => KeyInv
  BY KeyInit
<1>2. KeyInv /\ [K!Next]_K!vars => KeyInv'
  BY KeyNext
<1>3. KeyInv => K!KeysAgree
  BY DEF KeyInv, K!TypeOK, Finished, Memory, K!KeysAgree, K!Contents
<1>4. QED
  BY <1>1, <1>2, <1>3, PTL DEF K!Spec
=============================================================================
