--------------------------- MODULE BookStoreProofs ---------------------------
(***************************************************************************)
(* Proofs about BookStore for any books, uploads and number of concurrent  *)
(* requests, on either backend: the type invariant, NoOrphans, that        *)
(* BookStore implements ContentStore, and MetadataAgrees as long as no two *)
(* requests replace the cover of one book at a time.  Three things carry   *)
(* them: nobody changes chunk rows another request is changing, every      *)
(* content that is not empty has a first chunk, and a book with chunk rows *)
(* stays.                                                                  *)
(***************************************************************************)
EXTENDS BookStore, FiniteSetTheorems, TLAPS

-----------------------------------------------------------------------------
(* The invariants *)

\* What each field of a request holds at each of its steps.
TxShape(t) ==
  /\ t.pc = "idle" => t = Idle
  /\ t.pc # "idle" => t.book \in Books /\ t.op \in Operations
  /\ t.pc \in {"duplicate", "insert"} => t.op = "add"
  /\ t.pc = "mime" => t.op = "put"
  /\ t.pc \in {"wipe", "wiping", "store", "meta"} => t.op \in {"add", "put"}
  /\ t.pc = "title" => t.op = "patch"
  /\ t.pc \in {"drop", "cascade"} => t.op = "delete"
  /\ t.pc \in {"duplicate", "insert", "title"} => t.title \in Titles
  /\ t.op \in {"add", "patch"} => t.title \in Titles
  /\ t.pc \in {"mime", "wipe", "wiping", "store", "meta", "title"} => t.snap \in Row
  /\ t.seen # {} => t.pc = "wiping"
  /\ t.deleted # {} => t.pc \in {"store", "meta", "log", "commit"}
  /\ t.inserted # {} => t.pc \in {"meta", "log", "commit"} /\ t.op \in {"add", "put"}
  /\ t.inserted \in Contents

TypeInv == TypeOK /\ \A r \in Requests : TxShape(tx[r])

\* Locks are held by requests that have begun to write, on PostgreSQL of their
\* own book, on SQLite of the whole database; they change their own book only.
LockInv ==
  \A r \in Requests, b \in Books : owner[b] = r =>
    /\ tx[r].pc \notin {"idle", "find", "duplicate", "insert"}
    /\ IF Backend = "sqlite" THEN \A c \in Books : owner[c] = r ELSE tx[r].book = b
    /\ b # tx[r].book => work[b] = books[b]

\* On SQLite whoever changes chunk rows holds the write lock.
HoldInv ==
  \A r \in Requests :
    (/\ Backend = "sqlite"
     /\ \/ tx[r].pc \in {"wiping", "store", "cascade"}
        \/ tx[r].deleted # {}
        \/ tx[r].inserted # {})
    => \A b \in Books : owner[b] = r

\* The id of a book that is being added is nobody else's.
AddInv ==
  \A r \in Requests : tx[r].op = "add" =>
    /\ books[tx[r].book] = None
    /\ \A q \in Requests \ {r} : tx[q].book = tx[r].book => tx[q].pc = "find"

\* The chunk rows of a book are one content, and requests see and delete all
\* of them or none; they insert only when none of the others is left.
ChunkInv ==
  /\ chunks \in [Books -> Contents]
  /\ \A r \in Requests : tx[r].pc # "idle" =>
       /\ tx[r].seen \in {{}, chunks[tx[r].book]}
       /\ tx[r].deleted \in {{}, chunks[tx[r].book]}
       /\ tx[r].inserted # {} => tx[r].deleted = chunks[tx[r].book]

\* No two requests delete, and no two insert, chunk rows of one book.
ApartInv ==
  \A r, q \in Requests : (r # q /\ tx[r].pc # "idle" /\ tx[q].book = tx[r].book) =>
    /\ tx[r].deleted = {} \/ tx[q].deleted = {}
    /\ tx[r].inserted = {} \/ tx[q].inserted = {}

\* A book is there, and nobody is deleting it, as long as a request has chunk
\* rows for it.
AliveInv ==
  \A r \in Requests : tx[r].inserted # {} =>
    LET b == tx[r].book
    IN View(r)[b] # None /\ (owner[b] \in Requests \ {r} => work[b] # None)

\* Who deletes a book deletes its chunk rows before the log entry.
DropInv ==
  \A r \in Requests, b \in Books : (owner[b] = r /\ work[b] = None /\ books[b] # None) =>
    /\ tx[r].book = b /\ tx[r].op = "delete"
    /\ tx[r].pc \in {"cascade", "log", "commit"}
    /\ tx[r].pc # "cascade" => chunks[b] = tx[r].deleted

StoreInv ==
  /\ LockInv /\ HoldInv /\ AddInv /\ ChunkInv
  /\ ApartInv /\ AliveInv /\ DropInv /\ NoOrphans

-----------------------------------------------------------------------------
(* Contents *)

\* No rows have no bytes.
LEMMA SizeEmpty == Size({}) = 0
<1> DEFINE F(g) == [s \in SUBSET {} |->
                      IF s = {} THEN 0
                      ELSE (CHOOSE x \in s : TRUE)[2] + g[s \ {CHOOSE x \in s : TRUE}]]
           f == CHOOSE g : g = F(g)
           z == [s \in SUBSET {} |-> 0]
<1>1. z = F(z)
  OBVIOUS
<1>2. f = F(f)
  BY <1>1
<1>3. F(f)[{}] = 0
  OBVIOUS
<1>4. f[{}] = 0
  BY <1>2, <1>3
<1>5. Size({}) = f[{}]
  BY DEF Size, MapThenSumSet, MapThenFoldSet
<1>6. QED
  BY <1>4, <1>5

\* What an upload stores is a content, and has a first chunk or nothing.
LEMMA UploadRows ==
  /\ {} \in Contents /\ 0 \in Sizes /\ 0 \in Counts
  /\ \A u \in Uploads \cup {<<>>} :
       /\ Rows(u) \in Contents
       /\ Size(Rows(u)) \in Sizes /\ Cardinality(Rows(u)) \in Counts
       /\ Rows(u) # {} => u # <<>>
  /\ \A c \in Contents : c # {} => 1 \in Indices(c)
<1>1. Rows(<<>>) = {}
  BY DEF Rows
<1>2. {} \in Contents /\ \A u \in Uploads \cup {<<>>} : Rows(u) \in Contents
  BY <1>1 DEF Contents
<1>3. 0 \in Sizes /\ 0 \in Counts
  BY <1>2, SizeEmpty, FS_EmptySet DEF Sizes, Counts
<1>4. ASSUME NEW c \in Contents, c # {}
      PROVE  1 \in Indices(c)
  <2>1. PICK u \in Uploads : c = Rows(u)
    BY <1>4 DEF Contents
  <2>2. u \in Seq(Nat \ {0}) /\ u # <<>>
    BY <1>1, <1>4, <2>1, UploadsAssumption
  <2>3. 1 \in DOMAIN u
    BY <2>2
  <2>4. <<1, u[1]>> \in c
    BY <2>1, <2>3 DEF Rows
  <2>5. QED
    BY <2>4 DEF Indices
<1>5. QED
  BY <1>1, <1>2, <1>3, <1>4 DEF Sizes, Counts

-----------------------------------------------------------------------------
(* Types *)

\* An idle slot is a request of the right shape.
LEMMA IdleType == Idle \in Tx /\ TxShape(Idle)
<1>1. Idle \in Tx
  BY DEF Idle, Tx, Steps
<1>2. /\ Idle.pc = "idle" /\ Idle.op \notin Operations
      /\ Idle.seen = {} /\ Idle.deleted = {} /\ Idle.inserted = {}
  BY NoneAssumption DEF Idle
<1>3. QED
  BY <1>1, <1>2, UploadRows DEF TxShape, Operations

\* What a request sees is a table.
LEMMA ViewTable ==
  ASSUME books \in Table, work \in Table, NEW r
  PROVE  View(r) \in Table
BY DEF View, Table

\* The UPDATE of a flush writes a row.
LEMMA PatchedType ==
  ASSUME NEW row \in Row, NEW snap, NEW object \in Row
  PROVE  Patched(row, snap, object) \in Row
<1> DEFINE f == [c \in {"title", "mime", "size", "count"} |->
                   IF object[c] = snap[c] THEN row[c] ELSE object[c]]
<1>1. Patched(row, snap, object) = f
  BY DOMAIN row = {"title", "mime", "size", "count"} DEF Patched, Row
<1>2. /\ f.title \in Titles /\ f.mime \in Mimes \cup {None}
      /\ f.size \in Sizes /\ f.count \in Counts
  BY DEF Row
<1>3. f = [title |-> f.title, mime |-> f.mime, size |-> f.size, count |-> f.count]
  OBVIOUS
<1> HIDE DEF f
<1>4. f \in Row
  BY <1>2, <1>3 DEF Row
<1>5. QED
  BY <1>1, <1>4

\* So is what a flush leaves in the identity map.
LEMMA ObjectType ==
  ASSUME TypeInv, NEW r \in Requests, tx[r].pc \in {"mime", "meta", "title"}
  PROVE  Object(r) \in Row
<1>1. tx[r] \in Tx /\ TxShape(tx[r])
  BY DEF TypeInv, TypeOK
<1>2. /\ tx[r].snap \in Row /\ tx[r].mime \in Mimes \cup {None}
      /\ tx[r].upload \in Uploads \cup {<<>>}
  BY <1>1 DEF TxShape, Tx
<1>3. CASE tx[r].pc = "mime"
  BY <1>2, <1>3 DEF Object, Row
<1>4. CASE tx[r].pc = "meta"
  BY <1>2, <1>4, UploadRows DEF Object, Meta, Row
<1>5. CASE tx[r].pc = "title"
  BY <1>1, <1>2, <1>5 DEF Object, Row, TxShape
<1>6. QED
  BY <1>3, <1>4, <1>5

\* A running request with other values in the fields that its steps change.
Advance(t, p, s, e, d, i) ==
  [pc |-> p, op |-> t.op, book |-> t.book, title |-> t.title, mime |-> t.mime,
   upload |-> t.upload, snap |-> s, seen |-> e, deleted |-> d, inserted |-> i]

\* A request is the record of its fields.
LEMMA RecordOfTx ==
  ASSUME NEW t \in Tx
  PROVE  t = Advance(t, t.pc, t.snap, t.seen, t.deleted, t.inserted)
BY DEF Tx, Advance

\* An EXCEPT: the step.
LEMMA AdvancePc ==
  ASSUME NEW t \in Tx, NEW p
  PROVE  [t EXCEPT !.pc = p] = Advance(t, p, t.snap, t.seen, t.deleted, t.inserted)
<1> DEFINE t0 == Advance(t, t.pc, t.snap, t.seen, t.deleted, t.inserted)
<1>1. t = t0
  BY RecordOfTx
<1>2. /\ [t0 EXCEPT !.pc = p] = Advance(t, p, t.snap, t.seen, t.deleted, t.inserted)
  BY DEF Advance
<1> HIDE DEF t0
<1>3. QED
  BY <1>1, <1>2

\* An EXCEPT: snapshot and step.
LEMMA AdvanceSnap ==
  ASSUME NEW t \in Tx, NEW p, NEW s
  PROVE  [t EXCEPT !.snap = s, !.pc = p] = Advance(t, p, s, t.seen, t.deleted, t.inserted)
<1> DEFINE t0 == Advance(t, t.pc, t.snap, t.seen, t.deleted, t.inserted)
           t1 == Advance(t, t.pc, s, t.seen, t.deleted, t.inserted)
<1>1. t = t0
  BY RecordOfTx
<1>2. /\ [t0 EXCEPT !.snap = s] = t1
      /\ [t1 EXCEPT !.pc = p] = Advance(t, p, s, t.seen, t.deleted, t.inserted)
  BY DEF Advance
<1> HIDE DEF t0, t1
<1>3. QED
  BY <1>1, <1>2

\* An EXCEPT: what was seen, and the step.
LEMMA AdvanceSeen ==
  ASSUME NEW t \in Tx, NEW p, NEW e
  PROVE  [t EXCEPT !.seen = e, !.pc = p] = Advance(t, p, t.snap, e, t.deleted, t.inserted)
<1> DEFINE t0 == Advance(t, t.pc, t.snap, t.seen, t.deleted, t.inserted)
           t1 == Advance(t, t.pc, t.snap, e, t.deleted, t.inserted)
<1>1. t = t0
  BY RecordOfTx
<1>2. /\ [t0 EXCEPT !.seen = e] = t1
      /\ [t1 EXCEPT !.pc = p] = Advance(t, p, t.snap, e, t.deleted, t.inserted)
  BY DEF Advance
<1> HIDE DEF t0, t1
<1>3. QED
  BY <1>1, <1>2

\* An EXCEPT: what is deleted, and the step.
LEMMA AdvanceDeleted ==
  ASSUME NEW t \in Tx, NEW p, NEW d
  PROVE  [t EXCEPT !.deleted = d, !.pc = p] = Advance(t, p, t.snap, t.seen, d, t.inserted)
<1> DEFINE t0 == Advance(t, t.pc, t.snap, t.seen, t.deleted, t.inserted)
           t1 == Advance(t, t.pc, t.snap, t.seen, d, t.inserted)
<1>1. t = t0
  BY RecordOfTx
<1>2. /\ [t0 EXCEPT !.deleted = d] = t1
      /\ [t1 EXCEPT !.pc = p] = Advance(t, p, t.snap, t.seen, d, t.inserted)
  BY DEF Advance
<1> HIDE DEF t0, t1
<1>3. QED
  BY <1>1, <1>2

\* An EXCEPT: what is inserted, and the step.
LEMMA AdvanceInserted ==
  ASSUME NEW t \in Tx, NEW p, NEW i
  PROVE  [t EXCEPT !.inserted = i, !.pc = p] = Advance(t, p, t.snap, t.seen, t.deleted, i)
<1> DEFINE t0 == Advance(t, t.pc, t.snap, t.seen, t.deleted, t.inserted)
           t1 == Advance(t, t.pc, t.snap, t.seen, t.deleted, i)
<1>1. t = t0
  BY RecordOfTx
<1>2. /\ [t0 EXCEPT !.inserted = i] = t1
      /\ [t1 EXCEPT !.pc = p] = Advance(t, p, t.snap, t.seen, t.deleted, i)
  BY DEF Advance
<1> HIDE DEF t0, t1
<1>3. QED
  BY <1>1, <1>2

\* An EXCEPT: what was seen is deleted.
LEMMA AdvanceWiped ==
  ASSUME NEW t \in Tx, NEW p, NEW d, NEW e
  PROVE  [t EXCEPT !.deleted = d, !.seen = e, !.pc = p] = Advance(t, p, t.snap, e, d, t.inserted)
<1> DEFINE t0 == Advance(t, t.pc, t.snap, t.seen, t.deleted, t.inserted)
           t1 == Advance(t, t.pc, t.snap, t.seen, d, t.inserted)
           t2 == Advance(t, t.pc, t.snap, e, d, t.inserted)
<1>1. t = t0
  BY RecordOfTx
<1>2. /\ [t0 EXCEPT !.deleted = d] = t1
      /\ [t1 EXCEPT !.seen = e] = t2
      /\ [t2 EXCEPT !.pc = p] = Advance(t, p, t.snap, e, d, t.inserted)
  BY DEF Advance
<1> HIDE DEF t0, t1, t2
<1>3. QED
  BY <1>1, <1>2

-----------------------------------------------------------------------------
(* Locks *)

\* What a statement of r does to the locks.  Afterwards r sees its own book as
\* w and the other books as before, and the other requests see no difference.
Locks(r, w) ==
  LET b == tx[r].book
  IN /\ work' \in Table
     /\ owner' \in [Books -> Requests \cup {None}]
     /\ \A v \in Books : owner'[v] = owner[v] \/ (owner[v] = None /\ owner'[v] = r)
     /\ \A v \in Books : owner[v] \notin {r, None} => work'[v] = work[v]
     /\ \A v \in Books : owner'[v] = r =>
          /\ IF Backend = "sqlite" THEN \A c \in Books : owner'[c] = r ELSE v = b
          /\ v # b => work'[v] = books[v]
     /\ w = IF owner'[b] = r THEN work'[b] ELSE books[b]

\* Nobody but r holds a lock that a write to the book of r takes.
Free(r) == \A v \in Locked(tx[r].book) : owner[v] \in {r, None}

\* A statement that takes no lock.
LEMMA LocksKept ==
  ASSUME TypeInv, LockInv, NEW r \in Requests, tx[r].book \in Books, UNCHANGED <<work, owner>>
  PROVE  Locks(r, View(r)[tx[r].book])
BY NoneAssumption DEF Locks, View, TypeInv, TypeOK, LockInv

\* A statement that writes its own book.
LEMMA LocksWritten ==
  ASSUME TypeInv, LockInv, NEW r \in Requests, tx[r].book \in Books, Free(r),
         NEW row \in Row \cup {None}, Write(r, tx[r].book, row)
  PROVE  /\ Locks(r, row)
         /\ owner'[tx[r].book] = r
         /\ Backend = "sqlite" => \A v \in Books : owner'[v] = r
<1> DEFINE b == tx[r].book
<1>1. /\ work \in Table /\ books \in Table /\ owner \in [Books -> Requests \cup {None}]
      /\ View(r) \in Table
  BY ViewTable DEF TypeInv, TypeOK
<1>2. \A v \in Books : v \in Locked(b) => owner[v] \in {r, None} /\ owner'[v] = r
  BY DEF Free, Write
<1>3. \A v \in Books : v \notin Locked(b) => owner'[v] = owner[v] /\ work'[v] = work[v]
  BY b \in Locked(b) DEF Write, Locked
<1>4. owner'[b] = r /\ work'[b] = row
  BY <1>2 DEF Write, Locked
<1>5. \A v \in Books : v \in Locked(b) /\ v # b => work'[v] = books[v]
  <2> SUFFICES ASSUME NEW v \in Books, v \in Locked(b), v # b
               PROVE  work'[v] = books[v]
    OBVIOUS
  <2>1. work'[v] = View(r)[v]
    BY DEF Write
  <2>2. owner[v] = r => work[v] = books[v]
    BY DEF LockInv
  <2>3. QED
    BY <2>1, <2>2 DEF View
<1>6. work' \in Table
  BY <1>1 DEF Write, Table
<1>7. owner' \in [Books -> Requests \cup {None}]
  BY <1>1 DEF Write
<1>8. Backend = "sqlite" => \A v \in Books : v \in Locked(b)
  BY DEF Locked
<1>9. ASSUME NEW v \in Books, owner'[v] = r, Backend # "sqlite"
      PROVE  v = b
  <2>1. CASE v \in Locked(b)
    BY <1>9, <2>1 DEF Locked
  <2>2. CASE v \notin Locked(b)
    BY <1>3, <1>9, <2>2 DEF LockInv
  <2>3. QED
    BY <2>1, <2>2
<1>10. ASSUME NEW v \in Books, owner'[v] = r, v # b
       PROVE  work'[v] = books[v]
  <2>1. CASE v \in Locked(b)
    BY <1>5, <1>10, <2>1
  <2>2. CASE v \notin Locked(b)
    BY <1>3, <1>10, <2>2 DEF LockInv
  <2>3. QED
    BY <2>1, <2>2
<1>11. ASSUME NEW v \in Books
       PROVE  /\ owner'[v] = owner[v] \/ (owner[v] = None /\ owner'[v] = r)
              /\ owner[v] \notin {r, None} => work'[v] = work[v]
  <2>1. CASE v \in Locked(b)
    BY <1>2, <2>1
  <2>2. CASE v \notin Locked(b)
    BY <1>3, <2>2
  <2>3. QED
    BY <2>1, <2>2
<1>12. Backend = "sqlite" => \A v \in Books : owner'[v] = r
  BY <1>2, <1>8
<1>13. QED
  BY <1>4, <1>6, <1>7, <1>9, <1>10, <1>11, <1>12 DEF Locks

\* A statement on another table.
LEMMA LocksTouched ==
  ASSUME TypeInv, LockInv, NEW r \in Requests, tx[r].book \in Books,
         Backend = "sqlite" => Free(r), Touch(r)
  PROVE  /\ Locks(r, View(r)[tx[r].book])
         /\ Backend = "sqlite" => \A v \in Books : owner'[v] = r
<1>1. CASE Backend = "sqlite"
  <2>1. View(r)[tx[r].book] \in Row \cup {None}
    BY ViewTable DEF TypeInv, TypeOK, Table
  <2>2. Write(r, tx[r].book, View(r)[tx[r].book])
    BY <1>1 DEF Touch
  <2>3. QED
    BY <1>1, <2>1, <2>2, LocksWritten
<1>2. CASE Backend # "sqlite"
  BY <1>2, LocksKept DEF Touch
<1>3. QED
  BY <1>1, <1>2

\* A statement that does not wait may write.
LEMMA NotBlocked ==
  ASSUME TypeInv, NEW r \in Requests, tx[r].book \in Books, Blockers(r) = {}
  PROVE  /\ Flushes(r) => Free(r)
         /\ tx[r].pc = "drop" => Free(r)
         /\ Backend = "sqlite" /\ tx[r].pc \in {"insert", "wipe", "log"} => Free(r)
<1>1. ASSUME Backend = "sqlite", tx[r].pc \in {"insert", "wipe", "drop", "log"} \/ Flushes(r)
      PROVE  Free(r)
  <2>1. {owner[v] : v \in Books} \ {r, None} = {}
    BY <1>1 DEF Blockers
  <2>2. QED
    BY <1>1, <2>1 DEF Free, Locked
<1>2. ASSUME Backend # "sqlite", tx[r].pc = "drop" \/ Flushes(r)
      PROVE  Free(r)
  <2>1. {owner[tx[r].book]} \ {r, None} = {}
    <3>1. CASE Flushes(r)
      <4>1. tx[r].pc \notin {"wiping", "store", "drop", "cascade"}
        BY <3>1 DEF Flushes
      <4>2. Blockers(r) = {owner[tx[r].book]} \ {r, None}
        BY <1>2, <3>1, <4>1 DEF Blockers
      <4>3. QED
        BY <4>2
    <3>2. CASE tx[r].pc = "drop"
      <4>1. ~ Flushes(r)
        BY <3>2 DEF Flushes
      <4>2. Blockers(r) =
              ({owner[tx[r].book]} \cup {q \in Peers(r) : tx[q].inserted # {}}) \ {r, None}
        BY <1>2, <3>2, <4>1 DEF Blockers
      <4>3. QED
        BY <4>2
    <3>3. QED
      BY <1>2, <3>1, <3>2
  <2>2. QED
    BY <1>2, <2>1 DEF Free, Locked
<1>3. QED
  BY <1>1, <1>2

-----------------------------------------------------------------------------
(* Statements *)

\* r turns from tx[r] to t, which must keep what the invariants say of r, and
\* sees its own book as w.
Statement(r, t, w) ==
  /\ tx' = [tx EXCEPT ![r] = t]
  /\ UNCHANGED <<books, chunks>>
  /\ t \in Tx /\ TxShape(t)
  /\ tx[r].pc # "idle" /\ t.pc \notin {"idle", "find", "duplicate"}
  /\ t.book = tx[r].book /\ t.op = tx[r].op
  /\ Locks(r, w)

\* It has locked what the changes of t need.
Locking(r, t) ==
  /\ tx[r].pc = "find" => books[t.book] # None
  /\ t.pc = "insert" => \A v \in Books : owner'[v] # r
  /\ (/\ Backend = "sqlite"
      /\ t.pc \in {"wiping", "store", "cascade"} \/ t.deleted # {} \/ t.inserted # {})
     => \A v \in Books : owner'[v] = r

\* It sees, deletes and inserts a whole content, and the peers do not.
Changing(r, t) ==
  /\ t.seen \in {{}, chunks[t.book]} /\ t.deleted \in {{}, chunks[t.book]}
  /\ t.inserted # {} => t.deleted = chunks[t.book]
  /\ \A q \in Requests \ {r} : tx[q].book = t.book =>
       /\ t.deleted = {} \/ tx[q].deleted = {}
       /\ t.inserted = {} \/ tx[q].inserted = {}

\* Its chunk rows have a book that stays, and so have those of its peers.
Living(r, t, w) ==
  LET b == t.book
  IN /\ t.inserted # {} => w # None /\ (owner[b] \in Requests \ {r} => work[b] # None)
     /\ w = None => \/ View(r)[b] = None
                    \/ \A q \in Requests \ {r} : tx[q].book = b => tx[q].inserted = {}
     /\ w = None /\ books[b] # None =>
          /\ t.op = "delete" /\ t.pc \in {"cascade", "log", "commit"}
          /\ t.pc # "cascade" => chunks[b] = t.deleted

\* A statement keeps the types.
LEMMA StatementType ==
  ASSUME TypeInv, NEW r \in Requests, NEW t, NEW w, Statement(r, t, w)
  PROVE  TypeInv' /\ tx'[r] = t /\ \A q \in Requests \ {r} : tx'[q] = tx[q]
<1>1. tx \in [Requests -> Tx]
  BY DEF TypeInv, TypeOK
<1>2. tx'[r] = t /\ \A q \in Requests \ {r} : tx'[q] = tx[q]
  BY <1>1 DEF Statement
<1>3. tx' \in [Requests -> Tx]
  BY <1>1 DEF Statement
<1>4. TypeOK'
  BY <1>3 DEF TypeInv, TypeOK, Statement, Locks
<1>5. \A q \in Requests : TxShape(tx'[q])
  BY <1>2 DEF TypeInv, Statement
<1>6. QED
  BY <1>2, <1>4, <1>5 DEF TypeInv

\* A statement keeps the invariants.
LEMMA StatementKeeps ==
  ASSUME TypeInv, StoreInv, NEW r \in Requests, NEW t, NEW w, Statement(r, t, w),
         Locking(r, t), Changing(r, t), Living(r, t, w)
  PROVE  (TypeInv /\ StoreInv)'
<1> DEFINE b == tx[r].book
<1>1. TypeInv' /\ tx'[r] = t /\ \A q \in Requests \ {r} : tx'[q] = tx[q]
  BY StatementType
<1>2. /\ t.book = b /\ b \in Books /\ t.op = tx[r].op /\ t.pc # "idle"
      /\ books' = books /\ chunks' = chunks
  BY DEF Statement, TypeInv, TxShape
<1>3. /\ \A v \in Books : owner'[v] = owner[v] \/ (owner[v] = None /\ owner'[v] = r)
      /\ \A v \in Books : owner[v] \notin {r, None} => work'[v] = work[v]
      /\ \A v \in Books : owner'[v] = r =>
           /\ IF Backend = "sqlite" THEN \A c \in Books : owner'[c] = r ELSE v = b
           /\ v # b => work'[v] = books[v]
      /\ w = IF owner'[b] = r THEN work'[b] ELSE books[b]
  BY DEF Statement, Locks
<1>4. \A q \in Requests \ {r}, v \in Books :
        owner'[v] = q <=> owner[v] = q
  BY <1>3, NoneAssumption
<1>5. \A q \in Requests \ {r}, v \in Books : owner[v] = q => work'[v] = work[v]
  BY <1>3, NoneAssumption
<1>6. LockInv'
  <2>1. ASSUME NEW v \in Books, owner'[v] = r
        PROVE  /\ t.pc \notin {"idle", "find", "duplicate", "insert"}
               /\ IF Backend = "sqlite" THEN \A c \in Books : owner'[c] = r ELSE t.book = v
               /\ v # t.book => work'[v] = books[v]
    BY <1>2, <1>3, <2>1 DEF Statement, Locking
  <2>2. ASSUME NEW q \in Requests \ {r}, NEW v \in Books, owner'[v] = q
        PROVE  /\ tx[q].pc \notin {"idle", "find", "duplicate", "insert"}
               /\ IF Backend = "sqlite" THEN \A c \in Books : owner'[c] = q ELSE tx[q].book = v
               /\ v # tx[q].book => work'[v] = books[v]
    <3>1. owner[v] = q /\ work'[v] = work[v]
      BY <1>4, <1>5, <2>2
    <3>2. QED
      BY <1>4, <3>1 DEF StoreInv, LockInv
  <2>3. QED
    BY <1>1, <1>2, <2>1, <2>2 DEF LockInv
<1>7. HoldInv'
  <2>1. ASSUME NEW q \in Requests \ {r}, Backend = "sqlite",
               \/ tx[q].pc \in {"wiping", "store", "cascade"}
               \/ tx[q].deleted # {} \/ tx[q].inserted # {}
        PROVE  \A v \in Books : owner'[v] = q
    BY <1>4, <2>1 DEF StoreInv, HoldInv
  <2>2. QED
    BY <1>1, <2>1 DEF HoldInv, Locking
<1>8. AddInv'
  <2>1. t.op = "add" =>
          books[b] = None /\ \A q \in Requests \ {r} : tx[q].book = b => tx[q].pc = "find"
    BY <1>2 DEF StoreInv, AddInv
  <2>2. ASSUME NEW q \in Requests \ {r}, tx[q].op = "add"
        PROVE  /\ books[tx[q].book] = None
               /\ \A p \in Requests \ {q, r} : tx[p].book = tx[q].book => tx[p].pc = "find"
               /\ b # tx[q].book
    BY <1>2, <2>2 DEF StoreInv, AddInv, Locking
  <2>3. QED
    BY <1>1, <1>2, <2>1, <2>2 DEF AddInv
<1>9. ChunkInv'
  <2>1. \A q \in Requests \ {r} : tx[q].pc # "idle" =>
          /\ tx[q].seen \in {{}, chunks[tx[q].book]}
          /\ tx[q].deleted \in {{}, chunks[tx[q].book]}
          /\ tx[q].inserted # {} => tx[q].deleted = chunks[tx[q].book]
    BY DEF StoreInv, ChunkInv
  <2>2. QED
    BY <1>1, <1>2, <2>1 DEF StoreInv, ChunkInv, Changing
<1>10. ApartInv'
  <2> SUFFICES ASSUME NEW p \in Requests, NEW q \in Requests, p # q,
                      tx'[p].pc # "idle", tx'[q].book = tx'[p].book
               PROVE  /\ tx'[p].deleted = {} \/ tx'[q].deleted = {}
                      /\ tx'[p].inserted = {} \/ tx'[q].inserted = {}
    BY DEF ApartInv
  <2>1. CASE p = r
    BY <1>1, <1>2, <2>1 DEF Changing
  <2>2. CASE q = r
    BY <1>1, <1>2, <2>2 DEF Changing
  <2>3. CASE p # r /\ q # r
    BY <1>1, <2>3 DEF StoreInv, ApartInv
  <2>4. QED
    BY <2>1, <2>2, <2>3
<1>11. AliveInv'
  <2>1. ASSUME t.inserted # {}
        PROVE  View(r)'[b] # None /\ (owner'[b] \in Requests \ {r} => work'[b] # None)
    <3>1. View(r)'[b] = w
      BY <1>2, <1>3 DEF View
    <3>2. owner'[b] \in Requests \ {r} => owner[b] = owner'[b] /\ work'[b] = work[b]
      BY <1>2, <1>4, <1>5
    <3>3. QED
      BY <1>2, <2>1, <3>1, <3>2 DEF Living
  <2>2. ASSUME NEW q \in Requests \ {r}, tx[q].inserted # {}, NEW c, c = tx[q].book
        PROVE  View(q)'[c] # None /\ (owner'[c] \in Requests \ {q} => work'[c] # None)
    <3>1. c \in Books /\ tx[q].pc # "idle"
      BY <2>2 DEF TypeInv, TxShape, Idle
    <3>2. View(q)[c] # None /\ (owner[c] \in Requests \ {q} => work[c] # None)
      BY <2>2 DEF StoreInv, AliveInv
    <3>3. View(q)'[c] = View(q)[c]
      BY <1>2, <1>4, <1>5, <3>1 DEF View
    <3>4. CASE owner'[c] # r
      <4>1. owner'[c] \in Requests \ {q} => owner[c] = owner'[c] /\ work'[c] = work[c]
        BY <1>4, <1>5, <3>1, <3>4
      <4>2. QED
        BY <3>2, <3>3, <4>1
    <3>5. CASE owner'[c] = r
      <4>1. Backend # "sqlite"
        <5>1. Backend = "sqlite" => owner[c] = q
          BY <2>2, <3>1 DEF StoreInv, HoldInv
        <5>2. QED
          BY <1>4, <3>1, <3>5, <5>1
      <4>2. c = b
        BY <1>3, <3>1, <3>5, <4>1
      <4>3. w = work'[c]
        BY <1>3, <3>5, <4>2
      <4>4. w # None
        <5>1. SUFFICES ASSUME w = None
                       PROVE  FALSE
          OBVIOUS
        <5>2. View(r)[c] = None
          BY <1>2, <2>2, <4>2, <5>1 DEF Living
        <5>3. CASE owner[c] = r
          BY <3>1, <3>2, <5>2, <5>3 DEF View
        <5>4. CASE owner[c] # r
          <6>1. owner[c] = None
            BY <1>3, <3>1, <3>5, <5>4
          <6>2. QED
            BY <3>1, <3>2, <5>2, <5>4, <6>1, NoneAssumption DEF View
        <5>5. QED
          BY <5>3, <5>4
      <4>5. QED
        BY <3>2, <3>3, <4>3, <4>4
    <3>6. QED
      BY <3>4, <3>5
  <2>3. QED
    BY <1>1, <1>2, <2>1, <2>2 DEF AliveInv
<1>12. DropInv'
  <2>1. ASSUME NEW v \in Books, owner'[v] = r, work'[v] = None, books[v] # None
        PROVE  /\ t.book = v /\ t.op = "delete" /\ t.pc \in {"cascade", "log", "commit"}
               /\ t.pc # "cascade" => chunks[v] = t.deleted
    BY <1>2, <1>3, <2>1 DEF Living
  <2>2. ASSUME NEW q \in Requests \ {r}, NEW v \in Books, owner'[v] = q, work'[v] = None,
               books[v] # None
        PROVE  /\ tx[q].book = v /\ tx[q].op = "delete"
               /\ tx[q].pc \in {"cascade", "log", "commit"}
               /\ tx[q].pc # "cascade" => chunks[v] = tx[q].deleted
    BY <1>4, <1>5, <2>2 DEF StoreInv, DropInv
  <2>3. QED
    BY <1>1, <1>2, <2>1, <2>2 DEF DropInv
<1>13. NoOrphans'
  BY <1>2 DEF StoreInv, NoOrphans
<1>14. QED
  BY <1>1, <1>6, <1>7, <1>8, <1>9, <1>10, <1>11, <1>12, <1>13 DEF StoreInv

-----------------------------------------------------------------------------
(* Ends of a request *)

\* What the end of r leaves of the requests and the locks.
Left(r, removed) ==
  /\ tx'[r] = Idle
  /\ \A q \in Requests \ {r} :
       /\ tx'[q].pc = tx[q].pc /\ tx'[q].op = tx[q].op /\ tx'[q].book = tx[q].book
       /\ tx'[q].deleted = tx[q].deleted /\ tx'[q].inserted = tx[q].inserted
       /\ tx'[q].snap = tx[q].snap /\ tx'[q].upload = tx[q].upload
       /\ tx'[q].seen = IF tx[q].book = tx[r].book THEN tx[q].seen \ removed ELSE tx[q].seen
  /\ \A v \in Books : /\ owner'[v] # r
                      /\ owner[v] # r => owner'[v] = owner[v] /\ work'[v] = work[v]
                      /\ owner[v] = r => owner'[v] = None /\ work'[v] = None

\* Release does that, and keeps the types.
LEMMA Released ==
  ASSUME TypeInv, NEW r \in Requests, NEW removed, Release(r, removed)
  PROVE  /\ tx' \in [Requests -> Tx] /\ work' \in Table
         /\ owner' \in [Books -> Requests \cup {None}]
         /\ \A q \in Requests : TxShape(tx'[q])
         /\ Left(r, removed)
<1>1. tx \in [Requests -> Tx] /\ work \in Table /\ owner \in [Books -> Requests \cup {None}]
  BY DEF TypeInv, TypeOK
<1>2. \A v \in Books : /\ owner'[v] # r
                       /\ owner[v] # r => owner'[v] = owner[v] /\ work'[v] = work[v]
                       /\ owner[v] = r => owner'[v] = None /\ work'[v] = None
  BY NoneAssumption DEF Release
<1>3. work' \in Table /\ owner' \in [Books -> Requests \cup {None}]
  BY <1>1 DEF Release, Table
<1>4. tx'[r] = Idle
  BY DEF Release
<1>5. ASSUME NEW q \in Requests \ {r}
      PROVE  /\ tx'[q] \in Tx /\ TxShape(tx'[q])
             /\ tx'[q].pc = tx[q].pc /\ tx'[q].op = tx[q].op /\ tx'[q].book = tx[q].book
             /\ tx'[q].deleted = tx[q].deleted /\ tx'[q].inserted = tx[q].inserted
             /\ tx'[q].snap = tx[q].snap /\ tx'[q].upload = tx[q].upload
             /\ tx'[q].seen = IF tx[q].book = tx[r].book THEN tx[q].seen \ removed ELSE tx[q].seen
  <2>1. tx[q] \in Tx /\ TxShape(tx[q])
    BY <1>1 DEF TypeInv
  <2>2. CASE tx[q].book = tx[r].book
    <3> DEFINE t == tx[q]
               u == [t EXCEPT !.seen = t.seen \ removed]
    <3>1. tx'[q] = u
      BY <2>2 DEF Release, Peers
    <3>2. /\ u.pc = t.pc /\ u.op = t.op /\ u.book = t.book /\ u.title = t.title
          /\ u.snap = t.snap /\ u.upload = t.upload
          /\ u.deleted = t.deleted /\ u.inserted = t.inserted
          /\ u.seen = t.seen \ removed
      BY <2>1 DEF Tx
    <3>3. u \in Tx
      BY <2>1 DEF Tx
    <3>4. t.pc = "idle" => u = Idle
      <4>1. ASSUME t = Idle
            PROVE  t.seen = {} /\ t.seen \ removed = {}
        BY <4>1 DEF Idle
      <4>2. u = Advance(t, t.pc, t.snap, t.seen \ removed, t.deleted, t.inserted)
        <5> DEFINE t0 == Advance(t, t.pc, t.snap, t.seen, t.deleted, t.inserted)
        <5>1. t = t0
          BY <2>1, RecordOfTx
        <5>2. [t0 EXCEPT !.seen = t.seen \ removed] =
                Advance(t, t.pc, t.snap, t.seen \ removed, t.deleted, t.inserted)
          BY DEF Advance
        <5> HIDE DEF t0
        <5>3. QED
          BY <5>1, <5>2
      <4>3. t = Advance(t, t.pc, t.snap, t.seen, t.deleted, t.inserted)
        BY <2>1, RecordOfTx
      <4> HIDE DEF u
      <4>4. QED
        BY <2>1, <4>1, <4>2, <4>3 DEF TxShape
    <3> HIDE DEF u
    <3>5. TxShape(u)
      BY <2>1, <3>2, <3>4 DEF TxShape
    <3>6. QED
      BY <2>2, <3>1, <3>2, <3>3, <3>5
  <2>3. CASE tx[q].book # tx[r].book
    <3>1. tx'[q] = tx[q]
      BY <2>3 DEF Release, Peers
    <3>2. QED
      BY <2>1, <2>3, <3>1
  <2>4. QED
    BY <2>2, <2>3
<1>6. tx' \in [Requests -> Tx]
  <2>1. tx' = [q \in Requests |-> tx'[q]]
    BY DEF Release
  <2>2. \A q \in Requests : tx'[q] \in Tx
    BY <1>4, <1>5, IdleType
  <2>3. QED
    BY <2>1, <2>2
<1>7. \A q \in Requests : TxShape(tx'[q])
  BY <1>4, <1>5, IdleType
<1>8. Left(r, removed)
  BY <1>2, <1>4, <1>5 DEF Left
<1>9. QED
  BY <1>3, <1>6, <1>7, <1>8

\* An end keeps what is true of the locks and of the changes of the others.
LEMMA ReleaseKeeps ==
  ASSUME TypeInv, StoreInv, NEW r \in Requests, NEW removed, Release(r, removed),
         \A v \in Books : owner[v] # r => books'[v] = books[v]
  PROVE  (LockInv /\ HoldInv /\ ApartInv)'
<1>1. Idle.deleted = {} /\ Idle.inserted = {} /\ Idle.pc = "idle"
  BY DEF Idle
<1>2. /\ tx'[r] = Idle
      /\ \A q \in Requests \ {r} :
           /\ tx'[q].pc = tx[q].pc /\ tx'[q].book = tx[q].book
           /\ tx'[q].deleted = tx[q].deleted /\ tx'[q].inserted = tx[q].inserted
      /\ \A v \in Books : /\ owner'[v] # r
                          /\ owner[v] # r => owner'[v] = owner[v] /\ work'[v] = work[v]
                          /\ owner[v] = r => owner'[v] = None
  <2>1. Left(r, removed)
    BY Released
  <2>2. QED
    BY <2>1 DEF Left
<1>3. LockInv'
  <2>1. ASSUME NEW q \in Requests, NEW v \in Books, owner'[v] = q
        PROVE  /\ tx'[q].pc \notin {"idle", "find", "duplicate", "insert"}
               /\ IF Backend = "sqlite" THEN \A c \in Books : owner'[c] = q ELSE tx'[q].book = v
               /\ v # tx'[q].book => work'[v] = books'[v]
    <3>1. q # r /\ owner[v] = q /\ work'[v] = work[v] /\ books'[v] = books[v]
      BY <2>1, <1>2, NoneAssumption
    <3>2. /\ tx[q].pc \notin {"idle", "find", "duplicate", "insert"}
          /\ IF Backend = "sqlite" THEN \A c \in Books : owner[c] = q ELSE tx[q].book = v
          /\ v # tx[q].book => work[v] = books[v]
      BY <3>1 DEF StoreInv, LockInv
    <3>3. tx'[q].pc = tx[q].pc /\ tx'[q].book = tx[q].book
      BY <3>1, <1>2
    <3>4. Backend = "sqlite" => \A c \in Books : owner'[c] = q
      BY <3>1, <3>2, <1>2
    <3>5. QED
      BY <3>1, <3>2, <3>3, <3>4
  <2>2. QED
    BY <2>1 DEF LockInv
<1>4. HoldInv'
  <2>1. ASSUME NEW q \in Requests, Backend = "sqlite",
               \/ tx'[q].pc \in {"wiping", "store", "cascade"}
               \/ tx'[q].deleted # {} \/ tx'[q].inserted # {}
        PROVE  \A v \in Books : owner'[v] = q
    <3>1. q # r
      BY <1>1, <2>1, <1>2
    <3>2. \A v \in Books : owner[v] = q
      BY <2>1, <3>1, <1>2 DEF StoreInv, HoldInv
    <3>3. QED
      BY <3>1, <3>2, <1>2
  <2>2. QED
    BY <2>1 DEF HoldInv
<1>5. ApartInv'
  <2>1. ASSUME NEW p \in Requests, NEW q \in Requests, p # q,
               tx'[p].pc # "idle", tx'[q].book = tx'[p].book
        PROVE  /\ tx'[p].deleted = {} \/ tx'[q].deleted = {}
               /\ tx'[p].inserted = {} \/ tx'[q].inserted = {}
    <3>1. CASE q = r
      BY <1>1, <3>1, <1>2
    <3>2. CASE q # r
      <4>1. p # r
        BY <1>1, <2>1, <1>2
      <4>2. QED
        BY <2>1, <3>2, <4>1, <1>2 DEF StoreInv, ApartInv
    <3>3. QED
      BY <3>1, <3>2
  <2>2. QED
    BY <2>1 DEF ApartInv
<1>6. QED
  BY <1>3, <1>4, <1>5

\* A request that is rolled back leaves nothing.
LEMMA RollbackKeeps ==
  ASSUME TypeInv, StoreInv, NEW r \in Requests, Rollback(r)
  PROVE  (TypeInv /\ StoreInv)' /\ UNCHANGED chunks
<1>1. Release(r, {}) /\ books' = books /\ chunks' = chunks
  BY DEF Rollback
<1>2. /\ Idle.deleted = {} /\ Idle.inserted = {}
      /\ Idle.pc = "idle" /\ Idle.op = None /\ Idle.book = None
  BY DEF Idle
<1>3. Left(r, {})
  BY <1>1, Released
<1>4. tx'[r] = Idle
  BY <1>3 DEF Left
<1>5. \A q \in Requests : tx[q].seen \ {} = tx[q].seen
  OBVIOUS
<1>6. \A q \in Requests \ {r} :
        /\ tx'[q].pc = tx[q].pc /\ tx'[q].op = tx[q].op /\ tx'[q].book = tx[q].book
        /\ tx'[q].deleted = tx[q].deleted /\ tx'[q].inserted = tx[q].inserted
        /\ tx'[q].seen = tx[q].seen
  BY <1>5, <1>3 DEF Left
<1>7. \A v \in Books : /\ owner'[v] # r
                       /\ owner[v] # r => owner'[v] = owner[v] /\ work'[v] = work[v]
                       /\ owner[v] = r => owner'[v] = None
  BY <1>3 DEF Left
<1>8. TypeInv'
  BY <1>1, Released DEF TypeInv, TypeOK
<1>9. (LockInv /\ HoldInv /\ ApartInv)'
  BY <1>1, ReleaseKeeps
<1>10. AddInv'
  <2>1. ASSUME NEW q \in Requests, tx'[q].op = "add"
        PROVE  /\ books[tx'[q].book] = None
               /\ \A p \in Requests \ {q} : tx'[p].book = tx'[q].book => tx'[p].pc = "find"
    <3>1. q # r
      BY <1>2, <1>4, <2>1, NoneAssumption DEF Operations
    <3>2. /\ books[tx[q].book] = None
          /\ \A p \in Requests \ {q} : tx[p].book = tx[q].book => tx[p].pc = "find"
      BY <1>6, <2>1, <3>1 DEF StoreInv, AddInv
    <3>3. tx[q].book \in Books
      BY <1>6, <2>1, <3>1, <1>2, NoneAssumption DEF TypeInv, TxShape, Operations
    <3>4. tx'[r].book # tx[q].book
      BY <1>2, <1>4, <3>3, NoneAssumption
    <3>5. QED
      BY <1>6, <3>1, <3>2, <3>4
  <2>2. QED
    BY <1>1, <2>1 DEF AddInv
<1>11. ChunkInv'
  BY <1>1, <1>2, <1>4, <1>6 DEF StoreInv, ChunkInv
<1>12. AliveInv'
  <2>1. ASSUME NEW q \in Requests \ {r}, tx[q].inserted # {}, NEW c, c = tx[q].book
        PROVE  View(q)'[c] # None /\ (owner'[c] \in Requests \ {q} => work'[c] # None)
    <3>1. c \in Books
      BY <2>1 DEF TypeInv, TxShape, Idle
    <3>2. View(q)[c] # None /\ (owner[c] \in Requests \ {q} => work[c] # None)
      BY <2>1 DEF StoreInv, AliveInv
    <3>3. View(q)'[c] = View(q)[c]
      BY <1>1, <1>7, <3>1, NoneAssumption DEF View
    <3>4. QED
      BY <1>7, <3>1, <3>2, <3>3, NoneAssumption
  <2>2. QED
    BY <1>2, <1>4, <1>6, <2>1 DEF AliveInv
<1>13. DropInv'
  <2>1. ASSUME NEW q \in Requests, NEW v \in Books, owner'[v] = q, work'[v] = None,
               books[v] # None
        PROVE  /\ tx'[q].book = v /\ tx'[q].op = "delete"
               /\ tx'[q].pc \in {"cascade", "log", "commit"}
               /\ tx'[q].pc # "cascade" => chunks[v] = tx'[q].deleted
    <3>1. q # r /\ owner[v] = q /\ work[v] = None
      BY <1>7, <2>1, NoneAssumption
    <3>2. QED
      BY <1>6, <2>1, <3>1 DEF StoreInv, DropInv
  <2>2. QED
    BY <1>1, <2>1 DEF DropInv
<1>14. NoOrphans'
  BY <1>1 DEF StoreInv, NoOrphans
<1>15. QED
  BY <1>1, <1>8, <1>9, <1>10, <1>11, <1>12, <1>13, <1>14 DEF StoreInv

\* What a commit makes of the chunk rows: the content of the upload, none, or
\* what was there; whoever deletes them all then is the only one to change them.
LEMMA CommittedChunks ==
  ASSUME TypeInv, StoreInv, NEW r \in Requests, Commit(r), NEW b, b = tx[r].book
  PROVE  /\ b \in Books /\ tx[r].pc = "commit"
         /\ chunks' = [chunks EXCEPT ![b] = chunks'[b]]
         /\ chunks'[b] \in Contents
         /\ \/ tx[r].inserted # {} /\ chunks'[b] = tx[r].inserted /\ tx[r].deleted = chunks[b]
            \/ tx[r].inserted = {} /\ chunks'[b] = {} /\ tx[r].deleted = chunks[b]
            \/ tx[r].inserted = {} /\ chunks'[b] = chunks[b] /\ tx[r].deleted = {}
<1>1. tx[r].pc = "commit" /\ chunks' = [chunks EXCEPT ![b] = Chunks(r, b)]
  BY DEF Commit
<1>2. b \in Books /\ tx[r].inserted \in Contents
  BY <1>1 DEF TypeInv, TxShape
<1>3. /\ chunks \in [Books -> Contents]
      /\ tx[r].deleted \in {{}, chunks[b]}
      /\ tx[r].inserted # {} => tx[r].deleted = chunks[b]
  BY <1>1 DEF StoreInv, ChunkInv
<1>4. chunks'[b] = (chunks[b] \ tx[r].deleted) \cup tx[r].inserted
  BY <1>1, <1>2, <1>3 DEF Chunks
<1>5. chunks' = [chunks EXCEPT ![b] = chunks'[b]]
  BY <1>1, <1>2, <1>3
<1>6. CASE tx[r].inserted # {}
  <2>1. chunks'[b] = tx[r].inserted /\ tx[r].deleted = chunks[b]
    BY <1>3, <1>4, <1>6
  <2>2. QED
    BY <1>1, <1>2, <1>5, <1>6, <2>1
<1>7. CASE tx[r].inserted = {} /\ tx[r].deleted = chunks[b]
  <2>1. chunks'[b] = {}
    BY <1>4, <1>7
  <2>2. QED
    BY <1>1, <1>2, <1>5, <1>7, <2>1, UploadRows
<1>8. CASE tx[r].inserted = {} /\ tx[r].deleted = {}
  <2>1. chunks'[b] = chunks[b]
    BY <1>4, <1>8
  <2>2. QED
    BY <1>1, <1>2, <1>3, <1>5, <1>8, <2>1
<1>9. QED
  BY <1>3, <1>6, <1>7, <1>8

\* A commit replaces the rows of one book by what the request has made of them.
LEMMA CommitKeeps ==
  ASSUME TypeInv, StoreInv, NEW r \in Requests, Commit(r)
  PROVE  (TypeInv /\ StoreInv)'
<1> DEFINE b == tx[r].book
<1>1. /\ b \in Books /\ tx[r].pc = "commit"
      /\ chunks' = [chunks EXCEPT ![b] = chunks'[b]]
      /\ chunks'[b] \in Contents
      /\ \/ tx[r].inserted # {} /\ chunks'[b] = tx[r].inserted /\ tx[r].deleted = chunks[b]
         \/ tx[r].inserted = {} /\ chunks'[b] = {} /\ tx[r].deleted = chunks[b]
         \/ tx[r].inserted = {} /\ chunks'[b] = chunks[b] /\ tx[r].deleted = {}
  BY CommittedChunks
<1>2. Release(r, tx[r].deleted) /\ books' = View(r)
  BY DEF Commit
<1>3. Left(r, tx[r].deleted)
  BY <1>2, Released
<1>4. /\ Idle.deleted = {} /\ Idle.inserted = {}
      /\ Idle.pc = "idle" /\ Idle.op = None /\ Idle.book = None
  BY DEF Idle
<1>5. /\ tx'[r] = Idle
      /\ \A q \in Requests \ {r} :
           /\ tx'[q].pc = tx[q].pc /\ tx'[q].op = tx[q].op /\ tx'[q].book = tx[q].book
           /\ tx'[q].deleted = tx[q].deleted /\ tx'[q].inserted = tx[q].inserted
           /\ tx'[q].seen = IF tx[q].book = b THEN tx[q].seen \ tx[r].deleted ELSE tx[q].seen
  BY <1>3 DEF Left
<1>6. \A v \in Books : /\ owner'[v] # r
                       /\ owner[v] # r => owner'[v] = owner[v] /\ work'[v] = work[v]
                       /\ owner[v] = r => owner'[v] = None
  BY <1>3 DEF Left
<1>7. \A v \in Books : books'[v] = IF owner[v] = r THEN work[v] ELSE books[v]
  BY <1>2 DEF View
<1>8. \A v \in Books : v # b => books'[v] = books[v]
  BY <1>7 DEF StoreInv, LockInv
<1>9. \A v \in Books : v # b => chunks'[v] = chunks[v]
  BY <1>1 DEF TypeInv, TypeOK
<1>10. chunks' \in [Books -> Contents]
  BY <1>1 DEF StoreInv, ChunkInv
<1>11. TypeInv'
  <2>1. books' \in Table
    BY <1>2, ViewTable DEF TypeInv, TypeOK
  <2>2. \A c \in Contents : c \in SUBSET UNION Contents
    OBVIOUS
  <2>3. chunks' \in [Books -> SUBSET UNION Contents]
    BY <1>10, <2>2
  <2>4. QED
    BY <1>2, <2>1, <2>3, Released DEF TypeInv, TypeOK
<1>12. (LockInv /\ HoldInv /\ ApartInv)'
  BY <1>2, <1>7, ReleaseKeeps
\* Who deletes or inserts rows of b as well finds them as they were.
<1>13. ASSUME NEW q \in Requests \ {r}, tx[q].book = b, tx[q].pc # "idle"
       PROVE  /\ tx[q].deleted # {} => chunks'[b] = chunks[b]
              /\ tx[q].inserted # {} => chunks'[b] = chunks[b]
  <2>1. /\ tx[q].deleted = {} \/ tx[r].deleted = {}
        /\ tx[q].inserted = {} \/ tx[r].inserted = {}
    BY <1>1, <1>13 DEF StoreInv, ApartInv
  <2>2. /\ tx[q].deleted \in {{}, chunks[b]}
        /\ tx[q].inserted # {} => tx[q].deleted = chunks[b]
    BY <1>13 DEF StoreInv, ChunkInv
  <2>3. QED
    BY <1>1, <2>1, <2>2
<1>14. AddInv'
  <2>1. ASSUME NEW q \in Requests, tx'[q].op = "add"
        PROVE  /\ books'[tx'[q].book] = None
               /\ \A p \in Requests \ {q} : tx'[p].book = tx'[q].book => tx'[p].pc = "find"
    <3>1. q # r
      BY <1>4, <1>5, <2>1, NoneAssumption DEF Operations
    <3>2. /\ books[tx[q].book] = None
          /\ \A p \in Requests \ {q} : tx[p].book = tx[q].book => tx[p].pc = "find"
      BY <1>5, <2>1, <3>1 DEF StoreInv, AddInv
    <3>3. tx[q].book \in Books
      BY <1>4, <1>5, <2>1, <3>1, NoneAssumption DEF TypeInv, TxShape, Operations
    <3>4. tx'[r].book # tx[q].book
      BY <1>4, <1>5, <3>3, NoneAssumption
    <3>5. tx[q].book # b
      BY <1>1, <3>1, <3>2
    <3>6. QED
      BY <1>5, <1>8, <3>1, <3>2, <3>3, <3>4, <3>5
  <2>2. QED
    BY <2>1 DEF AddInv
<1>15. ChunkInv'
  <2>1. ASSUME NEW q \in Requests, tx'[q].pc # "idle"
        PROVE  /\ tx'[q].seen \in {{}, chunks'[tx'[q].book]}
               /\ tx'[q].deleted \in {{}, chunks'[tx'[q].book]}
               /\ tx'[q].inserted # {} => tx'[q].deleted = chunks'[tx'[q].book]
    <3>1. q # r /\ tx[q].pc # "idle"
      BY <1>4, <1>5, <2>1
    <3>2. /\ tx[q].seen \in {{}, chunks[tx[q].book]}
          /\ tx[q].deleted \in {{}, chunks[tx[q].book]}
          /\ tx[q].inserted # {} => tx[q].deleted = chunks[tx[q].book]
      BY <3>1 DEF StoreInv, ChunkInv
    <3>3. tx[q].book \in Books
      BY <3>1 DEF TypeInv, TxShape
    <3>4. CASE tx[q].book # b
      BY <1>5, <1>9, <3>1, <3>2, <3>3, <3>4
    <3>5. CASE tx[q].book = b
      <4>1. tx[q].seen \ tx[r].deleted \in {{}, chunks'[b]}
        <5>1. CASE tx[r].deleted = chunks[b]
          BY <3>2, <3>5, <5>1
        <5>2. CASE tx[r].deleted = {} /\ tx[r].deleted # chunks[b]
          BY <1>1, <3>2, <3>5, <5>2
        <5>3. QED
          BY <1>1, <5>1, <5>2
      <4>2. /\ tx[q].deleted \in {{}, chunks'[b]}
            /\ tx[q].inserted # {} => tx[q].deleted = chunks'[b]
        BY <1>13, <3>1, <3>2, <3>5
      <4>3. QED
        BY <1>5, <3>1, <3>5, <4>1, <4>2
    <3>6. QED
      BY <3>4, <3>5
  <2>2. QED
    BY <1>10, <2>1 DEF ChunkInv
<1>16. AliveInv'
  <2>1. ASSUME NEW q \in Requests \ {r}, tx[q].inserted # {}, NEW c, c = tx[q].book
        PROVE  View(q)'[c] # None /\ (owner'[c] \in Requests \ {q} => work'[c] # None)
    <3>1. c \in Books
      BY <2>1 DEF TypeInv, TxShape, Idle
    <3>2. View(q)[c] # None /\ (owner[c] \in Requests \ {q} => work[c] # None)
      BY <2>1 DEF StoreInv, AliveInv
    <3>3. View(q)'[c] # None
      BY <1>6, <1>7, <3>1, <3>2, NoneAssumption DEF View
    <3>4. QED
      BY <1>6, <3>1, <3>2, <3>3, NoneAssumption
  <2>2. QED
    BY <1>4, <1>5, <2>1 DEF AliveInv
<1>17. DropInv'
  <2>1. ASSUME NEW q \in Requests, NEW v \in Books, owner'[v] = q, work'[v] = None,
               books'[v] # None
        PROVE  /\ tx'[q].book = v /\ tx'[q].op = "delete"
               /\ tx'[q].pc \in {"cascade", "log", "commit"}
               /\ tx'[q].pc # "cascade" => chunks'[v] = tx'[q].deleted
    <3>1. q # r /\ owner[v] = q /\ work[v] = None /\ books[v] # None
      BY <1>6, <1>7, <2>1, NoneAssumption
    <3>2. /\ tx[q].book = v /\ tx[q].op = "delete"
          /\ tx[q].pc \in {"cascade", "log", "commit"}
          /\ tx[q].pc # "cascade" => chunks[v] = tx[q].deleted
      BY <3>1 DEF StoreInv, DropInv
    <3>3. tx[q].pc # "cascade" => chunks'[v] = chunks[v]
      <4>1. CASE v # b
        BY <1>9, <4>1
      <4>2. CASE v = b /\ tx[q].pc # "cascade"
        <5>1. tx[r].inserted = {}
          BY <3>1, <4>2 DEF StoreInv, AliveInv
        <5>2. chunks[b] # {} => chunks'[b] = chunks[b]
          BY <1>13, <3>1, <3>2, <4>2
        <5>3. QED
          BY <1>1, <4>2, <5>1, <5>2
      <4>3. QED
        BY <4>1, <4>2
    <3>4. QED
      BY <1>5, <3>1, <3>2, <3>3
  <2>2. QED
    BY <2>1 DEF DropInv
<1>18. NoOrphans'
  <2>1. ASSUME NEW v \in Books, books'[v] = None
        PROVE  chunks'[v] = {}
    <3>1. CASE v # b
      BY <1>8, <1>9, <2>1, <3>1 DEF StoreInv, NoOrphans
    <3>2. CASE v = b
      <4>1. tx[r].inserted = {}
        BY <1>7, <2>1, <3>2 DEF StoreInv, AliveInv, View
      <4>2. CASE books[b] = None
        BY <1>1, <3>2, <4>1, <4>2 DEF StoreInv, NoOrphans
      <4>3. CASE books[b] # None
        <5>1. owner[b] = r /\ work[b] = None
          BY <1>7, <2>1, <3>2, <4>3
        <5>2. chunks[b] = tx[r].deleted
          BY <1>1, <4>3, <5>1 DEF StoreInv, DropInv
        <5>3. QED
          BY <1>1, <3>2, <4>1, <5>2
      <4>4. QED
        BY <4>2, <4>3
    <3>3. QED
      BY <3>1, <3>2
  <2>2. QED
    BY <2>1 DEF NoOrphans
<1>19. QED
  BY <1>11, <1>12, <1>14, <1>15, <1>16, <1>17, <1>18 DEF StoreInv

-----------------------------------------------------------------------------
(* Arrival *)

\* A request that arrives has changed nothing.  One that adds a book is alone
\* with its id, and the others look for the book first.
LEMMA BeginKeeps ==
  ASSUME TypeInv, StoreInv, NEW r \in Requests, NEW op, NEW t, Begin(r, op, t),
         t \in Tx, TxShape(t), t.pc \in {"duplicate", "find"},
         t.deleted = {}, t.inserted = {}, t.seen = {},
         t.op = "add" => t.book \in FreshBooks,
         t.pc = "duplicate" => t.op = "add"
  PROVE  (TypeInv /\ StoreInv)' /\ UNCHANGED chunks
<1>1. /\ tx[r].pc = "idle" /\ tx' = [tx EXCEPT ![r] = t]
      /\ books' = books /\ chunks' = chunks /\ work' = work /\ owner' = owner
  BY DEF Begin
<1>2. tx \in [Requests -> Tx]
  BY DEF TypeInv, TypeOK
<1>3. tx'[r] = t /\ (\A q \in Requests \ {r} : tx'[q] = tx[q]) /\ tx' \in [Requests -> Tx]
  BY <1>1, <1>2
<1>4. TypeInv'
  BY <1>1, <1>3 DEF TypeInv, TypeOK
<1>5. t.book \in Books
  BY DEF TxShape
<1>6. \A v \in Books : owner[v] # r
  BY <1>1 DEF StoreInv, LockInv
<1>7. LockInv'
  BY <1>1, <1>3, <1>6 DEF StoreInv, LockInv
<1>8. HoldInv'
  BY <1>1, <1>3 DEF StoreInv, HoldInv
<1>9. AddInv'
  <2>1. ASSUME t.op = "add"
        PROVE  books[t.book] = None /\ \A q \in Requests \ {r} : tx[q].book # t.book
    BY <2>1 DEF FreshBooks
  <2>2. ASSUME NEW q \in Requests \ {r}, tx[q].op = "add"
        PROVE  /\ books[tx[q].book] = None
               /\ \A p \in Requests \ {q, r} : tx[p].book = tx[q].book => tx[p].pc = "find"
               /\ t.book = tx[q].book => t.pc = "find"
    <3>1. t.op = "add" => tx[q].book # t.book
      BY <2>1
    <3>2. QED
      BY <2>2, <3>1 DEF StoreInv, AddInv
  <2>3. QED
    BY <1>1, <1>3, <2>1, <2>2 DEF AddInv
<1>10. ChunkInv'
  BY <1>1, <1>3 DEF StoreInv, ChunkInv
<1>11. ApartInv'
  <2>1. ASSUME NEW p \in Requests, NEW q \in Requests, p # q,
               tx'[p].pc # "idle", tx'[q].book = tx'[p].book
        PROVE  /\ tx'[p].deleted = {} \/ tx'[q].deleted = {}
               /\ tx'[p].inserted = {} \/ tx'[q].inserted = {}
    <3>1. CASE p = r \/ q = r
      BY <1>3, <3>1
    <3>2. CASE p # r /\ q # r
      BY <1>3, <2>1, <3>2 DEF StoreInv, ApartInv
    <3>3. QED
      BY <3>1, <3>2
  <2>2. QED
    BY <2>1 DEF ApartInv
<1>12. AliveInv'
  <2>1. ASSUME NEW q \in Requests, tx'[q].inserted # {}, NEW c, c = tx[q].book
        PROVE  /\ q # r
               /\ View(q)'[c] # None /\ (owner'[c] \in Requests \ {q} => work'[c] # None)
    <3>1. q # r
      BY <1>3, <2>1
    <3>2. c \in Books /\ tx[q].inserted # {}
      BY <1>3, <2>1, <3>1 DEF TypeInv, TxShape, Idle
    <3>3. QED
      BY <1>1, <2>1, <3>1, <3>2 DEF StoreInv, AliveInv, View
  <2>2. QED
    BY <1>3, <2>1 DEF AliveInv
<1>13. DropInv'
  BY <1>1, <1>3, <1>6 DEF StoreInv, DropInv
<1>14. NoOrphans'
  BY <1>1 DEF StoreInv, NoOrphans
<1>15. QED
  BY <1>1, <1>4, <1>7, <1>8, <1>9, <1>10, <1>11, <1>12, <1>13, <1>14 DEF StoreInv

\* Each operation arrives like that.
LEMMA ArriveKeeps ==
  ASSUME TypeInv, StoreInv, NEW r \in Requests, Arrive(r)
  PROVE  (TypeInv /\ StoreInv)' /\ UNCHANGED chunks
<1>1. CASE AddBook(r)
  <2>1. PICK b \in FreshBooks, n \in Titles, m \in Mimes \cup {None}, u \in Uploads \cup {<<>>} :
          Begin(r, "add", [Idle EXCEPT !.pc = "duplicate", !.op = "add", !.book = b, !.title = n,
                                       !.mime = m, !.upload = u])
    BY <1>1 DEF AddBook
  <2> DEFINE t == [Idle EXCEPT !.pc = "duplicate", !.op = "add", !.book = b, !.title = n,
                               !.mime = m, !.upload = u]
  <2>2. t \in Tx
    BY DEF Idle, Tx, Steps, Operations, FreshBooks
  <2>3. /\ t.pc = "duplicate" /\ t.op = "add" /\ t.book = b /\ t.title = n
        /\ t.seen = {} /\ t.deleted = {} /\ t.inserted = {}
    BY DEF Idle
  <2> HIDE DEF t
  <2>4. TxShape(t)
    BY <2>3, UploadRows DEF TxShape, Operations, FreshBooks
  <2>5. Begin(r, "add", t)
    BY <2>1 DEF t
  <2>6. QED
    BY <2>2, <2>3, <2>4, <2>5, BeginKeeps
<1>2. CASE PutCover(r)
  <2>1. PICK b \in Books, m \in Mimes \cup {None}, u \in Uploads :
          Begin(r, "put", [Idle EXCEPT !.pc = "find", !.op = "put", !.book = b, !.mime = m,
                                       !.upload = u])
    BY <1>2 DEF PutCover
  <2> DEFINE t == [Idle EXCEPT !.pc = "find", !.op = "put", !.book = b, !.mime = m,
                               !.upload = u]
  <2>2. t \in Tx
    BY DEF Idle, Tx, Steps, Operations
  <2>3. /\ t.pc = "find" /\ t.op = "put" /\ t.book = b
        /\ t.seen = {} /\ t.deleted = {} /\ t.inserted = {}
    BY DEF Idle
  <2> HIDE DEF t
  <2>4. TxShape(t)
    BY <2>3, UploadRows DEF TxShape, Operations
  <2>5. Begin(r, "put", t)
    BY <2>1 DEF t
  <2>6. QED
    BY <2>2, <2>3, <2>4, <2>5, BeginKeeps
<1>3. CASE PatchBook(r)
  <2>1. PICK b \in Books, n \in Titles :
          Begin(r, "patch", [Idle EXCEPT !.pc = "find", !.op = "patch", !.book = b, !.title = n])
    BY <1>3 DEF PatchBook
  <2> DEFINE t == [Idle EXCEPT !.pc = "find", !.op = "patch", !.book = b, !.title = n]
  <2>2. t \in Tx
    BY DEF Idle, Tx, Steps, Operations
  <2>3. /\ t.pc = "find" /\ t.op = "patch" /\ t.book = b /\ t.title = n
        /\ t.seen = {} /\ t.deleted = {} /\ t.inserted = {}
    BY DEF Idle
  <2> HIDE DEF t
  <2>4. TxShape(t)
    BY <2>3, UploadRows DEF TxShape, Operations
  <2>5. Begin(r, "patch", t)
    BY <2>1 DEF t
  <2>6. QED
    BY <2>2, <2>3, <2>4, <2>5, BeginKeeps
<1>4. CASE DeleteBook(r)
  <2>1. PICK b \in Books :
          Begin(r, "delete", [Idle EXCEPT !.pc = "find", !.op = "delete", !.book = b])
    BY <1>4 DEF DeleteBook
  <2> DEFINE t == [Idle EXCEPT !.pc = "find", !.op = "delete", !.book = b]
  <2>2. t \in Tx
    BY DEF Idle, Tx, Steps, Operations
  <2>3. /\ t.pc = "find" /\ t.op = "delete" /\ t.book = b
        /\ t.seen = {} /\ t.deleted = {} /\ t.inserted = {}
    BY DEF Idle
  <2> HIDE DEF t
  <2>4. TxShape(t)
    BY <2>3, UploadRows DEF TxShape, Operations
  <2>5. Begin(r, "delete", t)
    BY <2>1 DEF t
  <2>6. QED
    BY <2>2, <2>3, <2>4, <2>5, BeginKeeps
<1>5. QED
  BY <1>1, <1>2, <1>3, <1>4 DEF Arrive

-----------------------------------------------------------------------------
(* The statements of a request *)

\* What the invariants say of one running request.
LEMMA Running ==
  ASSUME TypeInv, StoreInv, NEW r \in Requests, tx[r].pc # "idle", NEW b, b = tx[r].book
  PROVE  /\ tx \in [Requests -> Tx] /\ tx[r] \in Tx /\ TxShape(tx[r]) /\ b \in Books
         /\ tx[r].seen \in {{}, chunks[b]} /\ tx[r].deleted \in {{}, chunks[b]}
         /\ tx[r].inserted # {} => tx[r].deleted = chunks[b]
         /\ \A q \in Requests \ {r} : tx[q].book = b =>
              /\ tx[r].deleted = {} \/ tx[q].deleted = {}
              /\ tx[r].inserted = {} \/ tx[q].inserted = {}
         /\ tx[r].inserted # {} =>
              View(r)[b] # None /\ (owner[b] \in Requests \ {r} => work[b] # None)
         /\ View(r)[b] = None /\ books[b] # None =>
              /\ tx[r].op = "delete" /\ tx[r].pc \in {"cascade", "log", "commit"}
              /\ tx[r].pc # "cascade" => chunks[b] = tx[r].deleted
         /\ (/\ Backend = "sqlite"
             /\ \/ tx[r].pc \in {"wiping", "store", "cascade"}
                \/ tx[r].deleted # {} \/ tx[r].inserted # {})
            => \A v \in Books : owner[v] = r
<1>1. tx \in [Requests -> Tx] /\ tx[r] \in Tx /\ TxShape(tx[r]) /\ b \in Books
  BY DEF TypeInv, TypeOK, TxShape
<1>2. /\ tx[r].seen \in {{}, chunks[b]} /\ tx[r].deleted \in {{}, chunks[b]}
      /\ tx[r].inserted # {} => tx[r].deleted = chunks[b]
  BY DEF StoreInv, ChunkInv
<1>3. \A q \in Requests \ {r} : tx[q].book = b =>
        /\ tx[r].deleted = {} \/ tx[q].deleted = {}
        /\ tx[r].inserted = {} \/ tx[q].inserted = {}
  BY DEF StoreInv, ApartInv
<1>4. tx[r].inserted # {} =>
        View(r)[b] # None /\ (owner[b] \in Requests \ {r} => work[b] # None)
  BY DEF StoreInv, AliveInv
<1>5. View(r)[b] = None /\ books[b] # None =>
        /\ tx[r].op = "delete" /\ tx[r].pc \in {"cascade", "log", "commit"}
        /\ tx[r].pc # "cascade" => chunks[b] = tx[r].deleted
  BY <1>1 DEF StoreInv, DropInv, View
<1>6. (/\ Backend = "sqlite"
       /\ \/ tx[r].pc \in {"wiping", "store", "cascade"}
          \/ tx[r].deleted # {} \/ tx[r].inserted # {})
      => \A v \in Books : owner[v] = r
  BY DEF StoreInv, HoldInv
<1>7. QED
  BY <1>1, <1>2, <1>3, <1>4, <1>5, <1>6

\* A statement that neither deletes chunk rows, nor inserts any, nor deletes
\* the book.
LEMMA QuietKeeps ==
  ASSUME TypeInv, StoreInv, NEW r \in Requests, NEW t, NEW w, Statement(r, t, w),
         t.deleted = tx[r].deleted, t.inserted = tx[r].inserted,
         t.seen \in {{}, chunks[tx[r].book]},
         w # None \/ w = View(r)[tx[r].book],
         tx[r].pc \notin {"cascade", "commit"}, tx[r].pc = "log" => t.pc = "commit",
         tx[r].pc = "find" => books[tx[r].book] # None,
         t.pc = "insert" => \A v \in Books : owner'[v] # r,
         Backend = "sqlite" /\ t.pc \in {"wiping", "store", "cascade"} =>
           \A v \in Books : owner'[v] = r
  PROVE  (TypeInv /\ StoreInv)' /\ UNCHANGED chunks
<1> DEFINE b == tx[r].book
<1>1. /\ tx[r].pc # "idle" /\ t.book = b /\ t.op = tx[r].op /\ UNCHANGED chunks
      /\ \A v \in Books : owner[v] = r => owner'[v] = r
  BY NoneAssumption DEF Statement, Locks
<1>2. Locking(r, t)
  <2>1. Backend = "sqlite" /\ (tx[r].deleted # {} \/ tx[r].inserted # {}) =>
          \A v \in Books : owner[v] = r
    BY <1>1, Running
  <2>2. QED
    BY <1>1, <2>1 DEF Locking
<1>3. Changing(r, t)
  <2>1. /\ tx[r].deleted \in {{}, chunks[b]}
        /\ tx[r].inserted # {} => tx[r].deleted = chunks[b]
        /\ \A q \in Requests \ {r} : tx[q].book = b =>
             /\ tx[r].deleted = {} \/ tx[q].deleted = {}
             /\ tx[r].inserted = {} \/ tx[q].inserted = {}
    BY <1>1, Running
  <2>2. QED
    BY <1>1, <2>1 DEF Changing
<1>4. Living(r, t, w)
  <2>1. /\ tx[r].inserted # {} =>
             View(r)[b] # None /\ (owner[b] \in Requests \ {r} => work[b] # None)
        /\ View(r)[b] = None /\ books[b] # None =>
             /\ tx[r].op = "delete" /\ tx[r].pc \in {"cascade", "log", "commit"}
             /\ tx[r].pc # "cascade" => chunks[b] = tx[r].deleted
    BY <1>1, Running
  <2>2. QED
    BY <1>1, <2>1 DEF Living
<1>5. QED
  BY <1>1, <1>2, <1>3, <1>4, StatementKeeps

\* get_by_title_author.
LEMMA DuplicateKeeps ==
  ASSUME TypeInv, StoreInv, NEW r \in Requests, Duplicate(r)
  PROVE  (TypeInv /\ StoreInv)' /\ UNCHANGED chunks
<1> DEFINE b == tx[r].book
           t == Advance(tx[r], "insert", tx[r].snap, tx[r].seen, tx[r].deleted, tx[r].inserted)
<1>1. tx[r].pc = "duplicate"
  BY DEF Duplicate, At
<1>2. CASE Rollback(r)
  BY <1>2, RollbackKeeps
<1>3. CASE ~ Rollback(r)
  <2>1. tx \in [Requests -> Tx] /\ tx[r] \in Tx /\ TxShape(tx[r]) /\ b \in Books
    BY <1>1, Running
  <2>2. Go(r, "insert") /\ UNCHANGED <<books, chunks, work, owner>>
    BY <1>3 DEF Duplicate
  <2>3. tx' = [tx EXCEPT ![r] = t]
    BY <2>1, <2>2, AdvancePc DEF Go
  <2>4. /\ t.pc = "insert" /\ t.book = b /\ t.op = tx[r].op /\ t.title = tx[r].title
        /\ t.seen = tx[r].seen /\ t.deleted = tx[r].deleted /\ t.inserted = tx[r].inserted
    BY DEF Advance
  <2>5. t \in Tx
    BY <2>1 DEF Advance, Tx, Steps
  <2> HIDE DEF t
  <2>6. TxShape(t)
    BY <1>1, <2>1, <2>4 DEF TxShape
  <2>7. \A v \in Books : owner[v] # r
    BY <1>1 DEF StoreInv, LockInv
  <2>8. Statement(r, t, View(r)[b])
    BY <1>1, <2>1, <2>2, <2>3, <2>4, <2>5, <2>6, LocksKept DEF Statement, StoreInv
  <2>9. t.seen = {}
    BY <1>1, <2>1, <2>4 DEF TxShape
  <2>10. QED
    BY <1>1, <2>2, <2>4, <2>7, <2>8, <2>9, QuietKeeps
<1>4. QED
  BY <1>2, <1>3

\* Nobody else has the id of a book that is being added, so nobody has locked
\* its row.
LEMMA InsertFree ==
  ASSUME TypeInv, StoreInv, NEW r \in Requests, tx[r].pc = "insert", Blockers(r) = {}
  PROVE  Free(r)
<1> DEFINE b == tx[r].book
<1>1. TxShape(tx[r]) /\ b \in Books
  BY Running
<1>2. CASE Backend = "sqlite"
  BY <1>1, <1>2, NotBlocked
<1>3. CASE Backend # "sqlite"
  <2>1. ASSUME NEW q \in Requests \ {r}
        PROVE  owner[b] # q
    <3>1. tx[r].op = "add"
      BY <1>1 DEF TxShape
    <3>2. tx[q].book = b => tx[q].pc = "find"
      BY <3>1 DEF StoreInv, AddInv
    <3>3. owner[b] = q => tx[q].pc # "find" /\ tx[q].book = b
      BY <1>1, <1>3 DEF StoreInv, LockInv
    <3>4. QED
      BY <3>2, <3>3
  <2>2. owner[b] \in Requests \cup {None}
    BY <1>1 DEF TypeInv, TypeOK
  <2>3. QED
    BY <1>3, <2>1, <2>2 DEF Free, Locked
<1>4. QED
  BY <1>2, <1>3

\* The INSERT of a book.
LEMMA InsertKeeps ==
  ASSUME TypeInv, StoreInv, NEW r \in Requests, Insert(r)
  PROVE  (TypeInv /\ StoreInv)' /\ UNCHANGED chunks
<1> DEFINE b == tx[r].book
           row == [title |-> tx[r].title, mime |-> tx[r].mime, size |-> 0, count |-> 0]
           t == Advance(tx[r], "wipe", row, tx[r].seen, tx[r].deleted, tx[r].inserted)
<1>1. /\ tx[r].pc = "insert" /\ Blockers(r) = {}
      /\ Write(r, b, row) /\ UNCHANGED <<books, chunks>>
      /\ tx' = [tx EXCEPT ![r].snap = row, ![r].pc = "wipe"]
  BY DEF Insert, At
<1>2. tx \in [Requests -> Tx] /\ tx[r] \in Tx /\ TxShape(tx[r]) /\ b \in Books
  BY <1>1, Running
<1>3. tx' = [tx EXCEPT ![r] = t]
  BY <1>1, <1>2, AdvanceSnap
<1>4. row \in Row /\ row # None
  BY <1>1, <1>2, UploadRows, NoneAssumption DEF Row, Tx, TxShape
<1>5. /\ t.pc = "wipe" /\ t.book = b /\ t.op = tx[r].op /\ t.title = tx[r].title
      /\ t.seen = tx[r].seen /\ t.deleted = tx[r].deleted /\ t.inserted = tx[r].inserted
      /\ t.snap = row
  BY DEF Advance
<1>6. t \in Tx
  BY <1>2, <1>4 DEF Advance, Tx, Steps
<1> HIDE DEF t, row
<1>7. TxShape(t)
  BY <1>1, <1>2, <1>4, <1>5 DEF TxShape
<1>8. Free(r)
  BY <1>1, InsertFree
<1>9. Locks(r, row)
  BY <1>1, <1>2, <1>4, <1>8, LocksWritten DEF StoreInv
<1>10. Statement(r, t, row)
  BY <1>1, <1>2, <1>3, <1>5, <1>6, <1>7, <1>9 DEF Statement
<1>11. t.seen = {}
  BY <1>1, <1>2, <1>5 DEF TxShape
<1>12. QED
  BY <1>1, <1>4, <1>5, <1>10, <1>11, QuietKeeps

\* ensure_exists / get_by_id.
LEMMA FindKeeps ==
  ASSUME TypeInv, StoreInv, NEW r \in Requests, Find(r)
  PROVE  (TypeInv /\ StoreInv)' /\ UNCHANGED chunks
<1> DEFINE b == tx[r].book
           p == CASE tx[r].op = "put" -> "mime"
                  [] tx[r].op = "patch" -> "title"
                  [] tx[r].op = "delete" -> "drop"
           t == Advance(tx[r], p, books[b], tx[r].seen, tx[r].deleted, tx[r].inserted)
<1>1. tx[r].pc = "find"
  BY DEF Find, At
<1>2. CASE Rollback(r)
  BY <1>2, RollbackKeeps
<1>3. CASE ~ Rollback(r)
  <2>1. tx \in [Requests -> Tx] /\ tx[r] \in Tx /\ TxShape(tx[r]) /\ b \in Books
    BY <1>1, Running
  <2>2. /\ books[b] # None /\ UNCHANGED <<books, chunks, work, owner>>
        /\ tx' = [tx EXCEPT ![r].snap = books[b], ![r].pc = p]
    BY <1>3 DEF Find
  <2>3. tx' = [tx EXCEPT ![r] = t]
    <3> HIDE DEF p
    <3>1. QED
      BY <2>1, <2>2, AdvanceSnap
  <2>4. books[b] \in Row
    BY <2>1, <2>2 DEF TypeInv, TypeOK, Table
  <2>5. tx[r].op # "add"
    BY <1>1, <2>1, <2>2 DEF StoreInv, AddInv
  <2>6. /\ p \in {"mime", "title", "drop"}
        /\ p = "mime" => tx[r].op = "put"
        /\ p = "title" => tx[r].op = "patch"
        /\ p = "drop" => tx[r].op = "delete"
    BY <1>1, <2>1, <2>5 DEF TxShape, Operations
  <2> HIDE DEF p
  <2>7. /\ t.pc = p /\ t.book = b /\ t.op = tx[r].op /\ t.title = tx[r].title
        /\ t.seen = tx[r].seen /\ t.deleted = tx[r].deleted /\ t.inserted = tx[r].inserted
        /\ t.snap = books[b]
    BY DEF Advance
  <2>8. t \in Tx
    BY <2>1, <2>4, <2>6 DEF Advance, Tx, Steps
  <2> HIDE DEF t
  <2>9. TxShape(t)
    BY <1>1, <2>1, <2>4, <2>6, <2>7 DEF TxShape
  <2>10. Statement(r, t, View(r)[b])
    BY <1>1, <2>1, <2>2, <2>3, <2>6, <2>7, <2>8, <2>9, LocksKept DEF Statement, StoreInv
  <2>11. t.seen = {}
    BY <1>1, <2>1, <2>7 DEF TxShape
  <2>12. QED
    BY <1>1, <2>2, <2>6, <2>7, <2>10, <2>11, QuietKeeps
<1>4. QED
  BY <1>2, <1>3

\* The row of the book of r after a flush.
Flushed(r) ==
  LET row == View(r)[tx[r].book]
  IN IF Flushes(r) THEN Patched(row, tx[r].snap, Object(r)) ELSE row

\* The UPDATE of a flush: only of a row that is there.
LEMMA FlushLocks ==
  ASSUME TypeInv, StoreInv, NEW r \in Requests, NEW p, Flush(r, p), Blockers(r) = {},
         tx[r].pc \in {"mime", "meta", "title"}, Flushes(r) => View(r)[tx[r].book] # None
  PROVE  /\ Locks(r, Flushed(r))
         /\ Flushed(r) # None \/ Flushed(r) = View(r)[tx[r].book]
<1> DEFINE b == tx[r].book
<1>1. b \in Books
  BY Running
<1>2. CASE Flushes(r)
  <2>1. View(r)[b] \in Row /\ Object(r) \in Row
    BY <1>1, <1>2, ObjectType, ViewTable DEF TypeInv, TypeOK, Table
  <2>2. Flushed(r) \in Row /\ Flushed(r) # None
    BY <1>2, <2>1, PatchedType, NoneAssumption DEF Flushed
  <2>3. Free(r)
    BY <1>1, <1>2, NotBlocked
  <2>4. Write(r, b, Flushed(r))
    BY <1>2 DEF Flush, Flushed
  <2>5. QED
    BY <1>1, <2>2, <2>3, <2>4, LocksWritten DEF StoreInv
<1>3. CASE ~ Flushes(r)
  BY <1>1, <1>3, LocksKept DEF Flush, Flushed, StoreInv
<1>4. QED
  BY <1>2, <1>3

\* A flush, and what it leaves in the identity map.
LEMMA FlushKeeps ==
  ASSUME TypeInv, StoreInv, NEW r \in Requests, NEW p, Flush(r, p), Blockers(r) = {},
         \/ tx[r].pc = "mime" /\ p = "wipe"
         \/ tx[r].pc \in {"meta", "title"} /\ p = "log",
         Flushes(r) => View(r)[tx[r].book] # None
  PROVE  (TypeInv /\ StoreInv)' /\ UNCHANGED chunks
<1> DEFINE b == tx[r].book
           t == Advance(tx[r], p, Object(r), tx[r].seen, tx[r].deleted, tx[r].inserted)
<1>1. tx \in [Requests -> Tx] /\ tx[r] \in Tx /\ TxShape(tx[r]) /\ b \in Books
  BY Running
<1>2. UNCHANGED <<books, chunks>> /\ tx' = [tx EXCEPT ![r].snap = Object(r), ![r].pc = p]
  BY DEF Flush
<1>3. tx' = [tx EXCEPT ![r] = t]
  BY <1>1, <1>2, AdvanceSnap
<1>4. Object(r) \in Row
  BY ObjectType
<1>5. /\ t.pc = p /\ t.book = b /\ t.op = tx[r].op /\ t.title = tx[r].title
      /\ t.seen = tx[r].seen /\ t.deleted = tx[r].deleted /\ t.inserted = tx[r].inserted
      /\ t.snap = Object(r)
  BY DEF Advance
<1>6. t \in Tx
  BY <1>1, <1>4 DEF Advance, Tx, Steps
<1> HIDE DEF t
<1>7. TxShape(t)
  BY <1>1, <1>4, <1>5 DEF TxShape
<1>8. PICK w : Locks(r, w) /\ (w # None \/ w = View(r)[b])
  BY FlushLocks
<1>9. Statement(r, t, w)
  BY <1>1, <1>2, <1>3, <1>5, <1>6, <1>7, <1>8 DEF Statement
<1>10. t.seen = {}
  BY <1>1, <1>5 DEF TxShape
<1>11. QED
  BY <1>2, <1>5, <1>8, <1>9, <1>10, QuietKeeps

\* The flushes of a request.
LEMMA FlushesKeep ==
  ASSUME TypeInv, StoreInv, NEW r \in Requests, Mime(r) \/ SaveMeta(r) \/ SaveTitle(r)
  PROVE  (TypeInv /\ StoreInv)' /\ UNCHANGED chunks
<1>1. CASE Rollback(r)
  BY <1>1, RollbackKeeps
<1>2. CASE ~ Rollback(r) /\ Mime(r)
  BY <1>2, FlushKeeps DEF Mime, At
<1>3. CASE ~ Rollback(r) /\ SaveMeta(r)
  BY <1>3, FlushKeeps DEF SaveMeta, At
<1>4. CASE ~ Rollback(r) /\ SaveTitle(r)
  BY <1>4, FlushKeeps DEF SaveTitle, At
<1>5. QED
  BY <1>1, <1>2, <1>3, <1>4

\* _delete_chunks sees the rows that are committed.
LEMMA WipeKeeps ==
  ASSUME TypeInv, StoreInv, NEW r \in Requests, Wipe(r)
  PROVE  (TypeInv /\ StoreInv)' /\ UNCHANGED chunks
<1> DEFINE b == tx[r].book
           t == Advance(tx[r], "wiping", tx[r].snap, chunks[b], tx[r].deleted, tx[r].inserted)
<1>1. /\ tx[r].pc = "wipe" /\ Blockers(r) = {} /\ Touch(r) /\ UNCHANGED <<books, chunks>>
      /\ tx' = [tx EXCEPT ![r].seen = chunks[b], ![r].pc = "wiping"]
  BY DEF Wipe, At
<1>2. tx \in [Requests -> Tx] /\ tx[r] \in Tx /\ TxShape(tx[r]) /\ b \in Books
  BY <1>1, Running
<1>3. tx' = [tx EXCEPT ![r] = t]
  BY <1>1, <1>2, AdvanceSeen
<1>4. /\ t.pc = "wiping" /\ t.book = b /\ t.op = tx[r].op /\ t.title = tx[r].title
      /\ t.seen = chunks[b] /\ t.deleted = tx[r].deleted /\ t.inserted = tx[r].inserted
      /\ t.snap = tx[r].snap
  BY DEF Advance
<1>5. chunks[b] \in SUBSET UNION Contents
  BY <1>2 DEF TypeInv, TypeOK
<1>6. t \in Tx
  BY <1>2, <1>5 DEF Advance, Tx, Steps
<1> HIDE DEF t
<1>7. TxShape(t)
  BY <1>1, <1>2, <1>4 DEF TxShape
<1>8. Locks(r, View(r)[b]) /\ (Backend = "sqlite" => \A v \in Books : owner'[v] = r)
  BY <1>1, <1>2, NotBlocked, LocksTouched DEF StoreInv
<1>9. Statement(r, t, View(r)[b])
  BY <1>1, <1>2, <1>3, <1>4, <1>6, <1>7, <1>8 DEF Statement
<1>10. QED
  BY <1>1, <1>4, <1>8, <1>9, QuietKeeps

\* The entry in the log.
LEMMA LogKeeps ==
  ASSUME TypeInv, StoreInv, NEW r \in Requests, Log(r)
  PROVE  (TypeInv /\ StoreInv)' /\ UNCHANGED chunks
<1> DEFINE b == tx[r].book
           t == Advance(tx[r], "commit", tx[r].snap, tx[r].seen, tx[r].deleted, tx[r].inserted)
<1>1. /\ tx[r].pc = "log" /\ Blockers(r) = {} /\ Touch(r) /\ UNCHANGED <<books, chunks>>
      /\ Go(r, "commit")
  BY DEF Log, At
<1>2. tx \in [Requests -> Tx] /\ tx[r] \in Tx /\ TxShape(tx[r]) /\ b \in Books
  BY <1>1, Running
<1>3. tx' = [tx EXCEPT ![r] = t]
  BY <1>1, <1>2, AdvancePc DEF Go
<1>4. /\ t.pc = "commit" /\ t.book = b /\ t.op = tx[r].op /\ t.title = tx[r].title
      /\ t.seen = tx[r].seen /\ t.deleted = tx[r].deleted /\ t.inserted = tx[r].inserted
      /\ t.snap = tx[r].snap
  BY DEF Advance
<1>5. t \in Tx
  BY <1>2 DEF Advance, Tx, Steps
<1> HIDE DEF t
<1>6. TxShape(t)
  BY <1>1, <1>2, <1>4 DEF TxShape
<1>7. Locks(r, View(r)[b])
  BY <1>1, <1>2, NotBlocked, LocksTouched DEF StoreInv
<1>8. Statement(r, t, View(r)[b])
  BY <1>1, <1>2, <1>3, <1>4, <1>5, <1>6, <1>7 DEF Statement
<1>9. t.seen = {}
  BY <1>1, <1>2, <1>4 DEF TxShape
<1>10. QED
  BY <1>1, <1>4, <1>8, <1>9, QuietKeeps

\* The rows that _delete_chunks or the cascade of a deletion take away: no
\* other request has taken one of them.
LEMMA DeletedApart ==
  ASSUME TypeInv, StoreInv, NEW r \in Requests, Blockers(r) = {}, NEW d,
         \/ tx[r].pc = "wiping" /\ d = tx[r].seen
         \/ tx[r].pc = "cascade" /\ d = chunks[tx[r].book]
  PROVE  \A q \in Requests \ {r} :
           tx[q].book = tx[r].book => d = {} \/ tx[q].deleted = {}
<1> DEFINE b == tx[r].book
<1> SUFFICES ASSUME NEW q \in Requests \ {r}, tx[q].book = b, d # {}, tx[q].deleted # {}
             PROVE  FALSE
  OBVIOUS
<1>1. b \in Books /\ tx[r].seen \in {{}, chunks[b]}
  BY Running
<1>2. tx[q].pc # "idle"
  BY DEF TypeInv, TxShape
<1>3. tx[q].deleted = chunks[b] /\ d = chunks[b]
  BY <1>1, <1>2 DEF StoreInv, ChunkInv
<1>4. CASE Backend = "sqlite"
  <2>1. \A v \in Books : owner[v] = r
    BY <1>4, Running
  <2>2. \A v \in Books : owner[v] = q
    BY <1>4 DEF StoreInv, HoldInv
  <2>3. QED
    BY <1>1, <2>1, <2>2
<1>5. CASE Backend # "sqlite" /\ tx[r].pc = "wiping"
  <2>1. Blockers(r) = {p \in Peers(r) : tx[p].deleted \cap tx[r].seen # {}}
    BY <1>5 DEF Blockers, Flushes
  <2>2. q \in Peers(r) /\ tx[q].deleted \cap tx[r].seen # {}
    BY <1>3, <1>5 DEF Peers
  <2>3. QED
    BY <2>1, <2>2
<1>6. CASE Backend # "sqlite" /\ tx[r].pc = "cascade"
  <2>1. Blockers(r) = {p \in Peers(r) : tx[p].deleted \cap chunks[b] # {}}
    BY <1>6 DEF Blockers, Flushes
  <2>2. q \in Peers(r) /\ tx[q].deleted \cap chunks[b] # {}
    BY <1>3, <1>6 DEF Peers
  <2>3. QED
    BY <2>1, <2>2
<1>7. QED
  BY <1>4, <1>5, <1>6

\* _delete_chunks is through.
LEMMA WipedKeeps ==
  ASSUME TypeInv, StoreInv, NEW r \in Requests, Wiped(r)
  PROVE  (TypeInv /\ StoreInv)' /\ UNCHANGED chunks
<1> DEFINE b == tx[r].book
           t == Advance(tx[r], "store", tx[r].snap, {}, tx[r].seen, tx[r].inserted)
<1>1. /\ tx[r].pc = "wiping" /\ Blockers(r) = {} /\ UNCHANGED <<books, chunks, work, owner>>
      /\ tx' = [tx EXCEPT ![r].deleted = tx[r].seen, ![r].seen = {}, ![r].pc = "store"]
  BY DEF Wiped, At
<1>2. tx \in [Requests -> Tx] /\ tx[r] \in Tx /\ TxShape(tx[r]) /\ b \in Books
  BY <1>1, Running
<1>3. tx' = [tx EXCEPT ![r] = t]
  <2>1. tx' = [tx EXCEPT ![r] =
                 [tx[r] EXCEPT !.deleted = tx[r].seen, !.seen = {}, !.pc = "store"]]
    BY <1>1, <1>2
  <2>2. [tx[r] EXCEPT !.deleted = tx[r].seen, !.seen = {}, !.pc = "store"] = t
    BY <1>2, AdvanceWiped
  <2>3. QED
    BY <2>1, <2>2
<1>4. /\ t.pc = "store" /\ t.book = b /\ t.op = tx[r].op /\ t.title = tx[r].title
      /\ t.seen = {} /\ t.deleted = tx[r].seen /\ t.inserted = tx[r].inserted
      /\ t.snap = tx[r].snap
  BY DEF Advance
<1>5. t \in Tx
  BY <1>2 DEF Advance, Tx, Steps
<1> HIDE DEF t
<1>6. TxShape(t) /\ tx[r].inserted = {}
  BY <1>1, <1>2, <1>4 DEF TxShape
<1>7. Statement(r, t, View(r)[b])
  BY <1>1, <1>2, <1>3, <1>4, <1>5, <1>6, LocksKept DEF Statement, StoreInv
<1>8. Locking(r, t)
  <2>1. Backend = "sqlite" => \A v \in Books : owner[v] = r
    BY <1>1, Running
  <2>2. QED
    BY <1>1, <1>4, <2>1 DEF Locking
<1>9. Changing(r, t)
  <2>1. tx[r].seen \in {{}, chunks[b]}
    BY <1>1, Running
  <2>2. \A q \in Requests \ {r} : tx[q].book = b => tx[r].seen = {} \/ tx[q].deleted = {}
    BY <1>1, DeletedApart
  <2>3. QED
    BY <1>4, <1>6, <2>1, <2>2 DEF Changing
<1>10. Living(r, t, View(r)[b])
  <2>1. View(r)[b] = None /\ books[b] # None => tx[r].pc \in {"cascade", "log", "commit"}
    BY <1>1, Running
  <2>2. QED
    BY <1>1, <1>4, <1>6, <2>1 DEF Living
<1>11. QED
  BY <1>1, <1>7, <1>8, <1>9, <1>10, StatementKeeps

\* ON DELETE CASCADE.
LEMMA CascadeKeeps ==
  ASSUME TypeInv, StoreInv, NEW r \in Requests, Cascade(r)
  PROVE  (TypeInv /\ StoreInv)' /\ UNCHANGED chunks
<1> DEFINE b == tx[r].book
           t == Advance(tx[r], "log", tx[r].snap, tx[r].seen, chunks[b], tx[r].inserted)
<1>1. /\ tx[r].pc = "cascade" /\ Blockers(r) = {} /\ UNCHANGED <<books, chunks, work, owner>>
      /\ tx' = [tx EXCEPT ![r].deleted = chunks[b], ![r].pc = "log"]
  BY DEF Cascade, At
<1>2. tx \in [Requests -> Tx] /\ tx[r] \in Tx /\ TxShape(tx[r]) /\ b \in Books
  BY <1>1, Running
<1>3. tx' = [tx EXCEPT ![r] = t]
  BY <1>1, <1>2, AdvanceDeleted
<1>4. /\ t.pc = "log" /\ t.book = b /\ t.op = tx[r].op /\ t.title = tx[r].title
      /\ t.seen = tx[r].seen /\ t.deleted = chunks[b] /\ t.inserted = tx[r].inserted
      /\ t.snap = tx[r].snap
  BY DEF Advance
<1>5. chunks[b] \in SUBSET UNION Contents
  BY <1>2 DEF TypeInv, TypeOK
<1>6. t \in Tx
  BY <1>2, <1>5 DEF Advance, Tx, Steps
<1> HIDE DEF t
<1>7. TxShape(t) /\ tx[r].inserted = {} /\ tx[r].seen = {} /\ tx[r].op = "delete"
  BY <1>1, <1>2, <1>4 DEF TxShape
<1>8. Statement(r, t, View(r)[b])
  BY <1>1, <1>2, <1>3, <1>4, <1>6, <1>7, LocksKept DEF Statement, StoreInv
<1>9. Locking(r, t)
  <2>1. Backend = "sqlite" => \A v \in Books : owner[v] = r
    BY <1>1, Running
  <2>2. QED
    BY <1>1, <1>4, <2>1 DEF Locking
<1>10. Changing(r, t)
  <2>1. \A q \in Requests \ {r} : tx[q].book = b => chunks[b] = {} \/ tx[q].deleted = {}
    BY <1>1, DeletedApart
  <2>2. QED
    BY <1>4, <1>7, <2>1 DEF Changing
<1>11. Living(r, t, View(r)[b])
  BY <1>4, <1>7 DEF Living
<1>12. QED
  BY <1>1, <1>8, <1>9, <1>10, <1>11, StatementKeeps

\* session.delete waits for those who insert chunk rows of the book.
LEMMA DropKeeps ==
  ASSUME TypeInv, StoreInv, NEW r \in Requests, Drop(r)
  PROVE  (TypeInv /\ StoreInv)' /\ UNCHANGED chunks
<1> DEFINE b == tx[r].book
           t == Advance(tx[r], "cascade", tx[r].snap, tx[r].seen, tx[r].deleted, tx[r].inserted)
<1>1. /\ tx[r].pc = "drop" /\ Blockers(r) = {} /\ UNCHANGED <<books, chunks>>
      /\ Go(r, "cascade")
      /\ IF View(r)[b] = None THEN Touch(r) ELSE Write(r, b, None)
  BY DEF Drop, At
<1>2. tx \in [Requests -> Tx] /\ tx[r] \in Tx /\ TxShape(tx[r]) /\ b \in Books
  BY <1>1, Running
<1>3. tx' = [tx EXCEPT ![r] = t]
  BY <1>1, <1>2, AdvancePc DEF Go
<1>4. /\ t.pc = "cascade" /\ t.book = b /\ t.op = tx[r].op /\ t.title = tx[r].title
      /\ t.seen = tx[r].seen /\ t.deleted = tx[r].deleted /\ t.inserted = tx[r].inserted
      /\ t.snap = tx[r].snap
  BY DEF Advance
<1>5. t \in Tx
  BY <1>2 DEF Advance, Tx, Steps
<1> HIDE DEF t
<1>6. /\ TxShape(t) /\ tx[r].op = "delete"
      /\ tx[r].seen = {} /\ tx[r].deleted = {} /\ tx[r].inserted = {}
  BY <1>1, <1>2, <1>4 DEF TxShape
<1>7. Free(r)
  BY <1>1, <1>2, NotBlocked
<1>8. CASE View(r)[b] = None
  <2>1. Locks(r, View(r)[b]) /\ (Backend = "sqlite" => \A v \in Books : owner'[v] = r)
    BY <1>1, <1>2, <1>7, <1>8, LocksTouched DEF StoreInv
  <2>2. Statement(r, t, View(r)[b])
    BY <1>1, <1>2, <1>3, <1>4, <1>5, <1>6, <2>1 DEF Statement
  <2>3. QED
    BY <1>1, <1>4, <1>6, <2>1, <2>2, QuietKeeps
<1>9. CASE View(r)[b] # None
  <2>1. Locks(r, None) /\ (Backend = "sqlite" => \A v \in Books : owner'[v] = r)
    BY <1>1, <1>2, <1>7, <1>9, LocksWritten DEF StoreInv
  <2>2. Statement(r, t, None)
    BY <1>1, <1>2, <1>3, <1>4, <1>5, <1>6, <2>1 DEF Statement
  <2>3. Locking(r, t)
    BY <1>1, <1>4, <2>1 DEF Locking
  <2>4. Changing(r, t)
    BY <1>4, <1>6 DEF Changing
  <2>5. ASSUME NEW q \in Requests \ {r}, tx[q].book = b, tx[q].inserted # {}
        PROVE  FALSE
    <3>1. CASE Backend = "sqlite"
      <4>1. owner[b] = q
        BY <1>2, <2>5, <3>1 DEF StoreInv, HoldInv
      <4>2. owner[b] \in {r, None}
        BY <1>2, <1>7, <3>1 DEF Free, Locked
      <4>3. QED
        BY <4>1, <4>2, NoneAssumption
    <3>2. CASE Backend # "sqlite"
      <4>1. Blockers(r) =
              ({owner[b]} \cup {p \in Peers(r) : tx[p].inserted # {}}) \ {r, None}
        BY <1>1, <3>2 DEF Blockers, Flushes
      <4>2. q \in Peers(r) /\ q # None
        BY <2>5, NoneAssumption DEF Peers
      <4>3. QED
        BY <1>1, <2>5, <4>1, <4>2
    <3>3. QED
      BY <3>1, <3>2
  <2>6. Living(r, t, None)
    BY <1>4, <1>6, <2>5 DEF Living
  <2>7. QED
    BY <1>1, <2>2, <2>3, <2>4, <2>6, StatementKeeps
<1>10. QED
  BY <1>8, <1>9

\* _store_chunks: no row of the book is left, and nobody inserts any, because
\* every content that is not empty has a first chunk.
LEMMA StoreKeeps ==
  ASSUME TypeInv, StoreInv, NEW r \in Requests, Store(r)
  PROVE  (TypeInv /\ StoreInv)' /\ UNCHANGED chunks
<1> DEFINE b == tx[r].book
           rows == Rows(tx[r].upload)
           t == Advance(tx[r], "meta", tx[r].snap, tx[r].seen, tx[r].deleted, rows)
<1>1. tx[r].pc = "store" /\ Blockers(r) = {}
  BY DEF Store, At
<1>2. CASE Rollback(r)
  BY <1>2, RollbackKeeps
<1>3. CASE ~ Rollback(r)
  <2>1. /\ tx \in [Requests -> Tx] /\ tx[r] \in Tx /\ TxShape(tx[r]) /\ b \in Books
        /\ tx[r].deleted \in {{}, chunks[b]}
    BY <1>1, Running
  <2>2. /\ ~ Clash(r) /\ (tx[r].upload # <<>> => View(r)[b] # None)
        /\ UNCHANGED <<books, chunks, work, owner>>
        /\ tx' = [tx EXCEPT ![r].inserted = rows, ![r].pc = "meta"]
    BY <1>3 DEF Store
  <2>3. rows \in Contents /\ (rows # {} => tx[r].upload # <<>>)
    BY <2>1, UploadRows DEF Tx
  <2> HIDE DEF rows
  <2>4. tx' = [tx EXCEPT ![r] = t]
    <3>1. tx' = [tx EXCEPT ![r] = [tx[r] EXCEPT !.inserted = rows, !.pc = "meta"]]
      BY <2>1, <2>2
    <3>2. [tx[r] EXCEPT !.inserted = rows, !.pc = "meta"] = t
      BY <2>1, AdvanceInserted
    <3>3. QED
      BY <3>1, <3>2
  <2>5. /\ t.pc = "meta" /\ t.book = b /\ t.op = tx[r].op /\ t.title = tx[r].title
        /\ t.seen = tx[r].seen /\ t.deleted = tx[r].deleted /\ t.inserted = rows
        /\ t.snap = tx[r].snap
    BY DEF Advance
  <2>6. rows \in SUBSET UNION Contents
    BY <2>3
  <2>7. t \in Tx
    BY <2>1, <2>6 DEF Advance, Tx, Steps
  <2> HIDE DEF t
  <2>8. TxShape(t) /\ tx[r].seen = {} /\ tx[r].inserted = {} /\ tx[r].op \in {"add", "put"}
    BY <1>1, <2>1, <2>3, <2>5 DEF TxShape
  <2>9. Statement(r, t, View(r)[b])
    BY <1>1, <2>1, <2>2, <2>4, <2>5, <2>7, <2>8, LocksKept DEF Statement, StoreInv
  <2>10. rows # {} => 1 \in Indices(rows)
    BY <2>3, UploadRows
  <2>11. Backend = "sqlite" => \A v \in Books : owner[v] = r
    BY <1>1, Running
  <2>12. Backend # "sqlite" => InsertRivals(r) \ {r, None} = {}
    BY <1>1 DEF Blockers, Flushes
  <2>13. Locking(r, t)
    BY <1>1, <2>2, <2>5, <2>11 DEF Locking
  <2>14. Changing(r, t)
    <3>1. ASSUME rows # {}
          PROVE  tx[r].deleted = chunks[b]
      <4>1. Indices(rows) \cap Indices((chunks[b] \ {}) \cup {}) = {} \/ tx[r].deleted # {}
        BY <2>2, <2>8 DEF Clash, Chunks, rows
      <4>2. (chunks[b] \ {}) \cup {} = chunks[b]
        OBVIOUS
      <4>3. chunks[b] # {} => 1 \in Indices(chunks[b])
        BY <2>1, UploadRows DEF StoreInv, ChunkInv
      <4>4. QED
        BY <2>1, <2>10, <3>1, <4>1, <4>2, <4>3
    <3>2. ASSUME NEW q \in Requests \ {r}, tx[q].book = b, rows # {}, tx[q].inserted # {}
          PROVE  FALSE
      <4>1. CASE Backend = "sqlite"
        <5>1. owner[b] = q
          BY <2>1, <3>2, <4>1 DEF StoreInv, HoldInv
        <5>2. QED
          BY <2>1, <2>11, <4>1, <5>1
      <4>2. CASE Backend # "sqlite"
        <5>1. tx[q].inserted \in Contents
          BY DEF TypeInv, TxShape
        <5>2. 1 \in Indices(tx[q].inserted)
          BY <3>2, <5>1, UploadRows
        <5>3. 1 \in Indices(tx[q].inserted \cup (tx[q].deleted \cap chunks[b]))
          BY <5>2 DEF Indices
        <5>4. q \in Peers(r)
          BY <3>2 DEF Peers
        <5>5. q \in InsertRivals(r)
          BY <2>10, <3>2, <5>3, <5>4 DEF InsertRivals, rows
        <5>6. QED
          BY <2>12, <4>2, <5>5, NoneAssumption
      <4>3. QED
        BY <4>1, <4>2
    <3>3. \A q \in Requests \ {r} : tx[q].book = b => tx[r].deleted = {} \/ tx[q].deleted = {}
      BY <1>1, Running
    <3>4. QED
      BY <2>1, <2>5, <2>8, <3>1, <3>2, <3>3 DEF Changing
  <2>15. Living(r, t, View(r)[b])
    <3>1. ASSUME rows # {}, owner[b] \in Requests \ {r}
          PROVE  work[b] # None
      <4>1. Backend # "sqlite"
        BY <2>1, <2>11, <3>1
      <4>2. ASSUME work[b] = None
            PROVE  FALSE
        <5>1. Indices(rows) # {}
          BY <2>10, <3>1
        <5>2. owner[b] \in InsertRivals(r)
          BY <4>2, <5>1 DEF InsertRivals, rows
        <5>3. QED
          BY <2>12, <3>1, <4>1, <5>2, NoneAssumption
      <4>3. QED
        BY <4>2
    <3>2. View(r)[b] = None /\ books[b] # None => tx[r].op = "delete"
      BY <1>1, Running
    <3>3. QED
      BY <2>2, <2>3, <2>5, <2>8, <3>1, <3>2 DEF Living
  <2>16. QED
    BY <2>2, <2>9, <2>13, <2>14, <2>15, StatementKeeps
<1>4. QED
  BY <1>2, <1>3

-----------------------------------------------------------------------------
(* The theorems *)

\* Nobody has a lock at the start, and no book has chunk rows.
LEMMA InitHolds ==
  ASSUME Init
  PROVE  TypeInv /\ StoreInv
<1>1. /\ chunks = [b \in Books |-> {}] /\ work = [b \in Books |-> None]
      /\ owner = [b \in Books |-> None] /\ tx = [r \in Requests |-> Idle]
  BY DEF Init
<1>2. books \in Table
  BY TableAssumption DEF Init
<1>3. Idle \in Tx /\ TxShape(Idle)
  BY IdleType
<1>4. TypeOK
  BY <1>1, <1>2, <1>3 DEF TypeOK, Table
<1>5. /\ Idle.pc = "idle" /\ Idle.op \notin Operations /\ Idle.op # "add"
      /\ Idle.deleted = {} /\ Idle.inserted = {}
  BY NoneAssumption DEF Idle, Operations
<1>6. \A r \in Requests, b \in Books : owner[b] # r
  BY <1>1, NoneAssumption
<1>7. LockInv /\ DropInv
  BY <1>6 DEF LockInv, DropInv
<1>8. HoldInv /\ AddInv /\ ApartInv /\ AliveInv
  BY <1>1, <1>5 DEF HoldInv, AddInv, ApartInv, AliveInv
<1>9. ChunkInv /\ NoOrphans
  BY <1>1, <1>5, UploadRows DEF ChunkInv, NoOrphans
<1>10. TypeInv
  BY <1>1, <1>3, <1>4 DEF TypeInv
<1>11. QED
  BY <1>7, <1>8, <1>9, <1>10 DEF StoreInv

\* One case per action.
LEMMA NextKeeps ==
  ASSUME TypeInv, StoreInv, [Next]_vars
  PROVE  (TypeInv /\ StoreInv)'
<1>1. CASE UNCHANGED vars
  BY <1>1 DEF vars, TypeInv, TypeOK, StoreInv, LockInv, HoldInv, AddInv, ChunkInv, ApartInv,
              AliveInv, DropInv, NoOrphans, View
<1>2. CASE Next
  <2>1. PICK r \in Requests : Arrive(r) \/ Step(r) \/ DbError(r)
    BY <1>2 DEF Next
  <2>2. CASE Arrive(r)
    BY <2>2, ArriveKeeps
  <2>3. CASE DbError(r)
    BY <2>3, RollbackKeeps DEF DbError
  <2>4. CASE Step(r)
    <3>1. CASE Duplicate(r)
      BY <3>1, DuplicateKeeps
    <3>2. CASE Insert(r)
      BY <3>2, InsertKeeps
    <3>3. CASE Find(r)
      BY <3>3, FindKeeps
    <3>4. CASE Mime(r) \/ SaveMeta(r) \/ SaveTitle(r)
      BY <3>4, FlushesKeep
    <3>5. CASE Wipe(r)
      BY <3>5, WipeKeeps
    <3>6. CASE Wiped(r)
      BY <3>6, WipedKeeps
    <3>7. CASE Store(r)
      BY <3>7, StoreKeeps
    <3>8. CASE Drop(r)
      BY <3>8, DropKeeps
    <3>9. CASE Cascade(r)
      BY <3>9, CascadeKeeps
    <3>10. CASE Log(r)
      BY <3>10, LogKeeps
    <3>11. CASE Commit(r)
      BY <3>11, CommitKeeps
    <3>12. CASE DeadlockVictim(r)
      BY <3>12, RollbackKeeps DEF DeadlockVictim
    <3>13. QED
      BY <2>4, <3>1, <3>2, <3>3, <3>4, <3>5, <3>6, <3>7, <3>8, <3>9, <3>10, <3>11, <3>12
         DEF Step
  <2>5. QED
    BY <2>1, <2>2, <2>3, <2>4
<1>3. QED
  BY <1>1, <1>2

\* Every step keeps the invariants: the locks, the chunk rows that requests
\* see, delete and insert, and the rows of the books fit together.
THEOREM Invariant == Spec => [](TypeInv /\ StoreInv)
<1>1. Init => TypeInv /\ StoreInv
  BY InitHolds
<1>2. TypeInv /\ StoreInv /\ [Next]_vars => (TypeInv /\ StoreInv)'
  BY NextKeeps
<1>3. QED
  BY <1>1, <1>2, PTL DEF Spec

\* Every variable of books.py, book_repository.py and the database holds a
\* value of the shape the code gives it.
THEOREM TypeCorrect == Spec => []TypeOK
<1>1. TypeInv /\ StoreInv => TypeOK
  BY DEF TypeInv
<1>2. QED
  BY <1>1, Invariant, PTL

\* An upload that races the deletion of its book leaves no chunk rows behind:
\* Store fails without the book, and session.delete waits for Store.
THEOREM OrphansNone == Spec => []NoOrphans
<1>1. TypeInv /\ StoreInv => NoOrphans
  BY DEF StoreInv
<1>2. QED
  BY <1>1, Invariant, PTL

\* BookStore implements ContentStore: a step replaces the content of one book
\* as a whole, or leaves all of them.
LEMMA StepReplaces ==
  ASSUME TypeInv, StoreInv, [Next]_vars
  PROVE  [Content!Next]_chunks
<1>1. CASE UNCHANGED vars
  BY <1>1 DEF vars
<1>2. ASSUME NEW r \in Requests, Commit(r)
      PROVE  Content!Next
  <2>1. /\ tx[r].book \in Books /\ chunks'[tx[r].book] \in Contents
        /\ chunks' = [chunks EXCEPT ![tx[r].book] = chunks'[tx[r].book]]
    BY <1>2, CommittedChunks
  <2>2. QED
    BY <2>1 DEF Content!Next, Content!Replace
<1>3. ASSUME NEW r \in Requests, Arrive(r) \/ Step(r) \/ DbError(r), ~ Commit(r)
      PROVE  chunks' = chunks
  <2>1. CASE Arrive(r)
    BY <2>1, ArriveKeeps
  <2>2. CASE DbError(r) \/ DeadlockVictim(r)
    BY <2>2 DEF DbError, DeadlockVictim, Rollback
  <2>3. CASE Step(r) /\ ~ DeadlockVictim(r)
    BY <1>3, <2>3, DuplicateKeeps, InsertKeeps, FindKeeps, FlushesKeep, WipeKeeps, WipedKeeps,
       StoreKeeps, DropKeeps, CascadeKeeps, LogKeeps DEF Step
  <2>4. QED
    BY <1>3, <2>1, <2>2, <2>3
<1>4. QED
  BY <1>1, <1>2, <1>3 DEF Next

\* Whatever uploads and deletions overlap, _delete_chunks and _store_chunks
\* leave the chunk rows of one upload, complete, or none.
THEOREM ContentsImplemented == Spec => ContentsRefined
<1>1. Init => Content!Init
  <2>1. {} \in Contents
    BY UploadRows
  <2>2. QED
    BY <2>1 DEF Init, Content!Init
<1>2. TypeInv /\ StoreInv /\ [Next]_vars => [Content!Next]_chunks
  BY StepReplaces
<1>3. QED
  BY <1>1, <1>2, Invariant, PTL DEF Spec, ContentsRefined, Content!Spec

-----------------------------------------------------------------------------
(* The totals of a book *)

\* At any time at most one request replaces the cover of a book; additions,
\* PATCHes, deletions and the uploads of other books may overlap with it.
OneUpload ==
  \A q, r \in Requests :
    (tx[q].op = "put" /\ tx[r].op = "put" /\ tx[q].book = tx[r].book) => q = r

Same(x, y) == x.size = y.size /\ x.count = y.count

Totals(row, rows) == row.size = Size(rows) /\ row.count = Cardinality(rows)

\* An upload t knows the totals of the row w that it sees, until it has written
\* its own.
Loaded(t, w) ==
  t.op \in {"add", "put"} /\ w # None =>
    /\ t.pc \in {"mime", "wipe", "wiping", "store", "meta"} => Same(t.snap, w)
    /\ t.pc \in {"log", "commit"} => Totals(w, t.inserted)

\* It deletes all the chunk rows that are committed and inserts its own.
Replacing(t, rows) ==
  /\ t.pc = "wiping" => t.seen = rows
  /\ t.op \in {"add", "put"} /\ t.pc \in {"store", "meta", "log", "commit"} => t.deleted = rows
  /\ t.op = "patch" => t.deleted = {}
  /\ t.pc = "meta" => t.inserted = Rows(t.upload)

\* The row w that t sees has the totals of the committed row, unless t is an
\* upload that has written its own or adds the book.
Seeing(t, w, old) ==
  /\ w # None => IF old = None THEN t.op = "add"
                 ELSE Same(w, old) \/ (t.op = "put" /\ t.pc \in {"log", "commit"})
  /\ t.op = "delete" /\ t.pc \in {"cascade", "log", "commit"} => w = None

Fits(t, w, old, rows) == Loaded(t, w) /\ Replacing(t, rows) /\ Seeing(t, w, old)

Fitting(r) ==
  LET b == tx[r].book IN tx[r].pc # "idle" => Fits(tx[r], View(r)[b], books[b], chunks[b])

TotalsInv == MetadataAgrees /\ \A r \in Requests : Fitting(r)

\* A request that only looks, and sees the committed row.
LEMMA LookingFits ==
  ASSUME NEW t, t.pc \in {"find", "duplicate", "insert"}, t.deleted = {}, NEW old, NEW rows
  PROVE  Fits(t, old, old, rows)
BY DEF Fits, Loaded, Replacing, Seeing, Same

\* A statement of r, after which it sees its book as w.
LEMMA StatementTotals ==
  ASSUME TypeInv, StoreInv, TotalsInv, NEW r \in Requests, NEW w, tx[r].pc # "idle",
         UNCHANGED <<books, chunks>>, Locks(r, w), tx'[r].book = tx[r].book,
         \A q \in Requests \ {r} : tx'[q] = tx[q],
         Fits(tx'[r], w, books[tx[r].book], chunks[tx[r].book])
  PROVE  TotalsInv'
<1>1. books' = books /\ chunks' = chunks /\ tx[r].book \in Books
  BY DEF TypeInv, TxShape
<1>2. MetadataAgrees'
  BY <1>1 DEF TotalsInv, MetadataAgrees
<1>3. View(r)'[tx[r].book] = w
  BY <1>1 DEF Locks, View
<1>4. Fitting(r)'
  BY <1>1, <1>3 DEF Fitting
<1>5. ASSUME NEW q \in Requests \ {r}
      PROVE  Fitting(q)'
  <2>1. CASE tx[q].pc = "idle"
    BY <2>1 DEF Fitting
  <2>2. CASE tx[q].pc # "idle"
    <3> DEFINE c == tx[q].book
    <3>1. c \in Books
      BY <2>2 DEF TypeInv, TxShape
    <3>2. (owner'[c] = q <=> owner[c] = q) /\ (owner[c] = q => work'[c] = work[c])
      BY <3>1, NoneAssumption DEF Locks
    <3>3. View(q)'[c] = View(q)[c]
      BY <1>1, <3>1, <3>2 DEF View
    <3>4. Fits(tx[q], View(q)[c], books[c], chunks[c])
      BY <2>2 DEF TotalsInv, Fitting
    <3>5. QED
      BY <1>1, <3>3, <3>4 DEF Fitting
  <2>3. QED
    BY <2>1, <2>2
<1>6. QED
  BY <1>2, <1>4, <1>5 DEF TotalsInv

\* A request that is rolled back leaves nothing.
LEMMA RollbackTotals ==
  ASSUME TypeInv, StoreInv, TotalsInv, NEW r \in Requests, Rollback(r)
  PROVE  TotalsInv'
<1>1. Release(r, {}) /\ books' = books /\ chunks' = chunks
  BY DEF Rollback
<1>2. Left(r, {})
  BY <1>1, Released
<1>3. MetadataAgrees'
  BY <1>1 DEF TotalsInv, MetadataAgrees
<1>4. Fitting(r)'
  BY <1>2 DEF Left, Fitting, Idle
<1>5. ASSUME NEW q \in Requests \ {r}, tx[q].pc # "idle"
      PROVE  Fitting(q)'
  <2> DEFINE c == tx[q].book
             t == tx'[q]
  <2>1. c \in Books
    BY <1>5 DEF TypeInv, TxShape
  <2>2. /\ t.pc = tx[q].pc /\ t.op = tx[q].op /\ t.book = c /\ t.snap = tx[q].snap
        /\ t.upload = tx[q].upload
        /\ t.seen = tx[q].seen /\ t.deleted = tx[q].deleted /\ t.inserted = tx[q].inserted
    <3>1. tx[q].seen \ {} = tx[q].seen
      OBVIOUS
    <3>2. QED
      BY <1>2, <3>1 DEF Left
  <2>3. View(q)'[c] = View(q)[c]
    BY <1>1, <1>2, <2>1, NoneAssumption DEF View, Left
  <2>4. Fits(tx[q], View(q)[c], books[c], chunks[c])
    BY <1>5 DEF TotalsInv, Fitting
  <2>5. Fits(t, View(q)[c], books[c], chunks[c])
    BY <2>2, <2>4 DEF Fits, Loaded, Replacing, Seeing
  <2>6. QED
    BY <1>1, <2>2, <2>3, <2>5 DEF Fitting
<1>6. ASSUME NEW q \in Requests \ {r}, tx[q].pc = "idle"
      PROVE  Fitting(q)'
  BY <1>2, <1>6 DEF Left, Fitting
<1>7. QED
  BY <1>3, <1>4, <1>5, <1>6 DEF TotalsInv

\* A request arrives.
LEMMA ArriveTotals ==
  ASSUME TypeInv, StoreInv, TotalsInv, NEW r \in Requests, Arrive(r)
  PROVE  TotalsInv'
<1>1. PICK op, t : /\ Begin(r, op, t) /\ t.pc \in {"find", "duplicate"}
                   /\ t.book \in Books /\ t.deleted = {}
  <2>1. CASE AddBook(r)
    <3>1. PICK b \in FreshBooks, n \in Titles, m \in Mimes \cup {None}, u \in Uploads \cup {<<>>} :
            Begin(r, "add", [Idle EXCEPT !.pc = "duplicate", !.op = "add", !.book = b,
                                         !.title = n, !.mime = m, !.upload = u])
      BY <2>1 DEF AddBook
    <3> DEFINE t == [Idle EXCEPT !.pc = "duplicate", !.op = "add", !.book = b, !.title = n,
                                 !.mime = m, !.upload = u]
    <3>2. t.pc = "duplicate" /\ t.book \in Books /\ t.deleted = {}
      BY DEF Idle, FreshBooks
    <3>3. Begin(r, "add", t)
      BY <3>1
    <3> HIDE DEF t
    <3>4. QED
      BY <3>2, <3>3
  <2>2. CASE PutCover(r)
    <3>1. PICK b \in Books, m \in Mimes \cup {None}, u \in Uploads :
            Begin(r, "put", [Idle EXCEPT !.pc = "find", !.op = "put", !.book = b, !.mime = m,
                                         !.upload = u])
      BY <2>2 DEF PutCover
    <3> DEFINE t == [Idle EXCEPT !.pc = "find", !.op = "put", !.book = b, !.mime = m,
                                 !.upload = u]
    <3>2. t.pc = "find" /\ t.book \in Books /\ t.deleted = {}
      BY DEF Idle
    <3>3. Begin(r, "put", t)
      BY <3>1
    <3> HIDE DEF t
    <3>4. QED
      BY <3>2, <3>3
  <2>3. CASE PatchBook(r)
    <3>1. PICK b \in Books, n \in Titles :
            Begin(r, "patch", [Idle EXCEPT !.pc = "find", !.op = "patch", !.book = b, !.title = n])
      BY <2>3 DEF PatchBook
    <3> DEFINE t == [Idle EXCEPT !.pc = "find", !.op = "patch", !.book = b, !.title = n]
    <3>2. t.pc = "find" /\ t.book \in Books /\ t.deleted = {}
      BY DEF Idle
    <3>3. Begin(r, "patch", t)
      BY <3>1
    <3> HIDE DEF t
    <3>4. QED
      BY <3>2, <3>3
  <2>4. CASE DeleteBook(r)
    <3>1. PICK b \in Books :
            Begin(r, "delete", [Idle EXCEPT !.pc = "find", !.op = "delete", !.book = b])
      BY <2>4 DEF DeleteBook
    <3> DEFINE t == [Idle EXCEPT !.pc = "find", !.op = "delete", !.book = b]
    <3>2. t.pc = "find" /\ t.book \in Books /\ t.deleted = {}
      BY DEF Idle
    <3>3. Begin(r, "delete", t)
      BY <3>1
    <3> HIDE DEF t
    <3>4. QED
      BY <3>2, <3>3
  <2>5. QED
    BY <2>1, <2>2, <2>3, <2>4 DEF Arrive
<1>2. /\ tx[r].pc = "idle" /\ tx'[r] = t /\ \A q \in Requests \ {r} : tx'[q] = tx[q]
      /\ books' = books /\ chunks' = chunks /\ work' = work /\ owner' = owner
  BY <1>1 DEF Begin, TypeInv, TypeOK
<1>3. MetadataAgrees'
  BY <1>2 DEF TotalsInv, MetadataAgrees
<1>4. View(r)'[t.book] = books[t.book]
  BY <1>1, <1>2 DEF View, StoreInv, LockInv
<1>5. Fitting(r)'
  BY <1>1, <1>2, <1>4, LookingFits DEF Fitting
<1>6. \A q \in Requests \ {r} : Fitting(q)'
  BY <1>2 DEF TotalsInv, Fitting, View
<1>7. QED
  BY <1>3, <1>5, <1>6 DEF TotalsInv

\* What is known of a running request.
LEMMA RunningTotals ==
  ASSUME TypeInv, StoreInv, TotalsInv, NEW r \in Requests, tx[r].pc # "idle",
         NEW b, b = tx[r].book
  PROVE  /\ tx \in [Requests -> Tx] /\ tx[r] \in Tx /\ TxShape(tx[r]) /\ b \in Books
         /\ Loaded(tx[r], View(r)[b]) /\ Replacing(tx[r], chunks[b])
         /\ Seeing(tx[r], View(r)[b], books[b])
BY Running DEF TotalsInv, Fitting, Fits

\* The steps before the first write.
LEMMA LookTotals ==
  ASSUME TypeInv, StoreInv, TotalsInv, NEW r \in Requests, Duplicate(r) \/ Find(r)
  PROVE  TotalsInv'
<1> DEFINE b == tx[r].book
<1>1. tx[r].pc \in {"duplicate", "find"}
  BY DEF Duplicate, Find, At
<1>2. CASE Rollback(r)
  BY <1>2, RollbackTotals
<1>3. CASE ~ Rollback(r)
  <2>1. /\ tx \in [Requests -> Tx] /\ tx[r] \in Tx /\ TxShape(tx[r]) /\ b \in Books
    BY <1>1, RunningTotals
  <2>2. owner[b] # r
    BY <1>1, <2>1 DEF StoreInv, LockInv
  <2>3. View(r)[b] = books[b]
    BY <2>1, <2>2 DEF View
  <2>4. /\ UNCHANGED <<books, chunks, work, owner>> /\ \A q \in Requests \ {r} : tx'[q] = tx[q]
        /\ tx'[r].book = b /\ tx'[r].op = tx[r].op
        /\ tx'[r].deleted = tx[r].deleted
        /\ \/ tx'[r].pc = "insert"
           \/ tx'[r].snap = books[b] /\ tx'[r].pc \in {"mime", "title", "drop"}
              /\ (tx'[r].pc = "mime" => tx[r].op = "put")
              /\ (tx'[r].pc = "title" => tx[r].op = "patch")
              /\ books[b] # None
    <3>1. CASE Duplicate(r)
      <4>1. /\ UNCHANGED <<books, chunks, work, owner>>
            /\ tx' = [tx EXCEPT ![r].pc = "insert"]
        BY <1>3, <3>1 DEF Duplicate, Go
      <4>2. tx'[r] = Advance(tx[r], "insert", tx[r].snap, tx[r].seen, tx[r].deleted,
                             tx[r].inserted)
        BY <2>1, <4>1, AdvancePc
      <4>3. QED
        BY <2>1, <4>1, <4>2 DEF Advance
    <3>2. CASE Find(r)
      <4> DEFINE p == CASE tx[r].op = "put" -> "mime"
                        [] tx[r].op = "patch" -> "title"
                        [] tx[r].op = "delete" -> "drop"
      <4>1. /\ books[b] # None /\ UNCHANGED <<books, chunks, work, owner>>
            /\ tx' = [tx EXCEPT ![r].snap = books[b], ![r].pc = p]
        BY <1>3, <3>2 DEF Find
      <4>2. tx[r].op # "add"
        BY <2>1, <4>1 DEF StoreInv, AddInv
      <4>3. /\ p \in {"mime", "title", "drop"}
            /\ p = "mime" => tx[r].op = "put"
            /\ p = "title" => tx[r].op = "patch"
        BY <1>1, <2>1, <4>2 DEF TxShape, Operations
      <4> HIDE DEF p
      <4>4. tx'[r] = Advance(tx[r], p, books[b], tx[r].seen, tx[r].deleted, tx[r].inserted)
        BY <2>1, <4>1, AdvanceSnap
      <4>5. QED
        BY <2>1, <4>1, <4>3, <4>4 DEF Advance
    <3>3. QED
      BY <3>1, <3>2
  <2>5. tx[r].deleted = {}
    BY <1>1, <2>1 DEF TxShape
  <2>6. Locks(r, books[b])
    BY <2>1, <2>3, <2>4, LocksKept DEF StoreInv
  <2>7. Fits(tx'[r], books[b], books[b], chunks[b])
    <3>1. CASE tx'[r].pc = "insert"
      BY <2>4, <2>5, <3>1, LookingFits
    <3>2. CASE tx'[r].pc # "insert"
      BY <2>4, <2>5, <3>2 DEF Fits, Loaded, Replacing, Seeing, Same
    <3>3. QED
      BY <3>1, <3>2
  <2>8. QED
    BY <1>1, <2>1, <2>4, <2>6, <2>7, StatementTotals
<1>4. QED
  BY <1>2, <1>3

\* A book that is added has no bytes yet.
LEMMA InsertTotals ==
  ASSUME TypeInv, StoreInv, TotalsInv, NEW r \in Requests, Insert(r)
  PROVE  TotalsInv'
<1> DEFINE b == tx[r].book
           row == [title |-> tx[r].title, mime |-> tx[r].mime, size |-> 0, count |-> 0]
<1>1. /\ tx[r].pc = "insert" /\ Blockers(r) = {}
      /\ Write(r, b, row) /\ UNCHANGED <<books, chunks>>
      /\ tx' = [tx EXCEPT ![r].snap = row, ![r].pc = "wipe"]
  BY DEF Insert, At
<1>2. tx \in [Requests -> Tx] /\ tx[r] \in Tx /\ TxShape(tx[r]) /\ b \in Books
  BY <1>1, RunningTotals
<1>3. tx[r].op = "add" /\ tx[r].deleted = {} /\ books[b] = None
  BY <1>1, <1>2 DEF TxShape, StoreInv, AddInv
<1>4. row \in Row
  BY <1>1, <1>2, UploadRows, NoneAssumption DEF Row, Tx, TxShape
<1> HIDE DEF row
<1>5. tx'[r] = Advance(tx[r], "wipe", row, tx[r].seen, tx[r].deleted, tx[r].inserted)
  BY <1>1, <1>2, AdvanceSnap
<1>6. /\ tx'[r].pc = "wipe" /\ tx'[r].book = b /\ tx'[r].op = "add" /\ tx'[r].snap = row
      /\ tx'[r].deleted = {} /\ \A q \in Requests \ {r} : tx'[q] = tx[q]
  BY <1>1, <1>2, <1>3, <1>5 DEF Advance
<1>7. Locks(r, row)
  BY <1>1, <1>2, <1>4, InsertFree, LocksWritten DEF StoreInv
<1>8. Fits(tx'[r], row, books[b], chunks[b])
  BY <1>3, <1>6 DEF Fits, Loaded, Replacing, Seeing, Same
<1>9. QED
  BY <1>1, <1>6, <1>7, <1>8, StatementTotals

\* The UPDATE writes the totals of the object where they differ from those the
\* request has loaded.
LEMMA FlushedTotals ==
  ASSUME TypeInv, StoreInv, TotalsInv, NEW r \in Requests,
         tx[r].pc \in {"mime", "meta", "title"}, NEW v, v = View(r)[tx[r].book], v # None,
         NEW w, w = Flushed(r)
  PROVE  /\ w.size = IF Object(r).size = tx[r].snap.size THEN v.size ELSE Object(r).size
         /\ w.count = IF Object(r).count = tx[r].snap.count THEN v.count ELSE Object(r).count
<1>1. v \in Row
  BY ViewTable, Running DEF TypeInv, TypeOK, Table
<1>2. CASE Flushes(r)
  <2>1. w = [c \in DOMAIN v |-> IF Object(r)[c] = tx[r].snap[c] THEN v[c] ELSE Object(r)[c]]
    BY <1>2 DEF Flushed, Patched
  <2>2. "size" \in DOMAIN v /\ "count" \in DOMAIN v
    BY <1>1 DEF Row
  <2>3. QED
    BY <2>1, <2>2
<1>3. CASE ~ Flushes(r)
  BY <1>3 DEF Flushed, Flushes
<1>4. QED
  BY <1>2, <1>3

\* The flushes write the totals of the upload, or none.
LEMMA FlushTotals ==
  ASSUME TypeInv, StoreInv, TotalsInv, NEW r \in Requests, NEW p, Flush(r, p),
         Blockers(r) = {},
         \/ tx[r].pc = "mime" /\ p = "wipe"
         \/ tx[r].pc \in {"meta", "title"} /\ p = "log",
         Flushes(r) => View(r)[tx[r].book] # None
  PROVE  TotalsInv'
<1> DEFINE b == tx[r].book
           t == Advance(tx[r], p, Object(r), tx[r].seen, tx[r].deleted, tx[r].inserted)
           v == View(r)[b]
           w == Flushed(r)
<1>1. /\ tx \in [Requests -> Tx] /\ tx[r] \in Tx /\ TxShape(tx[r]) /\ b \in Books
      /\ Loaded(tx[r], v) /\ Replacing(tx[r], chunks[b]) /\ Seeing(tx[r], v, books[b])
  BY RunningTotals
<1>2. UNCHANGED <<books, chunks>> /\ tx' = [tx EXCEPT ![r].snap = Object(r), ![r].pc = p]
  BY DEF Flush
<1>3. tx'[r] = t /\ \A q \in Requests \ {r} : tx'[q] = tx[q]
  BY <1>1, <1>2, AdvanceSnap
<1>4. /\ t.pc = p /\ t.book = b /\ t.op = tx[r].op /\ t.upload = tx[r].upload
      /\ t.seen = tx[r].seen /\ t.deleted = tx[r].deleted /\ t.inserted = tx[r].inserted
      /\ t.snap = Object(r)
  BY DEF Advance
<1> HIDE DEF t
<1>5. Locks(r, w) /\ (w # None => v # None)
  <2>1. Locks(r, w) /\ (v = None => ~ Flushes(r))
    BY FlushLocks
  <2>2. ~ Flushes(r) => w = v
    BY DEF Flushed
  <2>3. QED
    BY <2>1, <2>2
<1>6. v # None =>
        /\ w.size = IF Object(r).size = tx[r].snap.size THEN v.size ELSE Object(r).size
        /\ w.count = IF Object(r).count = tx[r].snap.count THEN v.count ELSE Object(r).count
  BY FlushedTotals
<1>7. tx[r].op = "add" => books[b] = None
  BY DEF StoreInv, AddInv
<1> HIDE DEF v, w
<1>8. tx[r].snap \in Row
  BY <1>1 DEF TxShape
<1>9. CASE tx[r].pc = "mime"
  <2>1. tx[r].op = "put" /\ p = "wipe"
    BY <1>1, <1>9 DEF TxShape
  <2>2. Same(Object(r), tx[r].snap)
    BY <1>8, <1>9 DEF Object, Same, Row
  <2>3. w # None => Same(w, v) /\ Same(Object(r), w)
    BY <1>1, <1>5, <1>6, <1>9, <2>1, <2>2 DEF Same, Loaded
  <2>4. Fits(t, w, books[b], chunks[b])
    BY <1>1, <1>4, <1>5, <1>9, <2>1, <2>3 DEF Fits, Loaded, Replacing, Seeing, Same
  <2>5. QED
    BY <1>1, <1>2, <1>3, <1>4, <1>5, <1>9, <2>4, StatementTotals
<1>10. CASE tx[r].pc = "title"
  <2>1. tx[r].op = "patch" /\ p = "log"
    BY <1>1, <1>10 DEF TxShape
  <2>2. Same(Object(r), tx[r].snap)
    BY <1>8, <1>10 DEF Object, Same, Row
  <2>3. w # None => Same(w, v)
    BY <1>5, <1>6, <2>2 DEF Same
  <2>4. Fits(t, w, books[b], chunks[b])
    BY <1>1, <1>4, <1>5, <1>10, <2>1, <2>3 DEF Fits, Loaded, Replacing, Seeing, Same
  <2>5. QED
    BY <1>1, <1>2, <1>3, <1>4, <1>5, <1>10, <2>4, StatementTotals
<1>11. CASE tx[r].pc = "meta"
  <2>1. tx[r].op \in {"add", "put"} /\ p = "log"
    BY <1>1, <1>11 DEF TxShape
  <2>2. Totals(Object(r), tx[r].inserted)
    <3>1. tx[r].inserted = Rows(tx[r].upload)
      BY <1>1, <1>11 DEF Replacing
    <3>2. /\ Object(r).size = Size(Rows(tx[r].upload))
          /\ Object(r).count = Cardinality(Rows(tx[r].upload))
      BY <1>8, <1>11 DEF Object, Meta, Row
    <3>3. QED
      BY <3>1, <3>2 DEF Totals
  <2>3. w # None => Totals(w, tx[r].inserted)
    BY <1>1, <1>5, <1>6, <1>11, <2>1, <2>2 DEF Same, Loaded, Totals
  <2>4. Fits(t, w, books[b], chunks[b])
    BY <1>1, <1>4, <1>5, <1>7, <1>11, <2>1, <2>3 DEF Fits, Loaded, Replacing, Seeing
  <2>5. QED
    BY <1>1, <1>2, <1>3, <1>4, <1>5, <1>11, <2>4, StatementTotals
<1>12. QED
  BY <1>9, <1>10, <1>11

\* _delete_chunks, from the look at the rows to the end.
LEMMA WipeTotals ==
  ASSUME TypeInv, StoreInv, TotalsInv, NEW r \in Requests, Wipe(r) \/ Wiped(r)
  PROVE  TotalsInv'
<1> DEFINE b == tx[r].book
<1>1. tx[r].pc \in {"wipe", "wiping"} /\ Blockers(r) = {} /\ UNCHANGED <<books, chunks>>
  BY DEF Wipe, Wiped, At
<1>2. /\ tx \in [Requests -> Tx] /\ tx[r] \in Tx /\ TxShape(tx[r]) /\ b \in Books
      /\ Loaded(tx[r], View(r)[b]) /\ Replacing(tx[r], chunks[b])
      /\ Seeing(tx[r], View(r)[b], books[b])
  BY <1>1, RunningTotals
<1>3. tx[r].op \in {"add", "put"}
  BY <1>1, <1>2 DEF TxShape
<1>4. Locks(r, View(r)[b])
  <2>1. CASE Wipe(r)
    BY <1>2, <2>1, NotBlocked, LocksTouched DEF Wipe, At, StoreInv
  <2>2. CASE Wiped(r)
    BY <1>2, <2>2, LocksKept DEF Wiped, StoreInv
  <2>3. QED
    BY <2>1, <2>2
<1>5. /\ tx'[r].book = b /\ tx'[r].op = tx[r].op /\ tx'[r].snap = tx[r].snap
      /\ \/ tx'[r].pc = "wiping" /\ tx'[r].seen = chunks[b]
         \/ tx'[r].pc = "store" /\ tx'[r].deleted = chunks[b]
      /\ \A q \in Requests \ {r} : tx'[q] = tx[q]
  <2>1. CASE Wipe(r)
    <3>1. tx' = [tx EXCEPT ![r].seen = chunks[b], ![r].pc = "wiping"]
      BY <2>1 DEF Wipe
    <3>2. tx'[r] = Advance(tx[r], "wiping", tx[r].snap, chunks[b], tx[r].deleted,
                           tx[r].inserted)
      BY <1>2, <3>1, AdvanceSeen
    <3>3. QED
      BY <1>2, <3>1, <3>2 DEF Advance
  <2>2. CASE Wiped(r)
    <3>1. tx' = [tx EXCEPT ![r].deleted = tx[r].seen, ![r].seen = {}, ![r].pc = "store"]
      BY <2>2 DEF Wiped
    <3>2. tx'[r] = Advance(tx[r], "store", tx[r].snap, {}, tx[r].seen, tx[r].inserted)
      BY <1>2, <3>1, AdvanceWiped
    <3>3. tx[r].seen = chunks[b]
      BY <1>2, <2>2 DEF Wiped, At, Replacing
    <3>4. QED
      BY <1>2, <3>1, <3>2, <3>3 DEF Advance
  <2>3. QED
    BY <2>1, <2>2
<1>6. Fits(tx'[r], View(r)[b], books[b], chunks[b])
  BY <1>1, <1>2, <1>3, <1>5 DEF Fits, Loaded, Replacing, Seeing
<1>7. QED
  BY <1>1, <1>4, <1>5, <1>6, StatementTotals

\* _store_chunks.
LEMMA StoreTotals ==
  ASSUME TypeInv, StoreInv, TotalsInv, NEW r \in Requests, Store(r)
  PROVE  TotalsInv'
<1> DEFINE b == tx[r].book
           rows == Rows(tx[r].upload)
<1>1. tx[r].pc = "store"
  BY DEF Store, At
<1>2. CASE Rollback(r)
  BY <1>2, RollbackTotals
<1>3. CASE ~ Rollback(r)
  <2>1. /\ tx \in [Requests -> Tx] /\ tx[r] \in Tx /\ TxShape(tx[r]) /\ b \in Books
        /\ Loaded(tx[r], View(r)[b]) /\ Replacing(tx[r], chunks[b])
        /\ Seeing(tx[r], View(r)[b], books[b])
    BY <1>1, RunningTotals
  <2>2. /\ UNCHANGED <<books, chunks, work, owner>>
        /\ tx' = [tx EXCEPT ![r].inserted = rows, ![r].pc = "meta"]
    BY <1>3 DEF Store
  <2>3. tx'[r] = Advance(tx[r], "meta", tx[r].snap, tx[r].seen, tx[r].deleted, rows)
    BY <2>1, <2>2, AdvanceInserted
  <2>4. /\ tx'[r].pc = "meta" /\ tx'[r].book = b /\ tx'[r].op = tx[r].op
        /\ tx'[r].snap = tx[r].snap /\ tx'[r].upload = tx[r].upload
        /\ tx'[r].deleted = tx[r].deleted /\ tx'[r].inserted = rows
        /\ \A q \in Requests \ {r} : tx'[q] = tx[q]
    BY <2>1, <2>2, <2>3 DEF Advance
  <2>5. tx[r].op \in {"add", "put"}
    BY <1>1, <2>1 DEF TxShape
  <2>6. Fits(tx'[r], View(r)[b], books[b], chunks[b])
    BY <1>1, <2>1, <2>4, <2>5 DEF Fits, Loaded, Replacing, Seeing
  <2>7. QED
    BY <1>1, <2>1, <2>2, <2>4, <2>6, LocksKept, StatementTotals DEF StoreInv
<1>4. QED
  BY <1>2, <1>3

\* The deletion of a book, and its cascade.
LEMMA DropTotals ==
  ASSUME TypeInv, StoreInv, TotalsInv, NEW r \in Requests, Drop(r) \/ Cascade(r)
  PROVE  TotalsInv'
<1> DEFINE b == tx[r].book
<1>1. tx[r].pc \in {"drop", "cascade"} /\ Blockers(r) = {} /\ UNCHANGED <<books, chunks>>
  BY DEF Drop, Cascade, At
<1>2. /\ tx \in [Requests -> Tx] /\ tx[r] \in Tx /\ TxShape(tx[r]) /\ b \in Books
      /\ Seeing(tx[r], View(r)[b], books[b])
  BY <1>1, RunningTotals
<1>3. tx[r].op = "delete"
  BY <1>1, <1>2 DEF TxShape
<1>4. Locks(r, None)
  <2>1. CASE Drop(r) /\ View(r)[b] # None
    <3>1. Write(r, b, None) /\ Free(r)
      BY <1>2, <2>1, NotBlocked DEF Drop, At
    <3>2. QED
      BY <1>2, <3>1, LocksWritten DEF StoreInv
  <2>2. CASE Drop(r) /\ View(r)[b] = None
    BY <1>2, <2>2, NotBlocked, LocksTouched DEF Drop, At, StoreInv
  <2>3. CASE Cascade(r)
    <3>1. View(r)[b] = None
      BY <1>2, <1>3, <2>3 DEF Cascade, At, Seeing
    <3>2. QED
      BY <1>2, <2>3, <3>1, LocksKept DEF Cascade, StoreInv
  <2>4. QED
    BY <2>1, <2>2, <2>3
<1>5. /\ tx'[r].book = b /\ tx'[r].op = tx[r].op /\ tx'[r].pc \in {"cascade", "log"}
      /\ \A q \in Requests \ {r} : tx'[q] = tx[q]
  <2>1. CASE Drop(r)
    <3>1. tx' = [tx EXCEPT ![r].pc = "cascade"]
      BY <2>1 DEF Drop, Go
    <3>2. tx'[r] = Advance(tx[r], "cascade", tx[r].snap, tx[r].seen, tx[r].deleted,
                           tx[r].inserted)
      BY <1>2, <3>1, AdvancePc
    <3>3. QED
      BY <1>2, <3>1, <3>2 DEF Advance
  <2>2. CASE Cascade(r)
    <3>1. tx' = [tx EXCEPT ![r].deleted = chunks[b], ![r].pc = "log"]
      BY <2>2 DEF Cascade
    <3>2. tx'[r] = Advance(tx[r], "log", tx[r].snap, tx[r].seen, chunks[b], tx[r].inserted)
      BY <1>2, <3>1, AdvanceDeleted
    <3>3. QED
      BY <1>2, <3>1, <3>2 DEF Advance
  <2>3. QED
    BY <2>1, <2>2
<1>6. Fits(tx'[r], None, books[b], chunks[b])
  BY <1>3, <1>5 DEF Fits, Loaded, Replacing, Seeing
<1>7. QED
  BY <1>1, <1>4, <1>5, <1>6, StatementTotals

\* The entry in the log.
LEMMA LogTotals ==
  ASSUME TypeInv, StoreInv, TotalsInv, NEW r \in Requests, Log(r)
  PROVE  TotalsInv'
<1> DEFINE b == tx[r].book
<1>1. /\ tx[r].pc = "log" /\ Blockers(r) = {} /\ Touch(r) /\ UNCHANGED <<books, chunks>>
      /\ tx' = [tx EXCEPT ![r].pc = "commit"]
  BY DEF Log, At, Go
<1>2. /\ tx \in [Requests -> Tx] /\ tx[r] \in Tx /\ TxShape(tx[r]) /\ b \in Books
      /\ Loaded(tx[r], View(r)[b]) /\ Replacing(tx[r], chunks[b])
      /\ Seeing(tx[r], View(r)[b], books[b])
  BY <1>1, RunningTotals
<1>3. tx'[r] = Advance(tx[r], "commit", tx[r].snap, tx[r].seen, tx[r].deleted, tx[r].inserted)
  BY <1>1, <1>2, AdvancePc
<1>4. /\ tx'[r].pc = "commit" /\ tx'[r].book = b /\ tx'[r].op = tx[r].op
      /\ tx'[r].deleted = tx[r].deleted /\ tx'[r].inserted = tx[r].inserted
      /\ \A q \in Requests \ {r} : tx'[q] = tx[q]
  BY <1>1, <1>2, <1>3 DEF Advance
<1>5. Locks(r, View(r)[b])
  BY <1>1, <1>2, NotBlocked, LocksTouched DEF StoreInv
<1>6. Fits(tx'[r], View(r)[b], books[b], chunks[b])
  BY <1>1, <1>2, <1>4 DEF Fits, Loaded, Replacing, Seeing
<1>7. QED
  BY <1>1, <1>4, <1>5, <1>6, StatementTotals

\* A commit brings the rows and the chunk rows of its request together.
LEMMA CommitAgrees ==
  ASSUME TypeInv, StoreInv, TotalsInv, NEW r \in Requests, Commit(r)
  PROVE  MetadataAgrees'
<1> DEFINE b == tx[r].book
<1>1. /\ tx[r].pc = "commit" /\ books' = View(r)
      /\ chunks' = [chunks EXCEPT ![b] = Chunks(r, b)]
  BY DEF Commit
<1>2. /\ tx \in [Requests -> Tx] /\ tx[r] \in Tx /\ TxShape(tx[r]) /\ b \in Books
      /\ Loaded(tx[r], View(r)[b]) /\ Replacing(tx[r], chunks[b])
      /\ Seeing(tx[r], View(r)[b], books[b])
  BY <1>1, RunningTotals
<1>3. \A v \in Books \ {b} : books'[v] = books[v] /\ chunks'[v] = chunks[v]
  BY <1>1 DEF View, StoreInv, LockInv, TypeInv, TypeOK
<1>4. chunks'[b] = (chunks[b] \ tx[r].deleted) \cup tx[r].inserted
  BY <1>1, <1>2 DEF Chunks, TypeInv, TypeOK
<1>5. ASSUME books'[b] # None
      PROVE  Totals(books'[b], chunks'[b])
  <2>1. View(r)[b] # None /\ tx[r].op # "delete"
    BY <1>1, <1>2, <1>5 DEF Seeing
  <2>2. CASE tx[r].op \in {"add", "put"}
    <3>1. Totals(View(r)[b], tx[r].inserted) /\ tx[r].deleted = chunks[b]
      BY <1>1, <1>2, <2>1, <2>2 DEF Loaded, Replacing
    <3>2. chunks'[b] = tx[r].inserted
      BY <1>4, <3>1
    <3>3. QED
      BY <1>1, <3>1, <3>2
  <2>3. CASE tx[r].op = "patch"
    <3>1. tx[r].deleted = {} /\ tx[r].inserted = {}
      BY <1>2, <2>3 DEF Replacing, TxShape
    <3>2. chunks'[b] = chunks[b]
      BY <1>4, <3>1
    <3>3. books[b] # None /\ Same(View(r)[b], books[b])
      BY <1>2, <2>1, <2>3 DEF Seeing
    <3>4. Totals(books[b], chunks[b])
      BY <1>2, <3>3 DEF TotalsInv, MetadataAgrees, Totals
    <3>5. QED
      BY <1>1, <3>2, <3>3, <3>4 DEF Totals, Same
  <2>4. QED
    BY <1>1, <1>2, <2>1, <2>2, <2>3 DEF TxShape, Operations
<1>6. \A v \in Books \ {b} : books'[v] # None => Totals(books'[v], chunks'[v])
  BY <1>3 DEF TotalsInv, MetadataAgrees, Totals
<1>7. QED
  BY <1>5, <1>6 DEF MetadataAgrees, Totals

\* What a commit of r changes for another request q past its look at the same
\* book: rows do not appear, the row that q has locked stays, and if q replaces
\* the cover, r changes no totals but those of a book it deletes.
LEMMA CommitOfPeer ==
  ASSUME TypeInv, StoreInv, TotalsInv, OneUpload, NEW r \in Requests, Commit(r),
         NEW q \in Requests \ {r}, tx[q].pc \notin {"idle", "find", "duplicate", "insert"},
         NEW b, b = tx[r].book, tx[q].book = b
  PROVE  /\ tx[q].op # "add"
         /\ books'[b] # None => books[b] # None
         /\ owner[b] = q => books'[b] = books[b]
         /\ tx[q].op = "put" =>
              /\ chunks'[b] = chunks[b] \ tx[r].deleted
              /\ tx[q].deleted = {} \/ tx[r].deleted = {}
              /\ books'[b] # None => Same(books'[b], books[b])
<1>1. /\ tx[r].pc = "commit" /\ books' = View(r)
      /\ chunks' = [chunks EXCEPT ![b] = Chunks(r, b)]
  BY DEF Commit
<1>2. /\ tx[r] \in Tx /\ TxShape(tx[r]) /\ b \in Books
      /\ Replacing(tx[r], chunks[b]) /\ Seeing(tx[r], View(r)[b], books[b])
  BY <1>1, RunningTotals
<1>3. tx[q].op # "add" /\ tx[r].op # "add"
  BY <1>1 DEF StoreInv, AddInv
<1>4. books'[b] # None => books[b] # None
  BY <1>1, <1>2, <1>3 DEF Seeing
<1>5. owner[b] = q => books'[b] = books[b]
  BY <1>1, <1>2 DEF View
<1>6. ASSUME tx[q].op = "put"
      PROVE  /\ chunks'[b] = chunks[b] \ tx[r].deleted
             /\ tx[q].deleted = {} \/ tx[r].deleted = {}
             /\ books'[b] # None => Same(books'[b], books[b])
  <2>1. tx[r].op \in {"patch", "delete"}
    BY <1>1, <1>2, <1>3, <1>6 DEF OneUpload, TxShape, Operations
  <2>2. tx[r].inserted = {}
    BY <1>2, <2>1 DEF TxShape
  <2>3. chunks'[b] = (chunks[b] \ tx[r].deleted) \cup tx[r].inserted
    BY <1>1, <1>2 DEF Chunks, TypeInv, TypeOK
  <2>4. chunks'[b] = chunks[b] \ tx[r].deleted
    BY <2>2, <2>3
  <2>5. books'[b] # None => Same(books'[b], books[b])
    BY <1>1, <1>2, <1>4, <2>1 DEF Seeing
  <2>6. tx[q].deleted = {} \/ tx[r].deleted = {}
    BY <1>1 DEF StoreInv, ApartInv
  <2>7. QED
    BY <2>4, <2>5, <2>6
<1>7. QED
  BY <1>3, <1>4, <1>5, <1>6

\* A commit leaves the other requests fitting.
LEMMA CommitTotals ==
  ASSUME TypeInv, StoreInv, TotalsInv, OneUpload, NEW r \in Requests, Commit(r)
  PROVE  TotalsInv'
<1> DEFINE b == tx[r].book
<1>1. /\ tx[r].pc = "commit" /\ books' = View(r) /\ Release(r, tx[r].deleted)
      /\ chunks' = [chunks EXCEPT ![b] = Chunks(r, b)]
  BY DEF Commit
<1>2. Left(r, tx[r].deleted)
  BY <1>1, Released
<1>3. b \in Books
  BY <1>1, RunningTotals
<1>4. \A v \in Books \ {b} : books'[v] = books[v] /\ chunks'[v] = chunks[v]
  BY <1>1 DEF View, StoreInv, LockInv, TypeInv, TypeOK
<1>5. Fitting(r)'
  BY <1>2 DEF Left, Fitting, Idle
<1>6. ASSUME NEW q \in Requests \ {r}, tx[q].pc # "idle"
      PROVE  Fitting(q)'
  <2> DEFINE c == tx[q].book
             t == tx'[q]
             w == View(q)[c]
  <2>1. /\ TxShape(tx[q]) /\ c \in Books
        /\ Loaded(tx[q], w) /\ Replacing(tx[q], chunks[c]) /\ Seeing(tx[q], w, books[c])
    BY <1>6, RunningTotals
  <2>2. /\ t.pc = tx[q].pc /\ t.op = tx[q].op /\ t.book = c /\ t.snap = tx[q].snap
        /\ t.upload = tx[q].upload
        /\ t.deleted = tx[q].deleted /\ t.inserted = tx[q].inserted
        /\ t.seen = IF c = b THEN tx[q].seen \ tx[r].deleted ELSE tx[q].seen
    BY <1>2 DEF Left
  <2>3. View(q)'[c] = IF owner[c] = q THEN w ELSE books'[c]
    BY <1>2, <2>1, NoneAssumption DEF View, Left
  <2>4. owner[c] # q => w = books[c]
    BY <2>1 DEF View
  <2>5. ASSUME NEW w1, w1 = IF owner[c] = q THEN w ELSE books'[c]
        PROVE  Fits(t, w1, books'[c], chunks'[c])
    <3> HIDE DEF t, w
    <3>1. CASE c # b
      <4>1. books'[c] = books[c] /\ chunks'[c] = chunks[c] /\ w1 = w
        BY <1>4, <2>1, <2>4, <2>5, <3>1
      <4>2. QED
        BY <2>1, <2>2, <3>1, <4>1 DEF Fits, Loaded, Replacing, Seeing
    <3>2. CASE c = b /\ tx[q].pc \in {"find", "duplicate", "insert"}
      <4>1. owner[c] # q
        BY <2>1, <3>2 DEF StoreInv, LockInv
      <4>2. t.deleted = {} /\ w1 = books'[c] /\ t.pc \in {"find", "duplicate", "insert"}
        BY <2>1, <2>2, <2>5, <3>2, <4>1 DEF TxShape
      <4>3. QED
        BY <4>2, LookingFits
    <3>3. CASE c = b /\ tx[q].pc \notin {"find", "duplicate", "insert"}
      <4>1. /\ tx[q].op # "add"
            /\ books'[c] # None => books[c] # None
            /\ owner[c] = q => books'[c] = books[c]
            /\ tx[q].op = "put" =>
                 /\ chunks'[c] = chunks[c] \ tx[r].deleted
                 /\ tx[q].deleted = {} \/ tx[r].deleted = {}
                 /\ books'[c] # None => Same(books'[c], books[c])
        BY <1>6, <3>3, CommitOfPeer
      <4>2. Loaded(t, w1)
        BY <2>1, <2>2, <2>4, <2>5, <4>1 DEF Loaded, Same, Totals
      <4>3. Replacing(t, chunks'[c])
        <5>1. t.pc = "wiping" => t.seen = chunks'[c]
          BY <2>1, <2>2, <3>3, <4>1 DEF Replacing, TxShape
        <5>2. t.op = "put" /\ t.pc \in {"store", "meta", "log", "commit"} =>
                t.deleted = chunks'[c]
          BY <2>1, <2>2, <4>1 DEF Replacing
        <5>3. t.op = "patch" => t.deleted = {}
          BY <2>1, <2>2 DEF Replacing
        <5>4. t.pc = "meta" => t.inserted = Rows(t.upload)
          BY <2>1, <2>2 DEF Replacing
        <5>5. QED
          BY <2>2, <4>1, <5>1, <5>2, <5>3, <5>4 DEF Replacing
      <4>4. Seeing(t, w1, books'[c])
        BY <2>1, <2>2, <2>4, <2>5, <4>1 DEF Seeing, Same
      <4>5. QED
        BY <4>2, <4>3, <4>4 DEF Fits
    <3>4. QED
      BY <3>1, <3>2, <3>3
  <2>6. Fits(t, View(q)'[c], books'[c], chunks'[c])
    BY <2>3, <2>5
  <2>7. QED
    BY <2>2, <2>6 DEF Fitting
<1>7. ASSUME NEW q \in Requests \ {r}, tx[q].pc = "idle"
      PROVE  Fitting(q)'
  BY <1>2, <1>7 DEF Left, Fitting
<1>8. QED
  BY <1>5, <1>6, <1>7, CommitAgrees DEF TotalsInv

\* One case per action.
LEMMA NextTotals ==
  ASSUME TypeInv, StoreInv, TotalsInv, OneUpload, [Next]_vars
  PROVE  TotalsInv'
<1>1. CASE UNCHANGED vars
  BY <1>1 DEF vars, TotalsInv, MetadataAgrees, Fitting, View
<1>2. CASE Next
  <2>1. PICK r \in Requests : Arrive(r) \/ Step(r) \/ DbError(r)
    BY <1>2 DEF Next
  <2>2. CASE Arrive(r)
    BY <2>2, ArriveTotals
  <2>3. CASE Rollback(r)
    BY <2>3, RollbackTotals
  <2>4. CASE Step(r) /\ ~ Rollback(r)
    <3>1. CASE Duplicate(r) \/ Find(r)
      BY <3>1, LookTotals
    <3>2. CASE Insert(r)
      BY <3>2, InsertTotals
    <3>3. CASE Mime(r) \/ SaveMeta(r) \/ SaveTitle(r)
      BY <2>4, <3>3, FlushTotals DEF Mime, SaveMeta, SaveTitle, At
    <3>4. CASE Wipe(r) \/ Wiped(r)
      BY <3>4, WipeTotals
    <3>5. CASE Store(r)
      BY <3>5, StoreTotals
    <3>6. CASE Drop(r) \/ Cascade(r)
      BY <3>6, DropTotals
    <3>7. CASE Log(r)
      BY <3>7, LogTotals
    <3>8. CASE Commit(r)
      BY <3>8, CommitTotals
    <3>9. QED
      BY <2>4, <3>1, <3>2, <3>3, <3>4, <3>5, <3>6, <3>7, <3>8 DEF Step, DeadlockVictim
  <2>5. QED
    BY <2>1, <2>2, <2>3, <2>4 DEF DbError
<1>3. QED
  BY <1>1, <1>2

\* The row of a book tells the size and number of its chunk rows, as
\* validate_cover_integrity asks, whatever additions, PATCHes and deletions
\* overlap with an upload, as long as no second one of the same cover does.
THEOREM TotalsKept == Spec /\ []OneUpload => []MetadataAgrees
<1>1. Init => TotalsInv
  <2> SUFFICES ASSUME Init
               PROVE  TotalsInv
    OBVIOUS
  <2>1. chunks = [b \in Books |-> {}] /\ tx = [r \in Requests |-> Idle]
    BY DEF Init
  <2>2. \A b \in Books : books[b] # None => books[b].size = 0 /\ books[b].count = 0
    BY TableAssumption DEF Init
  <2>3. MetadataAgrees
    BY <2>1, <2>2, SizeEmpty, FS_EmptySet DEF MetadataAgrees
  <2>4. \A r \in Requests : Fitting(r)
    BY <2>1 DEF Fitting, Idle
  <2>5. QED
    BY <2>3, <2>4 DEF TotalsInv
<1>2. TypeInv /\ StoreInv /\ TotalsInv /\ OneUpload /\ [Next]_vars => TotalsInv'
  BY NextTotals
<1>3. TotalsInv => MetadataAgrees
  BY DEF TotalsInv
<1>4. QED
  BY <1>1, <1>2, <1>3, Invariant, PTL DEF Spec
=============================================================================
