--------------------------- MODULE ReadingProofs ---------------------------
(***************************************************************************)
(* Proofs about Reading for any users, books, chapters, files, lists and   *)
(* number of concurrent requests: the type invariant and NumbersUnique,    *)
(* then what is true of the rows, HistorySound and FilesSound, and         *)
(* ClearForgets.  What the rows rest on are foreign keys that hold at      *)
(* every commit although they are checked when a row is inserted.          *)
(***************************************************************************)
EXTENDS Reading, TLAPS

\* What a request a holds at the steps t that use it.
Shape(a, t) ==
  /\ t.pc # "idle" => a \in Asks
  /\ t.pc = "find" => a.op # "clear"
  /\ t.pc = "insert" => t.rows # <<>>
  /\ t.pc = "mark" => a.op = "read" /\ t.chapter \in Chapters
  /\ t.pc \in {"store", "fill"} => a.op = "upload" /\ t.chapter \in Chapters

TypeInv == TypeOK /\ \A r \in Requests : Shape(ask[r], tx[r])

-----------------------------------------------------------------------------
(* Types *)

\* Every row is of the table its first column names.
LEMMA RowTables ==
  ASSUME NEW x \in Rows
  PROVE  /\ x[1] = "chapter" <=> x \in ChapterRows
         /\ x[1] = "history" <=> x \in HistoryRows
BY DEF Rows, ChapterRows, HistoryRows, FileRows, ChunkRows

\* The fields of what a client asks for.
LEMMA AskFields ==
  ASSUME NEW a \in Asks
  PROVE  /\ a.op \in {"add", "read", "clear", "patch", "upload", "deleteFile", "deleteBook"}
         /\ a.op = "add" => a.rows \in Seq(ChapterRows)
         /\ a.op = "read" => a.user \in Users /\ a.book \in Books
         /\ a.op = "upload" => a.file \in Files /\ a.size \in 0 .. MaxChunks
BY DEF Asks

\* An idle slot is a request.
LEMMA IdleType == Idle \in Tx /\ Idle.pc = "idle" /\ Idle.inserted = {}
BY DEF Idle, Tx, Steps

\* A request with these values in the fields that the proofs are about.
Has(t, p, c, l, i, d) ==
  t \in Tx /\ t.pc = p /\ t.chapter = c /\ t.rows = l /\ t.inserted = i /\ t.deleted = d

\* Assigning one field keeps a request a request, and its other fields.
LEMMA PcField ==
  ASSUME NEW t \in Tx, NEW v \in Steps
  PROVE  Has([t EXCEPT !.pc = v], v, t.chapter, t.rows, t.inserted, t.deleted)
BY DEF Has, Tx

LEMMA ChapterField ==
  ASSUME NEW t \in Tx, NEW v \in Chapters
  PROVE  Has([t EXCEPT !.chapter = v], t.pc, v, t.rows, t.inserted, t.deleted)
BY DEF Has, Tx

LEMMA RowsField ==
  ASSUME NEW t \in Tx, NEW v \in Seq(ChapterRows)
  PROVE  Has([t EXCEPT !.rows = v], t.pc, t.chapter, v, t.inserted, t.deleted)
BY DEF Has, Tx

LEMMA SeenField ==
  ASSUME NEW t \in Tx, NEW v \in SUBSET HistoryRows
  PROVE  Has([t EXCEPT !.seen = v], t.pc, t.chapter, t.rows, t.inserted, t.deleted)
BY DEF Has, Tx

LEMMA KnownField ==
  ASSUME NEW t \in Tx, NEW v \in SUBSET HistoryRows
  PROVE  Has([t EXCEPT !.known = v], t.pc, t.chapter, t.rows, t.inserted, t.deleted)
BY DEF Has, Tx

LEMMA InsertedField ==
  ASSUME NEW t \in Tx, NEW v \in SUBSET Rows
  PROVE  Has([t EXCEPT !.inserted = v], t.pc, t.chapter, t.rows, v, t.deleted)
BY DEF Has, Tx

LEMMA DeletedField ==
  ASSUME NEW t \in Tx, NEW v \in SUBSET Rows
  PROVE  Has([t EXCEPT !.deleted = v], t.pc, t.chapter, t.rows, t.inserted, v)
BY DEF Has, Tx

LEMMA LockedField ==
  ASSUME NEW t \in Tx, NEW v \in SUBSET Rows
  PROVE  Has([t EXCEPT !.locked = v], t.pc, t.chapter, t.rows, t.inserted, t.deleted)
BY DEF Has, Tx

\* The steps that requests move on to.
LEMMA StepNames ==
  {"find", "insert", "mark", "count", "erase", "erasing", "write", "store", "fill", "belongs",
   "chunks", "file", "drop", "cascade", "commit"} \subseteq Steps
BY DEF Steps

\* What every action may use of the type invariant.
LEMMA TxType ==
  ASSUME TypeInv, NEW r \in Requests
  PROVE  /\ tx[r] \in Tx /\ Shape(ask[r], tx[r])
         /\ tx[r].pc \in Steps /\ tx[r].rows \in Seq(ChapterRows) /\ tx[r].chapter \in Chapters \cup {None}
         /\ tx[r].seen \subseteq HistoryRows /\ tx[r].known \subseteq HistoryRows
         /\ tx[r].inserted \subseteq Rows /\ tx[r].deleted \subseteq Rows /\ tx[r].locked \subseteq Rows
         /\ db \subseteq Rows
BY DEF TypeInv, TypeOK, Tx

\* Moving one request on keeps the type of the others.
LEMMA StepType ==
  ASSUME TypeInv, NEW r \in Requests, NEW t \in Tx, Shape(ask[r], t), tx' = [tx EXCEPT ![r] = t],
         UNCHANGED <<db, ask>>
  PROVE  TypeInv'
BY DEF TypeInv, TypeOK

\* Moving on to a step.
LEMMA GoType ==
  ASSUME TypeInv, NEW r \in Requests, tx[r].pc # "idle", NEW p,
         p \in {"drop", "chunks", "erase", "cascade", "file", "commit"},
         tx' = [tx EXCEPT ![r].pc = p], UNCHANGED <<db, ask>>
  PROVE  TypeInv'
<1> DEFINE t == [tx[r] EXCEPT !.pc = p]
<1>1. t \in Tx /\ t.pc = p
  BY TxType, StepNames, PcField DEF Has
<1>2. Shape(ask[r], t)
  <2> HIDE DEF t
  <2> QED
    BY <1>1, TxType DEF Shape
<1>3. tx' = [tx EXCEPT ![r] = t]
  BY DEF TypeInv, TypeOK
<1>4. QED
  <2> HIDE DEF t
  <2> QED
    BY <1>1, <1>2, <1>3, StepType

LEMMA RollbackType ==
  ASSUME TypeInv, NEW r \in Requests, Rollback(r)
  PROVE  TypeInv'
<1>1. Shape(None, Idle)
  BY IdleType DEF Shape
<1>2. QED
  BY <1>1, IdleType DEF Rollback, TypeInv, TypeOK

LEMMA BeginType ==
  ASSUME TypeInv, NEW r \in Requests, NEW a \in Asks, a.op # "clear", Begin(r, a)
  PROVE  TypeInv'
<1> DEFINE t == [tx[r] EXCEPT !.pc = "find"]
<1>1. t \in Tx /\ t.pc = "find"
  BY TxType, StepNames, PcField DEF Has
<1>2. Shape(a, t)
  <2> HIDE DEF t
  <2> QED
    BY <1>1 DEF Shape
<1>3. tx' = [tx EXCEPT ![r] = t]
  BY DEF TypeInv, TypeOK, Begin
<1>4. QED
  <2> HIDE DEF t
  <2> QED
    BY <1>1, <1>2, <1>3 DEF TypeInv, TypeOK, Begin

\* The rows of a list of chapters.
LEMMA PlannedType ==
  ASSUME NEW b \in Books, NEW l \in Lists, Plans(l) # {}
  PROVE  Planned(b, l) \in Seq(ChapterRows)
<1>1. Plan(l) \in Plans(l)
  BY DEF Plan
<1>2. Plan(l) \in [DOMAIN l -> Chapters]
  BY <1>1 DEF Plans, FreshChapters
<1>3. l \in Seq(Int) /\ \A i \in DOMAIN l : l[i] \in Numbers
  BY ListsAssumption DEF Numbers
<1>4. \A i \in DOMAIN l : <<"chapter", Plan(l)[i], b, l[i]>> \in ChapterRows
  BY <1>2, <1>3 DEF ChapterRows
<1>5. DOMAIN l = 1 .. Len(l) /\ Len(l) \in Nat
  BY <1>3
<1>6. QED
  BY <1>4, <1>5 DEF Planned

LEMMA ArriveType ==
  ASSUME TypeInv, NEW r \in Requests, Arrive(r)
  PROVE  TypeInv'
<1>1. CASE AddChapters(r)
  <2>1. PICK b \in Books, l \in Lists :
           Plans(l) # {} /\ Begin(r, [op |-> "add", book |-> b, rows |-> Planned(b, l)])
    BY <1>1 DEF AddChapters
  <2>2. Planned(b, l) \in Seq(ChapterRows)
    BY <2>1, PlannedType
  <2> DEFINE a == [op |-> "add", book |-> b, rows |-> Planned(b, l)]
  <2>3. a \in Asks /\ a.op # "clear"
    BY <2>2 DEF Asks
  <2>4. Begin(r, a)
    BY <2>1
  <2>5. QED
    <3> HIDE DEF a
    <3> QED
      BY <2>3, <2>4, BeginType
<1>2. CASE GetChapter(r)
  BY <1>2, BeginType DEF GetChapter, Asks
<1>3. CASE ClearHistory(r)
  <2>1. PICK u \in Users, b \in Books :
          /\ ask' = [ask EXCEPT ![r] = [op |-> "clear", user |-> u, book |-> b]]
          /\ tx' = [tx EXCEPT ![r].pc = "count", ![r].known = History(u, b)]
          /\ db' = db
    BY <1>3 DEF ClearHistory
  <2> DEFINE a == [op |-> "clear", user |-> u, book |-> b]
             t1 == [tx[r] EXCEPT !.pc = "count"]
             t == [t1 EXCEPT !.known = History(u, b)]
  <2>2. a \in Asks
    BY DEF Asks
  <2>3. t1 \in Tx /\ t1.pc = "count"
    BY TxType, StepNames, PcField DEF Has
  <2>4. History(u, b) \subseteq HistoryRows
    BY TxType, RowTables DEF History
  <2>5. t \in Tx /\ t.pc = "count"
    <3> HIDE DEF t1
    <3> QED
      BY <2>3, <2>4, KnownField DEF Has
  <2>6. tx' = [tx EXCEPT ![r] = t]
    BY <2>1 DEF TypeInv, TypeOK
  <2>7. Shape(a, t)
    <3> HIDE DEF t, a
    <3> QED
      BY <2>2, <2>5 DEF Shape
  <2>8. QED
    <3> HIDE DEF t
    <3> QED
      BY <2>1, <2>2, <2>5, <2>6, <2>7 DEF TypeInv, TypeOK
<1>4. CASE UpdateChapter(r)
  BY <1>4, BeginType DEF UpdateChapter, Asks
<1>5. CASE CreateFile(r)
  BY <1>5, BeginType DEF CreateFile, FreshFiles, Asks
<1>6. CASE DeleteFile(r)
  BY <1>6, BeginType DEF DeleteFile, Asks
<1>7. CASE DeleteBook(r)
  BY <1>7, BeginType DEF DeleteBook, Asks
<1>8. QED
  BY <1>1, <1>2, <1>3, <1>4, <1>5, <1>6, <1>7 DEF Arrive

LEMMA FindType ==
  ASSUME TypeInv, NEW r \in Requests, FindBook(r) \/ FindChapter(r)
  PROVE  TypeInv'
<1>1. tx[r].pc = "find" /\ ask[r] \in Asks /\ ask[r].op # "clear"
  BY TxType DEF FindBook, FindChapter, Shape
<1>2. CASE Rollback(r)
  BY <1>2, RollbackType
<1>3. CASE tx' = [tx EXCEPT ![r].pc = "drop"] /\ UNCHANGED <<db, ask>>
  BY <1>1, <1>3, GoType
<1>4. CASE /\ ask[r].op = "add" /\ ask[r].rows # <<>>
           /\ tx' = [tx EXCEPT ![r].rows = ask[r].rows, ![r].pc = "insert"]
           /\ UNCHANGED <<db, ask>>
  <2> DEFINE t1 == [tx[r] EXCEPT !.rows = ask[r].rows]
             t == [t1 EXCEPT !.pc = "insert"]
  <2>1. t1 \in Tx /\ t1.rows = ask[r].rows
    BY <1>1, <1>4, TxType, RowsField, AskFields DEF Has
  <2>2. t \in Tx /\ t.pc = "insert" /\ t.rows = ask[r].rows
    <3> HIDE DEF t1
    <3> QED
      BY <2>1, PcField, StepNames DEF Has
  <2>3. tx' = [tx EXCEPT ![r] = t]
    BY <1>4 DEF TypeInv, TypeOK
  <2>4. QED
    <3> HIDE DEF t
    <3> QED
      BY <1>1, <1>4, <2>2, <2>3, StepType DEF Shape
<1>5. CASE FindChapter(r) /\ ~ Rollback(r)
  <2>1. PICK x \in db :
          /\ x[1] = "chapter" /\ ask[r].op \notin {"add", "deleteBook"}
          /\ tx' = [tx EXCEPT ![r].chapter = x[2], ![r].pc = AfterFind(ask[r].op)]
          /\ UNCHANGED <<db, ask>>
    BY <1>5 DEF FindChapter
  <2> DEFINE p == AfterFind(ask[r].op)
             t1 == [tx[r] EXCEPT !.chapter = x[2]]
             t == [t1 EXCEPT !.pc = p]
  <2>2. x[2] \in Chapters
    BY <2>1, TxType, RowTables DEF ChapterRows
  <2>3. t1 \in Tx /\ t1.chapter = x[2]
    BY <2>2, TxType, ChapterField DEF Has
  <2>4. /\ p \in {"mark", "write", "store", "belongs"}
        /\ p = "mark" => ask[r].op = "read"
        /\ p = "store" => ask[r].op = "upload"
    BY <1>1, <2>1, AskFields DEF AfterFind
  <2>5. t \in Tx /\ t.pc = p /\ t.chapter = x[2]
    <3> HIDE DEF t1, p
    <3> QED
      BY <2>3, <2>4, PcField, StepNames DEF Has
  <2>6. tx' = [tx EXCEPT ![r] = t]
    BY <2>1 DEF TypeInv, TypeOK
  <2>7. QED
    <3> HIDE DEF t, p
    <3> QED
      BY <1>1, <2>1, <2>2, <2>4, <2>5, <2>6, StepType DEF Shape
<1>6. QED
  BY <1>2, <1>3, <1>4, <1>5 DEF FindBook, ListRefused

LEMMA InsertChapterType ==
  ASSUME TypeInv, NEW r \in Requests, InsertChapter(r)
  PROVE  TypeInv'
<1> DEFINE x == Head(tx[r].rows)
           rest == Tail(tx[r].rows)
           p == IF rest = <<>> THEN "commit" ELSE "insert"
           t1 == [tx[r] EXCEPT !.inserted = @ \cup {x}]
           t2 == [t1 EXCEPT !.rows = rest]
           t == [t2 EXCEPT !.pc = p]
<1>1. tx[r].pc = "insert" /\ tx[r].rows # <<>> /\ ask[r] \in Asks
  BY TxType DEF InsertChapter, At, Shape
<1>2. x \in ChapterRows /\ rest \in Seq(ChapterRows)
  BY <1>1, TxType
<1>3. CASE Refused(r, x)
  BY <1>3, RollbackType DEF InsertChapter
<1>4. CASE ~ Refused(r, x)
  <2>1. tx[r].inserted \cup {x} \in SUBSET Rows
    BY <1>2, TxType DEF Rows
  <2>2. t1 \in Tx
    BY <2>1, TxType, InsertedField DEF Has
  <2>3. t2 \in Tx /\ t2.rows = rest
    <3> HIDE DEF t1
    <3> QED
      BY <1>2, <2>2, RowsField DEF Has
  <2>4. t \in Tx /\ t.pc = p /\ t.rows = rest
    <3> HIDE DEF t2
    <3> QED
      BY <2>3, PcField, StepNames DEF Has
  <2>5. tx' = [tx EXCEPT ![r] = t] /\ UNCHANGED <<db, ask>>
    BY <1>4 DEF InsertChapter, TypeInv, TypeOK
  <2>6. Shape(ask[r], t)
    <3> HIDE DEF t
    <3> QED
      BY <1>1, <2>4 DEF Shape
  <2>7. QED
    <3> HIDE DEF t
    <3> QED
      BY <2>4, <2>5, <2>6, StepType
<1>5. QED
  BY <1>3, <1>4

\* Assigning one field and moving on.
LEMMA MoveType ==
  ASSUME TypeInv, NEW r \in Requests, tx[r].pc # "idle", NEW t1 \in Tx,
         NEW p \in {"erasing", "cascade", "file", "commit"},
         tx' = [tx EXCEPT ![r] = [t1 EXCEPT !.pc = p]], UNCHANGED <<db, ask>>
  PROVE  TypeInv'
<1> DEFINE t == [t1 EXCEPT !.pc = p]
<1>1. t \in Tx /\ t.pc = p
  BY PcField, StepNames DEF Has
<1>2. QED
  <2> HIDE DEF t
  <2>1. Shape(ask[r], t)
    BY <1>1, TxType DEF Shape
  <2>2. tx' = [tx EXCEPT ![r] = t]
    BY DEF t
  <2>3. QED
    BY <1>1, <2>1, <2>2, StepType

LEMMA MarkType ==
  ASSUME TypeInv, NEW r \in Requests, MarkRead(r)
  PROVE  TypeInv' /\ Mark(r) \in HistoryRows
<1>1. tx[r].pc = "mark" /\ Mark(r) \in HistoryRows
  BY TxType, AskFields DEF MarkRead, At, Shape, Mark, HistoryRows
<1>2. CASE Mark(r) \in db
  <2> DEFINE t1 == [tx[r] EXCEPT !.locked = {Mark(r)}]
  <2>1. t1 \in Tx
    BY <1>2, TxType, LockedField DEF Has
  <2>2. tx' = [tx EXCEPT ![r] = [t1 EXCEPT !.pc = "commit"]] /\ UNCHANGED <<db, ask>>
    BY <1>2 DEF MarkRead, TypeInv, TypeOK
  <2>3. QED
    <3> HIDE DEF t1
    <3> QED
      BY <1>1, <2>1, <2>2, MoveType
<1>3. CASE Rollback(r)
  BY <1>1, <1>3, RollbackType
<1>4. CASE Insert(r, Mark(r), "commit")
  <2> DEFINE t1 == [tx[r] EXCEPT !.inserted = @ \cup {Mark(r)}]
  <2>1. tx[r].inserted \cup {Mark(r)} \in SUBSET Rows
    BY <1>1, TxType DEF Rows
  <2>2. t1 \in Tx
    BY <2>1, TxType, InsertedField DEF Has
  <2>3. tx' = [tx EXCEPT ![r] = [t1 EXCEPT !.pc = "commit"]] /\ UNCHANGED <<db, ask>>
    BY <1>4 DEF Insert, TypeInv, TypeOK
  <2>4. QED
    <3> HIDE DEF t1
    <3> QED
      BY <1>1, <2>2, <2>3, MoveType
<1>5. QED
  BY <1>2, <1>3, <1>4 DEF MarkRead

LEMMA ClearType ==
  ASSUME TypeInv, NEW r \in Requests, Count(r) \/ Erase(r) \/ Erased(r)
  PROVE  TypeInv'
<1>1. CASE Count(r)
  BY <1>1, GoType DEF Count, Go
<1>2. CASE Erase(r)
  <2> DEFINE h == History(ask[r].user, ask[r].book)
             t1 == [tx[r] EXCEPT !.seen = h]
  <2>1. h \in SUBSET HistoryRows
    BY TxType, RowTables DEF History
  <2>2. t1 \in Tx
    <3> HIDE DEF h
    <3> QED
      BY <2>1, TxType, SeenField DEF Has
  <2>3. /\ tx' = [tx EXCEPT ![r] = [t1 EXCEPT !.pc = "erasing"]]
        /\ tx[r].pc = "erase" /\ UNCHANGED <<db, ask>>
    BY <1>2 DEF Erase, TypeInv, TypeOK
  <2>4. QED
    <3> HIDE DEF t1
    <3> QED
      BY <2>2, <2>3, MoveType
<1>3. CASE Erased(r)
  <2> DEFINE t0 == [tx[r] EXCEPT !.deleted = @ \cup tx[r].seen]
             t1 == [t0 EXCEPT !.seen = {}]
  <2>1. tx[r].deleted \cup tx[r].seen \in SUBSET Rows
    BY TxType DEF Rows
  <2>2. t0 \in Tx
    BY <2>1, TxType, DeletedField DEF Has
  <2>3. t1 \in Tx
    <3> HIDE DEF t0
    <3> QED
      BY <2>2, SeenField DEF Has
  <2>4. /\ tx' = [tx EXCEPT ![r] = [t1 EXCEPT !.pc = "commit"]]
        /\ tx[r].pc = "erasing" /\ UNCHANGED <<db, ask>>
    BY <1>3 DEF Erased, At, TypeInv, TypeOK
  <2>5. QED
    <3> HIDE DEF t1
    <3> QED
      BY <2>3, <2>4, MoveType
<1>4. QED
  BY <1>1, <1>2, <1>3

LEMMA WriteType ==
  ASSUME TypeInv, NEW r \in Requests, WriteChapter(r)
  PROVE  TypeInv'
<1>1. CASE Rollback(r)
  BY <1>1, RollbackType
<1>2. CASE Updates(r) # {}
  <2> DEFINE t1 == [tx[r] EXCEPT !.locked = Updates(r)]
  <2>1. tx[r].pc = "write"
    BY DEF WriteChapter, At
  <2>2. Updates(r) \in SUBSET Rows
    BY <2>1, TxType DEF Updates
  <2>3. t1 \in Tx
    BY <2>2, TxType, LockedField DEF Has
  <2>4. tx' = [tx EXCEPT ![r] = [t1 EXCEPT !.pc = "commit"]] /\ UNCHANGED <<db, ask>>
    BY <1>2 DEF WriteChapter, TypeInv, TypeOK
  <2>5. QED
    <3> HIDE DEF t1
    <3> QED
      BY <2>1, <2>3, <2>4, MoveType
<1>3. QED
  BY <1>1, <1>2 DEF WriteChapter

\* The row of an uploaded file.
LEMMA NewFileType ==
  ASSUME TypeInv, NEW r \in Requests, tx[r].pc \in {"store", "fill"}
  PROVE  /\ NewFile(r, 0) \in FileRows /\ NewFile(r, ask[r].size) \in FileRows
         /\ \A i \in 0 .. ask[r].size - 1 : <<"chunk", ask[r].file, i>> \in ChunkRows
<1>1. ask[r] \in Asks /\ ask[r].op = "upload" /\ tx[r].chapter \in Chapters
  BY TxType DEF Shape
<1>2. ask[r].file \in Files /\ ask[r].size \in 0 .. MaxChunks
  BY <1>1, AskFields
<1>3. QED
  BY <1>1, <1>2, ChunksAssumption DEF NewFile, FileRows, ChunkRows

LEMMA UploadType ==
  ASSUME TypeInv, NEW r \in Requests, StoreFile(r) \/ Fill(r)
  PROVE  TypeInv'
<1>1. CASE Rollback(r)
  BY <1>1, RollbackType
<1>2. CASE StoreFile(r) /\ Insert(r, NewFile(r, 0), "fill")
  <2> DEFINE t1 == [tx[r] EXCEPT !.inserted = @ \cup {NewFile(r, 0)}]
             t == [t1 EXCEPT !.pc = "fill"]
  <2>1. tx[r].pc = "store"
    BY <1>2 DEF StoreFile, At
  <2>2. tx[r].inserted \cup {NewFile(r, 0)} \in SUBSET Rows
    BY <2>1, NewFileType, TxType DEF Rows
  <2>3. t1 \in Tx /\ t1.chapter = tx[r].chapter
    BY <2>2, TxType, InsertedField DEF Has
  <2>4. t \in Tx /\ t.pc = "fill" /\ t.chapter = tx[r].chapter
    <3> HIDE DEF t1
    <3> QED
      BY <2>3, PcField, StepNames DEF Has
  <2>5. tx' = [tx EXCEPT ![r] = t] /\ UNCHANGED <<db, ask>>
    BY <1>2 DEF Insert, TypeInv, TypeOK
  <2>6. Shape(ask[r], t)
    <3> HIDE DEF t
    <3> QED
      BY <2>1, <2>4, TxType DEF Shape
  <2>7. QED
    <3> HIDE DEF t
    <3> QED
      BY <2>4, <2>5, <2>6, StepType
<1>3. CASE Fill(r)
  <2> DEFINE s == {NewFile(r, ask[r].size)} \cup
                  {<<"chunk", ask[r].file, i>> : i \in 0 .. ask[r].size - 1}
             t1 == [tx[r] EXCEPT !.inserted = s]
  <2>1. tx[r].pc = "fill"
    BY <1>3 DEF Fill
  <2>2. s \in SUBSET Rows
    BY <2>1, NewFileType DEF Rows
  <2>3. t1 \in Tx
    <3> HIDE DEF s
    <3> QED
      BY <2>2, TxType, InsertedField DEF Has
  <2>4. tx' = [tx EXCEPT ![r] = [t1 EXCEPT !.pc = "commit"]] /\ UNCHANGED <<db, ask>>
    BY <1>3 DEF Fill, TypeInv, TypeOK
  <2>5. QED
    <3> HIDE DEF t1
    <3> QED
      BY <2>1, <2>3, <2>4, MoveType
<1>4. QED
  BY <1>1, <1>2, <1>3 DEF StoreFile

LEMMA DeleteType ==
  ASSUME TypeInv, NEW r \in Requests, tx[r].pc # "idle", NEW p \in {"cascade", "file", "commit"},
         Delete(r, p)
  PROVE  TypeInv'
<1> DEFINE t1 == [tx[r] EXCEPT !.deleted = @ \cup Deletes(r)]
<1>1. tx[r].deleted \cup Deletes(r) \in SUBSET Rows
  BY TxType DEF Deletes, Children, Rows
<1>2. t1 \in Tx
  BY <1>1, TxType, DeletedField DEF Has
<1>3. tx' = [tx EXCEPT ![r] = [t1 EXCEPT !.pc = p]] /\ UNCHANGED <<db, ask>>
  BY DEF Delete, TypeInv, TypeOK
<1>4. QED
  <2> HIDE DEF t1
  <2> QED
    BY <1>2, <1>3, MoveType

LEMMA CommitType ==
  ASSUME TypeInv, NEW r \in Requests, Commit(r)
  PROVE  TypeInv'
<1>1. db' \subseteq Rows
  BY TxType DEF Commit, View
<1>2. ask' \in [Requests -> Asks \cup {None}] /\ ask'[r] = None
  BY DEF Commit, TypeInv, TypeOK
<1>3. ASSUME NEW q \in Requests, q # r
      PROVE  tx'[q] \in Tx /\ Shape(ask'[q], tx'[q])
  <2> DEFINE s == tx[q].seen \ tx[r].deleted
             k == tx[q].known \ (tx[r].inserted \cup tx[r].locked)
             t1 == [tx[q] EXCEPT !.seen = s]
             t == [t1 EXCEPT !.known = k]
  <2>1. tx[q] \in Tx /\ s \in SUBSET HistoryRows /\ k \in SUBSET HistoryRows
    BY TxType
  <2>2. Has(t1, tx[q].pc, tx[q].chapter, tx[q].rows, tx[q].inserted, tx[q].deleted)
    <3> HIDE DEF s
    <3> QED
      BY <2>1, SeenField
  <2>3. Has(t, tx[q].pc, tx[q].chapter, tx[q].rows, tx[q].inserted, tx[q].deleted)
    <3> HIDE DEF t1, k
    <3> QED
      BY <2>1, <2>2, KnownField DEF Has
  <2>4. tx'[q] = t /\ ask'[q] = ask[q]
    BY <1>3, <2>1 DEF Commit, Tx, TypeInv, TypeOK
  <2>5. QED
    <3> HIDE DEF t
    <3> QED
      BY <2>3, <2>4, TxType DEF Has, Shape
<1>4. tx'[r] = Idle /\ DOMAIN tx' = Requests /\ tx' = [q \in Requests |-> tx'[q]]
  BY DEF Commit
<1>5. QED
  BY <1>1, <1>2, <1>3, <1>4, IdleType DEF TypeInv, TypeOK, Shape

LEMMA StepsType ==
  ASSUME TypeInv, NEW r \in Requests, Arrive(r) \/ Step(r) \/ DbError(r)
  PROVE  TypeInv'
<1>1. CASE Arrive(r)
  BY <1>1, ArriveType
<1>2. CASE FindBook(r) \/ FindChapter(r)
  BY <1>2, FindType
<1>3. CASE InsertChapter(r)
  BY <1>3, InsertChapterType
<1>4. CASE MarkRead(r)
  BY <1>4, MarkType
<1>5. CASE Count(r) \/ Erase(r) \/ Erased(r)
  BY <1>5, ClearType
<1>6. CASE WriteChapter(r)
  BY <1>6, WriteType
<1>7. CASE StoreFile(r) \/ Fill(r)
  BY <1>7, UploadType
<1>8. CASE Belongs(r)
  BY <1>8, GoType, RollbackType DEF Belongs, Go
<1>9. CASE DeleteChunks(r) \/ DropFile(r) \/ DropBook(r)
  BY <1>9, DeleteType DEF DeleteChunks, DropFile, DropBook, At
<1>10. CASE Cascade(r)
  BY <1>10, DeleteType, GoType DEF Cascade, At, Go
<1>11. CASE Commit(r)
  BY <1>11, CommitType
<1>12. CASE DeadlockVictim(r) \/ DbError(r)
  BY <1>12, RollbackType DEF DeadlockVictim, DbError
<1>13. QED
  BY <1>1, <1>2, <1>3, <1>4, <1>5, <1>6, <1>7, <1>8, <1>9, <1>10, <1>11, <1>12 DEF Step

LEMMA InitType == Init => TypeInv
<1> SUFFICES ASSUME Init
             PROVE  TypeInv
  OBVIOUS
<1>1. db \subseteq Rows
  BY DEF Init, Rows
<1>2. QED
  BY <1>1, IdleType DEF Init, TypeInv, TypeOK, Shape

LEMMA NextType == TypeInv /\ [Next]_vars => TypeInv'
<1> SUFFICES ASSUME TypeInv, [Next]_vars
             PROVE  TypeInv'
  OBVIOUS
<1>1. CASE Next
  BY <1>1, StepsType DEF Next
<1>2. CASE UNCHANGED vars
  BY <1>2 DEF vars, TypeInv, TypeOK, Shape
<1>3. QED
  BY <1>1, <1>2

\* In every run each variable holds a value of the shape the code gives it.
THEOREM TypeCorrect == Spec => []TypeOK
<1>1. TypeInv => TypeOK
  BY DEF TypeInv
<1>2. QED
  BY <1>1, InitType, NextType, PTL DEF Spec

-----------------------------------------------------------------------------
(* Numbers of chapters *)

\* Two rows that claim the same number of the same book.
Same(x, y) ==
  x[1] = "chapter" /\ y[1] = "chapter" /\ <<x[3], x[4]>> = <<y[3], y[4]>>

\* Among the committed rows, among the rows of one request, between the rows
\* of a request and the committed ones it has not deleted, and between those
\* of two requests, no number is claimed twice.
NumberInv ==
  /\ \A x, y \in db : Same(x, y) => x = y
  /\ \A r \in Requests : \A x, y \in tx[r].inserted : Same(x, y) => x = y
  /\ \A r \in Requests : \A x \in tx[r].inserted, y \in db \ tx[r].deleted : ~ Same(x, y)
  /\ \A r, q \in Requests : r # q =>
       \A x \in tx[r].inserted, y \in tx[q].inserted : ~ Same(x, y)

\* Rows of the same number have a unique key in common.
LEMMA SameKeys ==
  ASSUME NEW x, NEW y, Same(x, y)
  PROVE  Keys(x) \cap Keys(y) # {}
<1>1. <<"number", x[3], x[4]>> \in Keys(x) /\ <<"number", y[3], y[4]>> \in Keys(y)
  BY DEF Same, Keys
<1>2. QED
  BY <1>1 DEF Same

\* Steps that insert no chapter and keep what they have deleted.
LEMMA NumberKept ==
  ASSUME NumberInv, db' = db,
         \A q \in Requests : \A x \in tx'[q].inserted :
           x[1] = "chapter" => x \in tx[q].inserted /\ tx[q].deleted \subseteq tx'[q].deleted
  PROVE  NumberInv'
BY DEF NumberInv, Same

\* A commit makes the rows of one request those of all.
LEMMA NumberCommit ==
  ASSUME TypeInv, NumberInv, NEW r \in Requests, Commit(r)
  PROVE  NumberInv'
<1>1. db' = (db \ tx[r].deleted) \cup tx[r].inserted
  BY DEF Commit, View
<1>2. tx'[r].inserted = {}
  BY IdleType DEF Commit
<1>3. ASSUME NEW q \in Requests, q # r
      PROVE  tx'[q].inserted = tx[q].inserted /\ tx'[q].deleted = tx[q].deleted
  BY <1>3, TxType DEF Commit, Tx
<1>4. \A x, y \in db' : Same(x, y) => x = y
  BY <1>1 DEF NumberInv, Same
<1>5. \A q \in Requests : \A x \in tx'[q].inserted, y \in db' \ tx'[q].deleted : ~ Same(x, y)
  BY <1>1, <1>2, <1>3 DEF NumberInv
<1>6. QED
  BY <1>2, <1>3, <1>4, <1>5 DEF NumberInv

\* A chapter is inserted only when its number is free everywhere.
LEMMA NumberInsert ==
  ASSUME TypeInv, NumberInv, NEW r \in Requests, InsertChapter(r), ~ Rollback(r)
  PROVE  NumberInv'
<1> DEFINE x == Head(tx[r].rows)
<1>1. tx[r].pc = "insert" /\ Blockers(r) = {} /\ ~ Refused(r, x)
  BY DEF InsertChapter, At
<1>2. /\ tx'[r].inserted = tx[r].inserted \cup {x} /\ tx'[r].deleted = tx[r].deleted
      /\ \A q \in Requests : q # r => tx'[q] = tx[q]
      /\ db' = db
  BY <1>1, TxType DEF InsertChapter, Tx, TypeInv, TypeOK
<1>3. \A y \in View(r) : ~ Same(x, y)
  BY <1>1, SameKeys DEF Refused, KeysOf
<1>4. ASSUME NEW q \in Requests, q # r, NEW y \in tx[q].inserted
      PROVE  ~ Same(x, y)
  <2>1. Inserts(r) = {x}
    BY <1>1 DEF Inserts
  <2>2. Keys(x) \cap Keys(y) = {}
    <3>1. q \notin Blockers(r) /\ q \in Others(r)
      BY <1>1, <1>4 DEF Others
    <3>2. KeysOf(Inserts(r)) \cap KeysOf(tx[q].inserted \cup tx[q].deleted) = {}
      BY <1>4, <3>1 DEF Blockers
    <3>3. QED
      BY <2>1, <3>2, <1>4 DEF KeysOf
  <2>3. QED
    BY <2>2, SameKeys
<1>5. \A y, z : Same(y, z) => Same(z, y)
  BY DEF Same
<1>6. QED
  <2> HIDE DEF x
  <2> QED
    BY <1>2, <1>3, <1>4, <1>5 DEF NumberInv, View

\* A request that is rolled back leaves nothing inserted.
LEMMA NumberRollback ==
  ASSUME TypeInv, NumberInv, NEW r \in Requests, Rollback(r)
  PROVE  NumberInv'
<1>1. tx'[r].inserted = {} /\ \A q \in Requests : q # r => tx'[q] = tx[q]
  BY IdleType DEF Rollback, TypeInv, TypeOK
<1>2. QED
  BY <1>1, NumberKept DEF Rollback

\* Steps after which the request has inserted what it had, with rows of other
\* tables or without.
LEMMA NumberStep ==
  ASSUME TypeInv, NumberInv, NEW r \in Requests, db' = db,
         \A q \in Requests : q # r => tx'[q] = tx[q],
         \A x \in tx'[r].inserted : x[1] = "chapter" => x \in tx[r].inserted,
         tx[r].deleted \subseteq tx'[r].deleted
  PROVE  NumberInv'
BY NumberKept

LEMMA NumberGo ==
  ASSUME TypeInv, NumberInv, NEW r \in Requests, NEW p, Go(r, p)
  PROVE  NumberInv'
<1>1. /\ tx'[r].inserted = tx[r].inserted /\ tx'[r].deleted = tx[r].deleted
      /\ \A q \in Requests : q # r => tx'[q] = tx[q]
  BY TxType DEF Go, Tx, TypeInv, TypeOK
<1>2. QED
  BY <1>1, NumberStep DEF Go

LEMMA NumberDelete ==
  ASSUME TypeInv, NumberInv, NEW r \in Requests, NEW p, Delete(r, p)
  PROVE  NumberInv'
<1>1. /\ tx'[r].inserted = tx[r].inserted /\ tx'[r].deleted = tx[r].deleted \cup Deletes(r)
      /\ \A q \in Requests : q # r => tx'[q] = tx[q]
  BY TxType DEF Delete, Tx, TypeInv, TypeOK
<1>2. QED
  BY <1>1, NumberStep DEF Delete

LEMMA NumberInsertOther ==
  ASSUME TypeInv, NumberInv, NEW r \in Requests, NEW x, x[1] # "chapter", NEW p, Insert(r, x, p)
  PROVE  NumberInv'
<1>1. /\ tx'[r].inserted = tx[r].inserted \cup {x} /\ tx'[r].deleted = tx[r].deleted
      /\ \A q \in Requests : q # r => tx'[q] = tx[q]
  BY TxType DEF Insert, Tx, TypeInv, TypeOK
<1>2. QED
  BY <1>1, NumberStep DEF Insert

LEMMA NumberArrive ==
  ASSUME TypeInv, NumberInv, NEW r \in Requests, Arrive(r)
  PROVE  NumberInv'
<1>1. /\ tx'[r].inserted = tx[r].inserted /\ tx'[r].deleted = tx[r].deleted
      /\ \A q \in Requests : q # r => tx'[q] = tx[q]
      /\ db' = db
  <2>1. CASE ClearHistory(r)
    BY <2>1, TxType DEF ClearHistory, Tx, TypeInv, TypeOK
  <2>2. CASE \E a : Begin(r, a)
    BY <2>2, TxType DEF Begin, Tx, TypeInv, TypeOK
  <2>3. QED
    BY <2>1, <2>2 DEF Arrive, AddChapters, GetChapter, UpdateChapter, CreateFile, DeleteFile,
                      DeleteBook
<1>2. QED
  BY <1>1, NumberStep

LEMMA NumberFind ==
  ASSUME TypeInv, NumberInv, NEW r \in Requests, FindBook(r) \/ FindChapter(r)
  PROVE  NumberInv'
<1>1. CASE Rollback(r)
  BY <1>1, NumberRollback
<1>2. CASE ~ Rollback(r)
  <2>1. db' = db /\ \/ tx' = [tx EXCEPT ![r].rows = ask[r].rows, ![r].pc = "insert"]
                    \/ tx' = [tx EXCEPT ![r].pc = "drop"]
                    \/ \E c : tx' = [tx EXCEPT ![r].chapter = c, ![r].pc = AfterFind(ask[r].op)]
    BY <1>2 DEF FindBook, FindChapter
  <2>2. /\ tx'[r].inserted = tx[r].inserted /\ tx'[r].deleted = tx[r].deleted
        /\ \A q \in Requests : q # r => tx'[q] = tx[q]
    BY <2>1, TxType DEF Tx, TypeInv, TypeOK
  <2>3. QED
    BY <2>1, <2>2, NumberStep
<1>3. QED
  BY <1>1, <1>2

LEMMA NumberClear ==
  ASSUME TypeInv, NumberInv, NEW r \in Requests, Count(r) \/ Erase(r) \/ Erased(r)
  PROVE  NumberInv'
<1>1. CASE Count(r)
  BY <1>1, NumberGo DEF Count
<1>2. CASE Erase(r)
  BY <1>2, TxType, NumberStep DEF Erase, Tx, TypeInv, TypeOK
<1>3. CASE Erased(r)
  BY <1>3, TxType, NumberStep DEF Erased, Tx, TypeInv, TypeOK
<1>4. QED
  BY <1>1, <1>2, <1>3

\* A history row is not a chapter.
LEMMA NumberMark ==
  ASSUME TypeInv, NumberInv, NEW r \in Requests, MarkRead(r)
  PROVE  NumberInv'
<1>1. Mark(r)[1] # "chapter"
  BY DEF Mark
<1>2. CASE Mark(r) \in db
  BY <1>2, TxType, NumberStep DEF MarkRead, Tx, TypeInv, TypeOK
<1>3. CASE Mark(r) \notin db
  BY <1>1, <1>3, NumberRollback, NumberInsertOther DEF MarkRead
<1>4. QED
  BY <1>2, <1>3

LEMMA NumberWrite ==
  ASSUME TypeInv, NumberInv, NEW r \in Requests, WriteChapter(r)
  PROVE  NumberInv'
<1>1. CASE Rollback(r)
  BY <1>1, NumberRollback
<1>2. CASE ~ Rollback(r)
  BY <1>2, TxType, NumberStep DEF WriteChapter, Tx, TypeInv, TypeOK
<1>3. QED
  BY <1>1, <1>2

\* Neither is a file or a chunk.
LEMMA NumberUpload ==
  ASSUME TypeInv, NumberInv, NEW r \in Requests, StoreFile(r) \/ Fill(r)
  PROVE  NumberInv'
<1>1. \A n : NewFile(r, n)[1] # "chapter"
  BY DEF NewFile
<1>2. CASE StoreFile(r)
  BY <1>1, <1>2, NumberRollback, NumberInsertOther DEF StoreFile
<1>3. CASE Fill(r)
  <2> DEFINE s == {NewFile(r, ask[r].size)} \cup
                  {<<"chunk", ask[r].file, i>> : i \in 0 .. ask[r].size - 1}
  <2>1. \A x \in s : x[1] # "chapter"
    BY <1>1
  <2>2. /\ tx'[r].inserted = s /\ tx'[r].deleted = tx[r].deleted
        /\ \A q \in Requests : q # r => tx'[q] = tx[q]
        /\ db' = db
    <3> HIDE DEF s
    <3>1. tx' = [tx EXCEPT ![r].inserted = s, ![r].pc = "commit"] /\ db' = db
      BY <1>3 DEF Fill, s
    <3>2. QED
      BY <3>1, TxType DEF Tx, TypeInv, TypeOK
  <2>3. QED
    <3> HIDE DEF s
    <3> QED
      BY <2>1, <2>2, NumberStep
<1>4. QED
  BY <1>2, <1>3

LEMMA NumberNext == TypeInv /\ NumberInv /\ [Next]_vars => NumberInv'
<1> SUFFICES ASSUME TypeInv, NumberInv, [Next]_vars
             PROVE  NumberInv'
  OBVIOUS
<1>1. ASSUME NEW r \in Requests, Arrive(r) \/ Step(r) \/ DbError(r)
      PROVE  NumberInv'
  <2>1. CASE Arrive(r)
    BY <2>1, NumberArrive
  <2>2. CASE FindBook(r) \/ FindChapter(r)
    BY <2>2, NumberFind
  <2>3. CASE InsertChapter(r)
    BY <2>3, NumberInsert, NumberRollback
  <2>4. CASE MarkRead(r)
    BY <2>4, NumberMark
  <2>5. CASE Count(r) \/ Erase(r) \/ Erased(r)
    BY <2>5, NumberClear
  <2>6. CASE WriteChapter(r)
    BY <2>6, NumberWrite
  <2>7. CASE StoreFile(r) \/ Fill(r)
    BY <2>7, NumberUpload
  <2>8. CASE Belongs(r)
    BY <2>8, NumberGo, NumberRollback DEF Belongs
  <2>9. CASE DeleteChunks(r) \/ DropFile(r) \/ DropBook(r)
    BY <2>9, NumberDelete DEF DeleteChunks, DropFile, DropBook
  <2>10. CASE Cascade(r)
    BY <2>10, NumberDelete, NumberGo DEF Cascade
  <2>11. CASE Commit(r)
    BY <2>11, NumberCommit
  <2>12. CASE DeadlockVictim(r) \/ DbError(r)
    BY <2>12, NumberRollback DEF DeadlockVictim, DbError
  <2>13. QED
    BY <1>1, <2>1, <2>2, <2>3, <2>4, <2>5, <2>6, <2>7, <2>8, <2>9, <2>10, <2>11, <2>12 DEF Step
<1>2. CASE UNCHANGED vars
  BY <1>2 DEF vars, NumberInv
<1>3. QED
  BY <1>1, <1>2 DEF Next

LEMMA NumberInit == Init => NumberInv
BY IdleType DEF Init, NumberInv, Same

\* However many requests add chapters to a book at the same time, and whatever
\* is deleted meanwhile, a number names at most one chapter of a book.
THEOREM NumbersHold == Spec => []NumbersUnique
<1>1. NumberInv => NumbersUnique
  BY DEF NumberInv, NumbersUnique, Same
<1>2. QED
  BY <1>1, InitType, NextType, NumberInit, NumberNext, PTL DEF Spec

-----------------------------------------------------------------------------
(* The rows *)


\* Row x refers to row y.
Refers(x, y) == Parents(x) \cap Keys(y) # {}

\* Chapter c is one of book b as long as the book is there.
Chaptered(D, c, b) ==
  <<"book", b>> \in D => \E y \in D : y[1] = "chapter" /\ y[2] = c /\ y[3] = b

\* The rows D have the chunks of the file x, and no others of its name.
Whole(D, x) ==
  /\ \A y \in D : y[1] = "chunk" /\ y[2] = x[2] => y[3] \in 0 .. x[4] - 1
  /\ \A i \in 0 .. x[4] - 1 : <<"chunk", x[2], i>> \in D

\* What is true of the committed rows D.
Tables(D) ==
  /\ \A x \in D : Parents(x) \subseteq KeysOf(D)
  /\ \A x \in D : x[1] = "history" => Chaptered(D, x[3], x[4])
  /\ \A x, y \in D : x[1] = "file" /\ y[1] = "file" /\ x[2] = y[2] => x = y
  /\ \A x \in D : x[1] = "file" => Whole(D, x)

\* At which steps a request has changed something, and the steps of two
\* operations.
Stage(a, t) ==
  /\ t.deleted # {} => t.pc \in {"file", "cascade", "commit"} /\ t.inserted = {}
  /\ t.inserted # {} => t.pc \in {"insert", "fill", "commit"}
  /\ t.pc = "insert" => a.op = "add"
  /\ t.pc \in {"belongs", "chunks", "file"} => a.op = "deleteFile"
  /\ t.pc = "fill" => t.inserted = {<<"file", a.file, t.chapter, 0>>}

\* What a request deletes is there; what it inserts refers to rows that are
\* there or are its own; what it leaves does not refer to what it deletes.
Linked(D, t) ==
  /\ t.deleted \subseteq D /\ t.seen \subseteq D
  /\ \A x \in t.inserted : Parents(x) \subseteq KeysOf(D \cup t.inserted)
  /\ t.pc = "commit" => \A x \in D \ t.deleted, y \in t.deleted : ~ Refers(x, y)

Uploading(a, t) == t.pc # "idle" /\ a.op = "upload"

\* Files come and go with their chunks.
Filed(D, a, t) ==
  /\ Uploading(a, t) => \A x \in D : ~ (x[1] = "file" /\ x[2] = a.file)
  /\ \A x \in t.inserted : x[1] \in {"file", "chunk"} => Uploading(a, t) /\ x[2] = a.file
  /\ \A x, y \in t.inserted : x[1] = "file" /\ y[1] = "file" => x = y
  /\ t.pc = "commit" => \A x \in t.inserted : x[1] = "file" => Whole(t.inserted, x)
  /\ t.pc = "file" => t.deleted = {x \in D : x[1] = "chunk" /\ x[2] = a.file}
  /\ t.pc \in {"cascade", "commit"} =>
       \A y \in t.deleted : y[1] = "chunk" => \E x \in t.deleted : x[1] = "file" /\ x[2] = y[2]

\* Chapters go with their book, books do not come, and a chapter that is
\* marked as read is one of its book.
Placed(D, a, t) ==
  /\ \A x \in t.inserted : x[1] # "book"
  /\ \A y \in t.deleted : y[1] = "chapter" => <<"book", y[3]>> \in t.deleted
  /\ \A x \in t.inserted : x[1] = "history" => Chaptered(D, x[3], x[4])
  /\ t.pc = "mark" => Chaptered(D, t.chapter, a.book)

Alone(D, a, t) == Stage(a, t) /\ Linked(D, t) /\ Filed(D, a, t) /\ Placed(D, a, t)

\* What the locks keep apart: request t, sent for a, and request u, sent for b.
Apart(a, t, b, u) ==
  /\ \A x \in t.inserted, y \in u.deleted : ~ Refers(x, y)
  /\ t.deleted \cap u.deleted = {}
  /\ Uploading(a, t) /\ Uploading(b, u) => a.file # b.file
  /\ Uploading(a, t) /\ u.pc \in {"chunks", "file"} => a.file # b.file

RowInv ==
  /\ Tables(db)
  /\ \A r \in Requests : Alone(db, ask[r], tx[r])
  /\ \A r, q \in Requests : r # q => Apart(ask[r], tx[r], ask[q], tx[q])

-----------------------------------------------------------------------------
(* Keys and foreign keys *)

\* The keys of the rows of each table, and those they refer to.
LEMMA TableKeys ==
  ASSUME NEW x
  PROVE  /\ x[1] = "book" => Keys(x) = {<<"book", x[2]>>} /\ Parents(x) = {}
         /\ x[1] = "chapter" => /\ Keys(x) = {<<"chapter", x[2]>>, <<"number", x[3], x[4]>>}
                                /\ Parents(x) = {<<"book", x[3]>>}
         /\ x[1] = "history" => /\ Keys(x) = {<<"history", x[2], x[3]>>}
                                /\ Parents(x) = {<<"book", x[4]>>, <<"chapter", x[3]>>}
         /\ x[1] = "file" => Keys(x) = {<<"file", x[2]>>} /\ Parents(x) = {<<"chapter", x[3]>>}
         /\ x[1] = "chunk" => Keys(x) = {x} /\ Parents(x) = {<<"file", x[2]>>}
<1>1. CASE x[1] = "book"
  BY <1>1 DEF Keys, Parents
<1>2. CASE x[1] = "chapter"
  BY <1>2 DEF Keys, Parents
<1>3. CASE x[1] = "history"
  BY <1>3 DEF Keys, Parents
<1>4. CASE x[1] = "file"
  BY <1>4 DEF Keys, Parents
<1>5. CASE x[1] = "chunk"
  BY <1>5 DEF Keys, Parents
<1>6. QED
  BY <1>1, <1>2, <1>3, <1>4, <1>5

\* The five tables.
LEMMA RowKinds ==
  ASSUME NEW x \in Rows
  PROVE  /\ x[1] \in {"book", "chapter", "history", "file", "chunk"}
         /\ x[1] = "book" => x = <<"book", x[2]>>
         /\ x[1] = "chunk" => x = <<"chunk", x[2], x[3]>>
BY DEF Rows, ChapterRows, HistoryRows, FileRows, ChunkRows

\* Which row has the key of a book, and which that of a file.
LEMMA KeyOwners ==
  ASSUME NEW y \in Rows
  PROVE  /\ \A b : <<"book", b>> \in Keys(y) => y = <<"book", b>>
         /\ \A f : <<"file", f>> \in Keys(y) => y[1] = "file" /\ y[2] = f
<1>1. CASE y[1] = "book"
  BY <1>1, TableKeys, RowKinds
<1>2. CASE y[1] = "chapter"
  BY <1>2, TableKeys
<1>3. CASE y[1] = "history"
  BY <1>3, TableKeys
<1>4. CASE y[1] = "file"
  BY <1>4, TableKeys
<1>5. CASE y[1] = "chunk"
  BY <1>5, TableKeys, RowKinds
<1>6. QED
  BY <1>1, <1>2, <1>3, <1>4, <1>5, RowKinds

\* Nothing refers to a history row or to a chunk.
LEMMA Leaves ==
  ASSUME NEW x \in Rows, NEW y \in Rows, y[1] \in {"history", "chunk"}
  PROVE  ~ Refers(x, y)
<1>1. \A k \in Parents(x) : \E z : k = <<"book", z>> \/ k = <<"chapter", z>> \/ k = <<"file", z>>
  BY TableKeys, RowKinds
<1>2. CASE y[1] = "history"
  BY <1>1, <1>2, TableKeys DEF Refers
<1>3. CASE y[1] = "chunk"
  BY <1>1, <1>3, TableKeys, RowKinds DEF Refers
<1>4. QED
  BY <1>2, <1>3

-----------------------------------------------------------------------------
(* What the invariant is for *)

\* With the chapter that a history row names its book is there, and the
\* chapter is one of this book.
LEMMA RowsSound ==
  ASSUME TypeInv, RowInv
  PROVE  HistorySound /\ FilesSound
<1>1. Tables(db) /\ db \subseteq Rows
  BY TxType DEF RowInv, TypeInv, TypeOK
<1>2. ASSUME NEW x \in db, x[1] = "history"
      PROVE  /\ <<"book", x[4]>> \in db
             /\ \E y \in db : y[1] = "chapter" /\ y[2] = x[3] /\ y[3] = x[4]
  <2>1. <<"book", x[4]>> \in KeysOf(db)
    BY <1>1, <1>2, TableKeys DEF Tables
  <2>2. <<"book", x[4]>> \in db
    BY <1>1, <2>1, KeyOwners DEF KeysOf
  <2>3. QED
    BY <1>1, <1>2, <2>2 DEF Tables, Chaptered
<1>3. ASSUME NEW y \in db, y[1] = "chunk"
      PROVE  \E x \in db : x[1] = "file" /\ x[2] = y[2]
  <2>1. <<"file", y[2]>> \in KeysOf(db)
    BY <1>1, <1>3, TableKeys DEF Tables
  <2>2. QED
    BY <1>1, <2>1, KeyOwners DEF KeysOf
<1>4. ASSUME NEW x \in db, x[1] = "file"
      PROVE  {y[3] : y \in {y \in db : y[1] = "chunk" /\ y[2] = x[2]}} = 0 .. x[4] - 1
  <2>1. Whole(db, x)
    BY <1>1, <1>4 DEF Tables
  <2>2. \A i \in 0 .. x[4] - 1 : \E y \in db : y[1] = "chunk" /\ y[2] = x[2] /\ y[3] = i
    <3>1. ASSUME NEW i \in 0 .. x[4] - 1
          PROVE  \E y \in db : y[1] = "chunk" /\ y[2] = x[2] /\ y[3] = i
      <4> DEFINE z == <<"chunk", x[2], i>>
      <4>1. z \in db /\ z[1] = "chunk" /\ z[2] = x[2] /\ z[3] = i
        BY <2>1 DEF Whole
      <4>2. QED
        BY <4>1
    <3>2. QED
      BY <3>1
  <2>3. QED
    BY <2>1, <2>2 DEF Whole
<1>5. QED
  BY <1>2, <1>3, <1>4 DEF HistorySound, FilesSound

-----------------------------------------------------------------------------
(* One request moves, the committed rows stay *)

LEMMA RowStep ==
  ASSUME RowInv, NEW r \in Requests, db' = db,
         \A q \in Requests : q # r => tx'[q] = tx[q] /\ ask'[q] = ask[q],
         Alone(db, ask'[r], tx'[r]),
         \A q \in Requests : q # r =>
           Apart(ask'[r], tx'[r], ask[q], tx[q]) /\ Apart(ask[q], tx[q], ask'[r], tx'[r])
  PROVE  RowInv'
<1>1. Tables(db')
  BY DEF RowInv
<1>2. ASSUME NEW q \in Requests
      PROVE  Alone(db', ask'[q], tx'[q])
  <2>1. CASE q = r
    BY <2>1
  <2>2. CASE q # r
    BY <2>2 DEF RowInv
  <2>3. QED
    BY <2>1, <2>2
<1>3. ASSUME NEW p \in Requests, NEW q \in Requests, p # q
      PROVE  Apart(ask'[p], tx'[p], ask'[q], tx'[q])
  <2>1. CASE p = r
    BY <1>3, <2>1
  <2>2. CASE q = r
    BY <1>3, <2>2
  <2>3. CASE p # r /\ q # r
    BY <1>3, <2>3 DEF RowInv
  <2>4. QED
    BY <2>1, <2>2, <2>3
<1>4. QED
  BY <1>1, <1>2, <1>3 DEF RowInv

\* A request that has changed nothing yet.
Clean(D, a, t) ==
  /\ t.inserted = {} /\ t.deleted = {} /\ t.seen \subseteq D
  /\ t.pc \notin {"fill", "file"}
  /\ t.pc = "insert" => a.op = "add"
  /\ t.pc \in {"belongs", "chunks"} => a.op = "deleteFile"
  /\ t.pc = "mark" => Chaptered(D, t.chapter, a.book)
  /\ Uploading(a, t) => \A x \in D : ~ (x[1] = "file" /\ x[2] = a.file)

LEMMA CleanAlone ==
  ASSUME NEW D, NEW a, NEW t, Clean(D, a, t)
  PROVE  Alone(D, a, t)
BY DEF Clean, Alone, Stage, Linked, Filed, Placed

\* The file of an upload is nobody else's.
OwnFile(a, t, b, u) ==
  /\ Uploading(a, t) /\ Uploading(b, u) => a.file # b.file
  /\ Uploading(a, t) /\ u.pc \in {"chunks", "file"} => a.file # b.file
  /\ Uploading(b, u) /\ t.pc \in {"chunks", "file"} => a.file # b.file

LEMMA CleanApart ==
  ASSUME NEW a, NEW t, NEW b, NEW u, t.inserted = {}, t.deleted = {}, OwnFile(a, t, b, u)
  PROVE  Apart(a, t, b, u) /\ Apart(b, u, a, t)
BY DEF Apart, OwnFile

\* A request that stays clean.
LEMMA RowClean ==
  ASSUME RowInv, NEW r \in Requests, db' = db,
         \A q \in Requests : q # r => tx'[q] = tx[q] /\ ask'[q] = ask[q],
         Clean(db, ask'[r], tx'[r]),
         \A q \in Requests : q # r => OwnFile(ask'[r], tx'[r], ask[q], tx[q])
  PROVE  RowInv'
BY RowStep, CleanAlone, CleanApart DEF Clean

\* It moves on in its operation.
LEMMA RowMove ==
  ASSUME RowInv, NEW r \in Requests, db' = db, ask' = ask, tx[r].pc # "idle",
         \A q \in Requests : q # r => tx'[q] = tx[q],
         Clean(db, ask[r], tx'[r]), tx'[r].pc # "chunks"
  PROVE  RowInv'
<1>1. \A q \in Requests : q # r => OwnFile(ask[r], tx'[r], ask[q], tx[q])
  BY DEF RowInv, Apart, OwnFile, Uploading, Clean
<1>2. QED
  BY <1>1, RowClean

LEMMA RowRollback ==
  ASSUME TypeInv, RowInv, NEW r \in Requests, Rollback(r)
  PROVE  RowInv'
<1>1. tx'[r] = Idle /\ db' = db
      /\ \A q \in Requests : q # r => tx'[q] = tx[q] /\ ask'[q] = ask[q]
  BY DEF Rollback, TypeInv, TypeOK
<1>2. Clean(db, ask'[r], Idle)
  BY DEF Clean, Idle, Uploading
<1>3. \A q \in Requests : OwnFile(ask'[r], Idle, ask[q], tx[q])
  BY DEF OwnFile, Idle, Uploading
<1>4. QED
  BY <1>1, <1>2, <1>3, RowClean

-----------------------------------------------------------------------------
(* Steps that change no row *)

\* A request that has changed nothing because of the step it is at.
LEMMA CleanSteps ==
  ASSUME RowInv, NEW r \in Requests,
         tx[r].pc \notin {"insert", "fill", "file", "cascade", "commit"}
  PROVE  /\ tx[r].inserted = {} /\ tx[r].deleted = {} /\ tx[r].seen \subseteq db
         /\ Uploading(ask[r], tx[r]) => \A x \in db : ~ (x[1] = "file" /\ x[2] = ask[r].file)
BY DEF RowInv, Alone, Stage, Linked, Filed

LEMMA RowArrive ==
  ASSUME TypeInv, RowInv, NEW r \in Requests, Arrive(r)
  PROVE  RowInv'
<1>1. tx[r].pc = "idle"
  BY DEF Arrive, AddChapters, GetChapter, ClearHistory, UpdateChapter, CreateFile, DeleteFile,
         DeleteBook, Begin
<1>2. tx[r].inserted = {} /\ tx[r].deleted = {} /\ tx[r].seen \subseteq db
  BY <1>1, CleanSteps
<1>3. /\ tx'[r].inserted = {} /\ tx'[r].deleted = {} /\ tx'[r].seen \subseteq db
      /\ tx'[r].pc \in {"find", "count"}
      /\ \A q \in Requests : q # r => tx'[q] = tx[q] /\ ask'[q] = ask[q]
      /\ db' = db
  <2>1. CASE ClearHistory(r)
    BY <1>2, <2>1, TxType DEF ClearHistory, Tx, TypeInv, TypeOK
  <2>2. CASE \E a : Begin(r, a)
    BY <1>2, <2>2, TxType DEF Begin, Tx, TypeInv, TypeOK
  <2>3. QED
    BY <2>1, <2>2 DEF Arrive, AddChapters, GetChapter, UpdateChapter, CreateFile, DeleteFile,
                      DeleteBook
<1>4. CASE ask'[r].op = "upload" /\ ask'[r].file \in FreshFiles
  <2>1. \A x \in db : ~ (x[1] = "file" /\ x[2] = ask'[r].file)
    BY <1>4 DEF FreshFiles
  <2>2. Clean(db, ask'[r], tx'[r])
    BY <1>3, <2>1 DEF Clean
  <2>3. ASSUME NEW q \in Requests, q # r
        PROVE  OwnFile(ask'[r], tx'[r], ask[q], tx[q])
    <3>1. tx[q].pc # "idle" => ask[q] # None
      BY TxType, NoneAssumption DEF Shape
    <3>2. tx[q].pc \in {"chunks", "file"} => ask[q].op = "deleteFile"
      BY DEF RowInv, Alone, Stage
    <3>3. tx[q].pc # "idle" /\ ask[q].op \in {"upload", "deleteFile"} => ask[q].file # ask'[r].file
      BY <1>4, <3>1 DEF FreshFiles
    <3>4. QED
      BY <1>3, <3>2, <3>3 DEF OwnFile, Uploading
  <2>4. QED
    BY <1>3, <2>2, <2>3, RowClean
<1>5. CASE ask'[r].op # "upload"
  <2>1. Clean(db, ask'[r], tx'[r])
    BY <1>3, <1>5 DEF Clean, Uploading
  <2>2. \A q \in Requests : OwnFile(ask'[r], tx'[r], ask[q], tx[q])
    BY <1>3, <1>5 DEF OwnFile, Uploading
  <2>3. QED
    BY <1>3, <2>1, <2>2, RowClean
<1>6. QED
  <2>1. CASE CreateFile(r)
    BY <1>4, <2>1 DEF CreateFile, Begin, TypeInv, TypeOK
  <2>2. CASE ~ CreateFile(r)
    BY <1>5, <2>2 DEF Arrive, AddChapters, GetChapter, ClearHistory, UpdateChapter, DeleteFile,
                      DeleteBook, Begin, TypeInv, TypeOK
  <2>3. QED
    BY <2>1, <2>2

LEMMA RowFind ==
  ASSUME TypeInv, RowInv, NEW r \in Requests, FindBook(r) \/ FindChapter(r)
  PROVE  RowInv'
<1>1. /\ tx[r].pc = "find" /\ ask[r] \in Asks /\ ask[r].op # "clear"
      /\ tx[r].inserted = {} /\ tx[r].deleted = {} /\ tx[r].seen \subseteq db
      /\ Uploading(ask[r], tx[r]) => \A x \in db : ~ (x[1] = "file" /\ x[2] = ask[r].file)
  BY TxType, CleanSteps DEF FindBook, FindChapter, Shape
<1>2. CASE Rollback(r)
  BY <1>2, RowRollback
<1>3. CASE FindBook(r) /\ ~ Rollback(r)
  <2>1. CASE ask[r].op = "add"
    <3>1. tx' = [tx EXCEPT ![r].rows = ask[r].rows, ![r].pc = "insert"] /\ db' = db /\ ask' = ask
      BY <1>3, <2>1 DEF FindBook
    <3>2. /\ tx'[r].inserted = {} /\ tx'[r].deleted = {} /\ tx'[r].seen \subseteq db
          /\ tx'[r].pc = "insert"
          /\ \A q \in Requests : q # r => tx'[q] = tx[q]
      BY <1>1, <3>1, TxType DEF Tx, TypeInv, TypeOK
    <3>3. Clean(db, ask[r], tx'[r])
      BY <2>1, <3>2 DEF Clean, Uploading
    <3>4. QED
      BY <1>1, <3>1, <3>2, <3>3, RowMove
  <2>2. CASE ask[r].op = "deleteBook"
    <3>1. tx' = [tx EXCEPT ![r].pc = "drop"] /\ db' = db /\ ask' = ask
      BY <1>3, <2>2 DEF FindBook
    <3>2. /\ tx'[r].inserted = {} /\ tx'[r].deleted = {} /\ tx'[r].seen \subseteq db
          /\ tx'[r].pc = "drop"
          /\ \A q \in Requests : q # r => tx'[q] = tx[q]
      BY <1>1, <3>1, TxType DEF Tx, TypeInv, TypeOK
    <3>3. Clean(db, ask[r], tx'[r])
      BY <2>2, <3>2 DEF Clean, Uploading
    <3>4. QED
      BY <1>1, <3>1, <3>2, <3>3, RowMove
  <2>3. QED
    BY <1>3, <2>1, <2>2 DEF FindBook
<1>4. CASE FindChapter(r) /\ ~ Rollback(r)
  <2>1. PICK x \in db :
          /\ x[1] = "chapter" /\ x[3] = ask[r].book
          /\ ask[r].op \in {"read", "patch", "upload", "deleteFile"}
          /\ tx' = [tx EXCEPT ![r].chapter = x[2], ![r].pc = AfterFind(ask[r].op)]
          /\ db' = db /\ ask' = ask
    BY <1>1, <1>4, AskFields DEF FindChapter
  <2>2. AfterFind(ask[r].op) \in {"mark", "write", "store", "belongs"}
        /\ (AfterFind(ask[r].op) = "belongs" => ask[r].op = "deleteFile")
    BY <2>1 DEF AfterFind
  <2>3. /\ tx'[r].inserted = {} /\ tx'[r].deleted = {} /\ tx'[r].seen \subseteq db
        /\ tx'[r].pc = AfterFind(ask[r].op) /\ tx'[r].chapter = x[2]
        /\ \A q \in Requests : q # r => tx'[q] = tx[q]
    BY <1>1, <2>1, TxType DEF Tx, TypeInv, TypeOK
  <2>4. Chaptered(db, x[2], ask[r].book)
    BY <2>1 DEF Chaptered
  <2>5. Clean(db, ask[r], tx'[r])
    BY <1>1, <2>2, <2>3, <2>4 DEF Clean, Uploading
  <2>6. QED
    BY <1>1, <2>1, <2>2, <2>3, <2>5, RowMove
<1>5. QED
  BY <1>2, <1>3, <1>4

\* Steps that only move on, or lock a row.
LEMMA RowQuiet ==
  ASSUME TypeInv, RowInv, NEW r \in Requests, Count(r) \/ Erase(r) \/ WriteChapter(r)
  PROVE  RowInv'
<1>1. /\ tx[r].pc \in {"count", "erase", "write"}
      /\ tx[r].inserted = {} /\ tx[r].deleted = {} /\ tx[r].seen \subseteq db
      /\ Uploading(ask[r], tx[r]) => \A x \in db : ~ (x[1] = "file" /\ x[2] = ask[r].file)
  BY CleanSteps DEF Count, Erase, WriteChapter, At
<1>2. CASE Rollback(r)
  BY <1>2, RowRollback
<1>3. CASE ~ Rollback(r)
  <2>1. /\ tx'[r].inserted = {} /\ tx'[r].deleted = {} /\ tx'[r].seen \subseteq db
        /\ tx'[r].pc \in {"commit", "erase", "erasing"}
        /\ \A q \in Requests : q # r => tx'[q] = tx[q]
        /\ db' = db /\ ask' = ask
    <3>1. CASE Count(r)
      BY <1>1, <3>1, TxType DEF Count, Go, Tx, TypeInv, TypeOK
    <3>2. CASE Erase(r)
      BY <1>1, <3>2, TxType DEF Erase, History, Tx, TypeInv, TypeOK
    <3>3. CASE WriteChapter(r)
      BY <1>1, <1>3, <3>3, TxType DEF WriteChapter, Tx, TypeInv, TypeOK
    <3>4. QED
      BY <3>1, <3>2, <3>3
  <2>2. Clean(db, ask[r], tx'[r])
    BY <1>1, <2>1 DEF Clean, Uploading
  <2>3. QED
    BY <1>1, <2>1, <2>2, RowMove
<1>4. QED
  BY <1>2, <1>3

\* While the row of its file is there nobody can be uploading it.
LEMMA RowBelongs ==
  ASSUME TypeInv, RowInv, NEW r \in Requests, Belongs(r)
  PROVE  RowInv'
<1>1. /\ tx[r].pc = "belongs" /\ ask[r].op = "deleteFile"
      /\ tx[r].inserted = {} /\ tx[r].deleted = {} /\ tx[r].seen \subseteq db
  BY CleanSteps DEF Belongs, RowInv, Alone, Stage
<1>2. CASE Rollback(r)
  BY <1>2, RowRollback
<1>3. CASE ~ Rollback(r)
  <2>1. Go(r, "chunks") /\ \E x \in db : x[1] = "file" /\ x[2] = ask[r].file
    BY <1>3 DEF Belongs
  <2>2. /\ tx'[r].inserted = {} /\ tx'[r].deleted = {} /\ tx'[r].seen \subseteq db
        /\ tx'[r].pc = "chunks"
        /\ \A q \in Requests : q # r => tx'[q] = tx[q] /\ ask'[q] = ask[q]
        /\ db' = db /\ ask' = ask
    BY <1>1, <2>1, TxType DEF Go, Tx, TypeInv, TypeOK
  <2>3. Clean(db, ask[r], tx'[r])
    BY <1>1, <2>2 DEF Clean, Uploading
  <2>4. \A q \in Requests : OwnFile(ask[r], tx'[r], ask[q], tx[q])
    BY <1>1, <2>1, <2>2 DEF RowInv, Alone, Filed, OwnFile, Uploading
  <2>5. QED
    BY <2>2, <2>3, <2>4, RowClean
<1>4. QED
  BY <1>2, <1>3

-----------------------------------------------------------------------------
(* Insertions *)

\* The statement is not refused and waits for nobody: the row refers to rows
\* that are there, and nobody is deleting them.
LEMMA InsertLinked ==
  ASSUME RowInv, NEW r \in Requests, Blockers(r) = {}, NEW x, Inserts(r) = {x}, ~ Refused(r, x)
  PROVE  /\ Parents(x) \subseteq KeysOf(db \cup tx[r].inserted)
         /\ \A q \in Requests : q # r => \A y \in tx[q].deleted : ~ Refers(x, y)
<1>1. Parents(x) \subseteq KeysOf(db \cup tx[r].inserted)
  BY DEF Refused, View, KeysOf
<1>2. ASSUME NEW q \in Requests, q # r, NEW y \in tx[q].deleted
      PROVE  ~ Refers(x, y)
  <2>1. ParentsOf(Inserts(r)) \cap KeysOf(tx[q].deleted) = {}
    BY <1>2 DEF Blockers, Others
  <2>2. QED
    BY <1>2, <2>1 DEF ParentsOf, KeysOf, Refers
<1>3. QED
  BY <1>1, <1>2

\* A chapter or a history row is inserted.
LEMMA RowInsert ==
  ASSUME TypeInv, RowInv, NEW r \in Requests, Blockers(r) = {},
         NEW x, Inserts(r) = {x}, ~ Refused(r, x),
         x[1] \in {"chapter", "history"}, x[1] = "history" => Chaptered(db, x[3], x[4]),
         tx[r].pc \in {"insert", "mark"},
         db' = db, ask' = ask, \A q \in Requests : q # r => tx'[q] = tx[q],
         tx'[r].inserted = tx[r].inserted \cup {x}, tx'[r].deleted = tx[r].deleted,
         tx'[r].seen = tx[r].seen,
         tx'[r].pc = "commit" \/ (tx'[r].pc = "insert" /\ tx[r].pc = "insert")
  PROVE  RowInv'
<1> DEFINE a == ask[r]
           t == tx[r]
           u == tx'[r]
<1>1. /\ t.deleted = {} /\ a.op # "upload"
      /\ Stage(a, t) /\ Linked(db, t) /\ Filed(db, a, t) /\ Placed(db, a, t)
  BY TxType DEF RowInv, Alone, Stage, Shape
<1>2. Stage(a, u)
  BY <1>1 DEF Stage
<1>3. Linked(db, u)
  <2>1. \A y \in u.inserted : Parents(y) \subseteq KeysOf(db \cup t.inserted)
    BY <1>1, InsertLinked DEF Linked
  <2>2. QED
    BY <1>1, <2>1 DEF Linked, KeysOf
<1>4. Filed(db, a, u)
  BY <1>1 DEF Filed, Uploading
<1>5. Placed(db, a, u)
  BY <1>1 DEF Placed
<1>6. ASSUME NEW q \in Requests, q # r
      PROVE  Apart(a, u, ask[q], tx[q]) /\ Apart(ask[q], tx[q], a, u)
  <2>1. Apart(a, t, ask[q], tx[q]) /\ Apart(ask[q], tx[q], a, t)
    BY <1>6 DEF RowInv
  <2>2. \A y \in tx[q].deleted : ~ Refers(x, y)
    BY <1>6, InsertLinked
  <2>3. u.deleted = {} /\ u.inserted = t.inserted \cup {x} /\ u.pc \notin {"chunks", "file"}
    BY <1>1
  <2>4. QED
    <3> HIDE DEF a, t, u
    <3> QED
      BY <1>1, <2>1, <2>2, <2>3 DEF Apart, Uploading
<1>7. QED
  BY <1>2, <1>3, <1>4, <1>5, <1>6, RowStep DEF Alone

LEMMA RowInsertChapter ==
  ASSUME TypeInv, RowInv, NEW r \in Requests, InsertChapter(r)
  PROVE  RowInv'
<1> DEFINE x == Head(tx[r].rows)
<1>1. tx[r].pc = "insert" /\ Blockers(r) = {} /\ tx[r].rows # <<>>
  BY TxType DEF InsertChapter, At, Shape
<1>2. CASE Refused(r, x)
  BY <1>2, RowRollback DEF InsertChapter
<1>3. CASE ~ Refused(r, x)
  <2>1. x[1] = "chapter"
    BY <1>1, TxType DEF ChapterRows
  <2>2. Inserts(r) = {x}
    BY <1>1 DEF Inserts
  <2>3. /\ tx'[r].inserted = tx[r].inserted \cup {x} /\ tx'[r].deleted = tx[r].deleted
        /\ tx'[r].seen = tx[r].seen /\ tx'[r].pc \in {"commit", "insert"}
        /\ \A q \in Requests : q # r => tx'[q] = tx[q]
        /\ db' = db /\ ask' = ask
    BY <1>3, TxType DEF InsertChapter, Tx, TypeInv, TypeOK
  <2>4. QED
    <3> HIDE DEF x
    <3> QED
      BY <1>1, <1>3, <2>1, <2>2, <2>3, RowInsert
<1>4. QED
  BY <1>2, <1>3

LEMMA RowMark ==
  ASSUME TypeInv, RowInv, NEW r \in Requests, MarkRead(r)
  PROVE  RowInv'
<1>1. /\ tx[r].pc = "mark" /\ Blockers(r) = {} /\ ask[r].op = "read"
      /\ tx[r].inserted = {} /\ tx[r].deleted = {} /\ tx[r].seen \subseteq db
  BY TxType, CleanSteps DEF MarkRead, At, Shape
<1>2. CASE Mark(r) \in db
  <2>1. /\ tx'[r].inserted = {} /\ tx'[r].deleted = {} /\ tx'[r].seen \subseteq db
        /\ tx'[r].pc = "commit"
        /\ \A q \in Requests : q # r => tx'[q] = tx[q]
        /\ db' = db /\ ask' = ask
    BY <1>1, <1>2, TxType DEF MarkRead, Tx, TypeInv, TypeOK
  <2>2. Clean(db, ask[r], tx'[r])
    BY <1>1, <2>1 DEF Clean, Uploading
  <2>3. QED
    BY <1>1, <2>1, <2>2, RowMove
<1>3. CASE Mark(r) \notin db /\ Refused(r, Mark(r))
  BY <1>3, RowRollback DEF MarkRead
<1>4. CASE Mark(r) \notin db /\ ~ Refused(r, Mark(r))
  <2>1. /\ tx'[r].inserted = tx[r].inserted \cup {Mark(r)} /\ tx'[r].deleted = tx[r].deleted
        /\ tx'[r].seen = tx[r].seen /\ tx'[r].pc = "commit"
        /\ \A q \in Requests : q # r => tx'[q] = tx[q]
        /\ db' = db /\ ask' = ask
    BY <1>4, TxType DEF MarkRead, Insert, Tx, TypeInv, TypeOK
  <2>2. Inserts(r) = {Mark(r)}
    BY <1>1, <1>4 DEF Inserts
  <2>3. Mark(r)[1] = "history" /\ Mark(r)[3] = tx[r].chapter /\ Mark(r)[4] = ask[r].book
    BY DEF Mark
  <2>4. Chaptered(db, tx[r].chapter, ask[r].book)
    BY <1>1 DEF RowInv, Alone, Placed
  <2>5. QED
    BY <1>1, <1>4, <2>1, <2>2, <2>3, <2>4, RowInsert
<1>5. QED
  BY <1>2, <1>3, <1>4

\* The row of an upload, whatever its number of chunks.
LEMMA NewFileKeys ==
  ASSUME NEW r \in Requests, NEW n
  PROVE  /\ NewFile(r, n)[1] = "file" /\ NewFile(r, n)[2] = ask[r].file /\ NewFile(r, n)[4] = n
         /\ Keys(NewFile(r, n)) = {<<"file", ask[r].file>>}
         /\ Parents(NewFile(r, n)) = {<<"chapter", tx[r].chapter>>}
<1>1. /\ NewFile(r, n)[1] = "file" /\ NewFile(r, n)[2] = ask[r].file
      /\ NewFile(r, n)[3] = tx[r].chapter /\ NewFile(r, n)[4] = n
  BY DEF NewFile
<1>2. QED
  BY <1>1, TableKeys

LEMMA RowStore ==
  ASSUME TypeInv, RowInv, NEW r \in Requests, StoreFile(r)
  PROVE  RowInv'
<1> DEFINE a == ask[r]
           t == tx[r]
           u == tx'[r]
           x == NewFile(r, 0)
<1>1. /\ t.pc = "store" /\ Blockers(r) = {} /\ a.op = "upload"
      /\ t.inserted = {} /\ t.deleted = {}
      /\ Stage(a, t) /\ Linked(db, t) /\ Filed(db, a, t) /\ Placed(db, a, t)
  BY TxType, CleanSteps DEF StoreFile, At, Shape, RowInv, Alone
<1>2. CASE Refused(r, x)
  BY <1>2, RowRollback DEF StoreFile
<1>3. CASE ~ Refused(r, x)
  <2>1. /\ u.inserted = {x} /\ u.deleted = {} /\ u.seen = t.seen
        /\ u.pc = "fill" /\ u.chapter = t.chapter
        /\ \A q \in Requests : q # r => tx'[q] = tx[q]
        /\ db' = db /\ ask' = ask
    BY <1>1, <1>3, TxType DEF StoreFile, Insert, Tx, TypeInv, TypeOK
  <2>2. Inserts(r) = {x}
    BY <1>1 DEF Inserts
  <2>3. /\ Parents(x) \subseteq KeysOf(db \cup {})
        /\ \A q \in Requests : q # r => \A y \in tx[q].deleted : ~ Refers(x, y)
    BY <1>1, <1>3, <2>2, InsertLinked
  <2>4. Alone(db, a, u)
    <3>1. Stage(a, u)
      BY <1>1, <2>1 DEF Stage, NewFile
    <3>2. Linked(db, u)
      BY <1>1, <2>1, <2>3 DEF Linked, KeysOf
    <3>3. Filed(db, a, u)
      BY <1>1, <2>1, NewFileKeys DEF Filed, Uploading
    <3>4. Placed(db, a, u)
      BY <1>1, <2>1, NewFileKeys DEF Placed
    <3>5. QED
      BY <3>1, <3>2, <3>3, <3>4 DEF Alone
  <2>5. ASSUME NEW q \in Requests, q # r
        PROVE  Apart(a, u, ask[q], tx[q]) /\ Apart(ask[q], tx[q], a, u)
    <3>1. Apart(a, t, ask[q], tx[q]) /\ Apart(ask[q], tx[q], a, t)
      BY <2>5 DEF RowInv
    <3>2. \A y \in tx[q].deleted : ~ Refers(x, y)
      BY <2>3, <2>5
    <3>3. QED
      <4> HIDE DEF a, t, u, x
      <4> QED
        BY <1>1, <2>1, <3>1, <3>2 DEF Apart, Uploading
  <2>6. QED
    BY <2>1, <2>4, <2>5, RowStep
<1>4. QED
  BY <1>2, <1>3

\* The row gets its size, and the chunks are there.
LEMMA RowFill ==
  ASSUME TypeInv, RowInv, NEW r \in Requests, Fill(r)
  PROVE  RowInv'
<1> DEFINE a == ask[r]
           t == tx[r]
           u == tx'[r]
           x == NewFile(r, a.size)
           chunks == {<<"chunk", a.file, i>> : i \in 0 .. a.size - 1}
<1>1. /\ t.pc = "fill" /\ a.op = "upload" /\ t.inserted = {NewFile(r, 0)} /\ t.deleted = {}
      /\ Stage(a, t) /\ Linked(db, t) /\ Filed(db, a, t) /\ Placed(db, a, t)
  BY TxType DEF Fill, Shape, RowInv, Alone, Stage, NewFile
<1>2. /\ u.inserted = {x} \cup chunks /\ u.deleted = {} /\ u.seen = t.seen /\ u.pc = "commit"
      /\ \A q \in Requests : q # r => tx'[q] = tx[q]
      /\ db' = db /\ ask' = ask
  <2>1. tx' = [tx EXCEPT ![r].inserted = {x} \cup chunks, ![r].pc = "commit"]
        /\ db' = db /\ ask' = ask
    BY DEF Fill
  <2>2. QED
    <3> HIDE DEF x, chunks
    <3> QED
      BY <1>1, <2>1, TxType DEF Tx, TypeInv, TypeOK
<1>3. \A y \in chunks : /\ y[1] = "chunk" /\ y[2] = a.file /\ y[3] \in 0 .. a.size - 1
                        /\ Parents(y) = {<<"file", a.file>>}
  BY TableKeys
<1>4. /\ x[1] = "file" /\ x[2] = a.file /\ x[4] = a.size
      /\ Keys(x) = {<<"file", a.file>>} /\ Keys(NewFile(r, 0)) = {<<"file", a.file>>}
      /\ Parents(x) = Parents(NewFile(r, 0))
  BY NewFileKeys
<1>5. \A i \in 0 .. a.size - 1 : <<"chunk", a.file, i>> \in chunks
  OBVIOUS
<1>6. Alone(db, a, u)
  <2>1. Stage(a, u)
    BY <1>1, <1>2 DEF Stage
  <2>2. Linked(db, u)
    <3>1. KeysOf(db \cup {NewFile(r, 0)}) \subseteq KeysOf(db \cup u.inserted)
      BY <1>2, <1>4 DEF KeysOf
    <3>2. Parents(x) \subseteq KeysOf(db \cup u.inserted)
      BY <1>1, <1>4, <3>1 DEF Linked
    <3>3. <<"file", a.file>> \in KeysOf(db \cup u.inserted)
      BY <1>2, <1>4 DEF KeysOf
    <3>4. \A y \in u.inserted : Parents(y) \subseteq KeysOf(db \cup u.inserted)
      <4> HIDE DEF x, chunks
      <4> QED
        BY <1>2, <1>3, <3>2, <3>3
    <3>5. QED
      BY <1>1, <1>2, <3>4 DEF Linked
  <2>3. Filed(db, a, u)
    <3>1. Whole(u.inserted, x)
      <4> HIDE DEF x, chunks
      <4> QED
        BY <1>2, <1>3, <1>4, <1>5 DEF Whole
    <3>2. QED
      <4> HIDE DEF x, chunks
      <4> QED
        BY <1>1, <1>2, <1>3, <1>4, <3>1 DEF Filed, Uploading
  <2>4. Placed(db, a, u)
    <3> HIDE DEF x, chunks
    <3> QED
      BY <1>1, <1>2, <1>3, <1>4 DEF Placed
  <2>5. QED
    BY <2>1, <2>2, <2>3, <2>4 DEF Alone
<1>7. ASSUME NEW q \in Requests, q # r
      PROVE  Apart(a, u, ask[q], tx[q]) /\ Apart(ask[q], tx[q], a, u)
  <2>1. Apart(a, t, ask[q], tx[q]) /\ Apart(ask[q], tx[q], a, t)
    BY <1>7 DEF RowInv
  <2>2. \A y \in tx[q].deleted : ~ Refers(x, y)
    BY <1>1, <1>4, <2>1 DEF Apart, Refers
  <2>3. ASSUME NEW y \in tx[q].deleted
        PROVE  <<"file", a.file>> \notin Keys(y)
    <3>1. y \in db /\ y \in Rows
      BY TxType DEF RowInv, Alone, Linked
    <3>2. QED
      BY <1>1, <3>1, KeyOwners DEF Filed, Uploading
  <2>4. \A z \in u.inserted, y \in tx[q].deleted : ~ Refers(z, y)
    <3> HIDE DEF x, chunks
    <3> QED
      BY <1>2, <1>3, <2>2, <2>3 DEF Refers
  <2>5. QED
    <3> HIDE DEF a, t, u, x, chunks
    <3> QED
      BY <1>1, <1>2, <2>1, <2>4 DEF Apart, Uploading
<1>8. QED
  BY <1>2, <1>6, <1>7, RowStep

-----------------------------------------------------------------------------
(* Deletions *)

\* The statement waits for whoever has inserted a row below one it deletes, or
\* is deleting the same.
LEMMA RowDelete ==
  ASSUME RowInv, NEW r \in Requests, Blockers(r) = {},
         db' = db, ask' = ask, \A q \in Requests : q # r => tx'[q] = tx[q],
         tx[r].pc # "idle", tx[r].inserted = {}, tx'[r].inserted = {},
         tx'[r].deleted = tx[r].deleted \cup Deletes(r),
         tx'[r].pc \in {"chunks", "file"} => tx[r].pc \in {"chunks", "file"},
         Alone(db, ask[r], tx'[r])
  PROVE  RowInv'
<1> DEFINE a == ask[r]
           t == tx[r]
           u == tx'[r]
<1>1. ASSUME NEW q \in Requests, q # r
      PROVE  Apart(a, u, ask[q], tx[q]) /\ Apart(ask[q], tx[q], a, u)
  <2>1. Apart(a, t, ask[q], tx[q]) /\ Apart(ask[q], tx[q], a, t)
    BY <1>1 DEF RowInv
  <2>2. q \in Others(r) /\ q \notin Blockers(r)
    BY <1>1 DEF Others
  <2>3. Deletes(r) \cap tx[q].deleted = {}
    BY <2>2 DEF Blockers
  <2>4. KeysOf(Deletes(r)) \cap ParentsOf(tx[q].inserted) = {}
    <3>1. CASE tx[q].inserted = {}
      BY <3>1 DEF ParentsOf
    <3>2. CASE tx[q].inserted # {}
      BY <2>2, <3>2 DEF Blockers
    <3>3. QED
      BY <3>1, <3>2
  <2>5. \A x \in tx[q].inserted, y \in Deletes(r) : ~ Refers(x, y)
    BY <2>4 DEF KeysOf, ParentsOf, Refers
  <2>6. QED
    <3> HIDE DEF a, t, u
    <3>1. u.deleted = t.deleted \cup Deletes(r) /\ u.inserted = {} /\ t.pc # "idle"
          /\ (u.pc \in {"chunks", "file"} => t.pc \in {"chunks", "file"})
      BY DEF t, u
    <3>2. QED
      BY <2>1, <2>3, <2>5, <3>1 DEF Apart, Uploading
<1>2. QED
  BY <1>1, RowStep

LEMMA RowErased ==
  ASSUME TypeInv, RowInv, NEW r \in Requests, Erased(r)
  PROVE  RowInv'
<1> DEFINE a == ask[r]
           t == tx[r]
           u == tx'[r]
<1>1. /\ t.pc = "erasing" /\ Blockers(r) = {}
      /\ t.inserted = {} /\ t.deleted = {} /\ t.seen \subseteq db
      /\ Uploading(a, t) => \A x \in db : ~ (x[1] = "file" /\ x[2] = a.file)
  BY CleanSteps DEF Erased, At
<1>2. /\ u.inserted = {} /\ u.deleted = t.seen /\ u.seen = {} /\ u.pc = "commit"
      /\ \A q \in Requests : q # r => tx'[q] = tx[q]
      /\ db' = db /\ ask' = ask
  BY <1>1, TxType DEF Erased, Tx, TypeInv, TypeOK
<1>3. \A y \in t.seen : y[1] = "history" /\ y \in Rows
  BY TxType, RowTables DEF Rows
<1>4. \A x \in db, y \in t.seen : ~ Refers(x, y)
  BY <1>3, TxType, Leaves
<1>5. Deletes(r) = t.seen
  BY <1>1 DEF Deletes
<1>6. Alone(db, a, u)
  BY <1>1, <1>2, <1>3, <1>4 DEF Alone, Stage, Linked, Filed, Placed, Uploading
<1>7. QED
  BY <1>1, <1>2, <1>5, <1>6, RowDelete

\* What the actions that only delete do to the request.
LEMMA DeleteFields ==
  ASSUME TypeInv, NEW r \in Requests, NEW p, Delete(r, p)
  PROVE  /\ tx'[r].inserted = tx[r].inserted /\ tx'[r].deleted = tx[r].deleted \cup Deletes(r)
         /\ tx'[r].seen = tx[r].seen /\ tx'[r].pc = p
         /\ \A q \in Requests : q # r => tx'[q] = tx[q]
         /\ db' = db /\ ask' = ask
BY TxType DEF Delete, Tx, TypeInv, TypeOK

\* Deletions begin with the chunks of a file or with a book.
LEMMA RowDeleteFirst ==
  ASSUME TypeInv, RowInv, NEW r \in Requests, DeleteChunks(r) \/ DropBook(r)
  PROVE  RowInv'
<1> DEFINE a == ask[r]
           t == tx[r]
           u == tx'[r]
<1>1. /\ t.pc \in {"chunks", "drop"} /\ Blockers(r) = {}
      /\ t.inserted = {} /\ t.deleted = {} /\ t.seen \subseteq db
      /\ Uploading(a, t) => \A x \in db : ~ (x[1] = "file" /\ x[2] = a.file)
      /\ t.pc = "chunks" => a.op = "deleteFile"
  BY CleanSteps DEF DeleteChunks, DropBook, At, RowInv, Alone, Stage
<1>2. /\ u.inserted = {} /\ u.deleted = Deletes(r) /\ u.seen \subseteq db
      /\ u.pc = IF t.pc = "chunks" THEN "file" ELSE "cascade"
      /\ \A q \in Requests : q # r => tx'[q] = tx[q]
      /\ db' = db /\ ask' = ask
  BY <1>1, DeleteFields DEF DeleteChunks, DropBook, At
<1>3. CASE t.pc = "chunks"
  <2>1. Deletes(r) = {x \in db : x[1] = "chunk" /\ x[2] = a.file}
    BY <1>3 DEF Deletes
  <2>2. Alone(db, a, u)
    BY <1>1, <1>2, <1>3, <2>1 DEF Alone, Stage, Linked, Filed, Placed, Uploading
  <2>3. QED
    BY <1>1, <1>2, <1>3, <2>2, RowDelete
<1>4. CASE t.pc = "drop"
  <2>1. Deletes(r) = {x \in db : x[1] = "book" /\ x[2] = a.book}
    BY <1>4 DEF Deletes
  <2>2. Alone(db, a, u)
    BY <1>1, <1>2, <1>4, <2>1 DEF Alone, Stage, Linked, Filed, Placed, Uploading
  <2>3. QED
    BY <1>1, <1>2, <1>4, <2>2, RowDelete
<1>5. QED
  BY <1>1, <1>3, <1>4

\* Only the chunks of a file refer to it, and they are deleted already.
LEMMA RowDropFile ==
  ASSUME TypeInv, RowInv, NEW r \in Requests, DropFile(r)
  PROVE  RowInv'
<1> DEFINE a == ask[r]
           t == tx[r]
           u == tx'[r]
<1>1. /\ t.pc = "file" /\ Blockers(r) = {} /\ t.inserted = {}
      /\ Linked(db, t) /\ Filed(db, a, t) /\ Tables(db) /\ db \subseteq Rows
      /\ t.deleted = {x \in db : x[1] = "chunk" /\ x[2] = a.file}
  BY TxType DEF DropFile, At, RowInv, Alone, Stage, Filed
<1>2. Deletes(r) = {x \in db : x[1] = "file" /\ x[2] = a.file}
  BY <1>1 DEF Deletes
<1>3. /\ u.inserted = {} /\ u.deleted = t.deleted \cup Deletes(r) /\ u.seen = t.seen
      /\ u.pc = "commit"
      /\ \A q \in Requests : q # r => tx'[q] = tx[q]
      /\ db' = db /\ ask' = ask
  BY <1>1, DeleteFields DEF DropFile
<1>4. ASSUME NEW x \in db \ u.deleted, NEW y \in u.deleted
      PROVE  ~ Refers(x, y)
  <2>1. CASE y[1] = "chunk"
    BY <1>1, <1>2, <1>3, <2>1, Leaves
  <2>2. CASE y[1] = "file"
    <3>1. Keys(y) = {<<"file", a.file>>}
      BY <1>1, <1>2, <1>3, <2>2, TableKeys
    <3>2. x \in Rows /\ ~ (x[1] = "chunk" /\ x[2] = a.file)
      BY <1>1, <1>3
    <3>3. <<"file", a.file>> \notin Parents(x)
      BY <3>2, TableKeys, RowKinds
    <3>4. QED
      BY <3>1, <3>3 DEF Refers
  <2>3. QED
    BY <1>1, <1>2, <1>3, <2>1, <2>2
<1>5. \A y \in u.deleted : y[1] = "chunk" => \E x \in u.deleted : x[1] = "file" /\ x[2] = y[2]
  <2> SUFFICES ASSUME NEW y \in u.deleted, y[1] = "chunk"
               PROVE  \E x \in Deletes(r) : x[1] = "file" /\ x[2] = y[2]
    BY <1>3
  <2>1. y \in db /\ y[2] = a.file
    BY <1>1, <1>2, <1>3
  <2>2. <<"file", y[2]>> \in KeysOf(db)
    BY <1>1, <2>1, TableKeys DEF Tables
  <2>3. QED
    BY <1>1, <1>2, <2>1, <2>2, KeyOwners DEF KeysOf
<1>6. Alone(db, a, u)
  <2>1. Stage(a, u)
    BY <1>3 DEF Stage
  <2>2. Linked(db, u)
    BY <1>1, <1>2, <1>3, <1>4 DEF Linked
  <2>3. Filed(db, a, u)
    BY <1>1, <1>3, <1>5 DEF Filed, Uploading
  <2>4. Placed(db, a, u)
    BY <1>1, <1>2, <1>3 DEF Placed
  <2>5. QED
    BY <2>1, <2>2, <2>3, <2>4 DEF Alone
<1>7. QED
  BY <1>1, <1>3, <1>6, RowDelete

\* One level of the cascade, or its end.
LEMMA RowCascade ==
  ASSUME TypeInv, RowInv, NEW r \in Requests, Cascade(r)
  PROVE  RowInv'
<1> DEFINE a == ask[r]
           t == tx[r]
           u == tx'[r]
<1>1. /\ t.pc = "cascade" /\ Blockers(r) = {} /\ t.inserted = {} /\ db \subseteq Rows
      /\ Linked(db, t) /\ Filed(db, a, t) /\ Placed(db, a, t) /\ t.deleted \subseteq Rows
  BY TxType DEF Cascade, At, RowInv, Alone, Stage
<1>2. Deletes(r) = Children(r)
  BY <1>1 DEF Deletes
<1>3. /\ u.inserted = {} /\ u.deleted = t.deleted \cup Deletes(r) /\ u.seen = t.seen
      /\ u.pc = (IF Children(r) = {} THEN "commit" ELSE "cascade")
      /\ \A q \in Requests : q # r => tx'[q] = tx[q]
      /\ db' = db /\ ask' = ask
  <2>1. CASE Children(r) = {}
    BY <1>1, <1>2, <2>1, TxType DEF Cascade, Go, Tx, TypeInv, TypeOK
  <2>2. CASE Children(r) # {}
    BY <1>1, <2>2, DeleteFields DEF Cascade
  <2>3. QED
    BY <2>1, <2>2
<1>4. Children(r) = {} => \A x \in db \ u.deleted, y \in u.deleted : ~ Refers(x, y)
  BY <1>2, <1>3 DEF Children, KeysOf, Refers
<1>5. ASSUME NEW y \in Children(r)
      PROVE  /\ y[1] = "chunk" => \E x \in t.deleted : x[1] = "file" /\ x[2] = y[2]
             /\ y[1] = "chapter" => <<"book", y[3]>> \in t.deleted
  <2>1. CASE y[1] = "chunk"
    BY <1>1, <2>1, TableKeys, KeyOwners DEF Children, KeysOf
  <2>2. CASE y[1] = "chapter"
    BY <1>1, <2>2, TableKeys, KeyOwners DEF Children, KeysOf
  <2>3. QED
    BY <2>1, <2>2
<1>6. Alone(db, a, u)
  <2>1. Stage(a, u)
    BY <1>3 DEF Stage
  <2>2. Linked(db, u)
    BY <1>1, <1>2, <1>3, <1>4 DEF Linked, Children
  <2>3. Filed(db, a, u)
    BY <1>1, <1>2, <1>3, <1>5 DEF Filed, Uploading
  <2>4. Placed(db, a, u)
    BY <1>1, <1>2, <1>3, <1>5 DEF Placed
  <2>5. QED
    BY <2>1, <2>2, <2>3, <2>4 DEF Alone
<1>7. QED
  BY <1>1, <1>3, <1>6, RowDelete

-----------------------------------------------------------------------------
(* Commit *)

\* What is known of the rows before and after the commit of a request, that
\* was sent for a and is t.
Committing(a, t, new) ==
  /\ new = (db \ t.deleted) \cup t.inserted
  /\ t.pc = "commit" /\ (t.deleted = {} \/ t.inserted = {})
  /\ db \subseteq Rows /\ Tables(db)
  /\ Linked(db, t) /\ Filed(db, a, t) /\ Placed(db, a, t)

\* A chapter goes with its book, and a book does not come back.
LEMMA CommitChaptered ==
  ASSUME NEW a, NEW t, NEW new, Committing(a, t, new), NEW c, NEW b, Chaptered(db, c, b)
  PROVE  Chaptered(new, c, b)
<1> DEFINE book == <<"book", b>>
<1>1. book[1] = "book"
  OBVIOUS
<1>2. ASSUME book \in new
      PROVE  \E y \in new : y[1] = "chapter" /\ y[2] = c /\ y[3] = b
  <2>1. book \in db /\ book \notin t.deleted
    BY <1>1, <1>2 DEF Committing, Placed
  <2>2. PICK y \in db : y[1] = "chapter" /\ y[2] = c /\ y[3] = b
    BY <2>1 DEF Chaptered
  <2>3. y \notin t.deleted
    BY <2>1, <2>2 DEF Committing, Placed
  <2>4. QED
    BY <2>2, <2>3 DEF Committing
<1>3. QED
  BY <1>2 DEF Chaptered

\* Rows that do not refer to what is deleted keep what they refer to.
LEMMA CommitParents ==
  ASSUME NEW a, NEW t, NEW new, Committing(a, t, new),
         NEW own, NEW x, Parents(x) \subseteq KeysOf(db \cup own),
         \A y \in t.deleted : ~ Refers(x, y)
  PROVE  Parents(x) \subseteq KeysOf(new \cup own)
BY DEF Committing, KeysOf, Refers

LEMMA CommitTables ==
  ASSUME NEW a, NEW t, NEW new, Committing(a, t, new)
  PROVE  Tables(new)
<1>1. ASSUME NEW x \in new
      PROVE  Parents(x) \subseteq KeysOf(new)
  <2>1. CASE x \in t.inserted
    BY <2>1 DEF Committing, Linked
  <2>2. CASE x \in db \ t.deleted
    <3>1. Parents(x) \subseteq KeysOf(db \cup {})
      BY <2>2 DEF Committing, Tables
    <3>2. \A y \in t.deleted : ~ Refers(x, y)
      BY <2>2 DEF Committing, Linked
    <3>3. Parents(x) \subseteq KeysOf(new \cup {})
      BY <3>1, <3>2, CommitParents
    <3>4. QED
      BY <3>3
  <2>3. QED
    BY <2>1, <2>2 DEF Committing
<1>2. ASSUME NEW x \in new, x[1] = "history"
      PROVE  Chaptered(new, x[3], x[4])
  <2>1. Chaptered(db, x[3], x[4])
    BY <1>2 DEF Committing, Tables, Placed
  <2>2. QED
    BY <2>1, CommitChaptered
<1>3. \A x \in db, y \in t.inserted : ~ (x[1] = "file" /\ y[1] \in {"file", "chunk"} /\ x[2] = y[2])
  BY DEF Committing, Filed
<1>4. \A x, y \in new : x[1] = "file" /\ y[1] = "file" /\ x[2] = y[2] => x = y
  BY <1>3 DEF Committing, Tables, Filed
<1>5. ASSUME NEW x \in new, x[1] = "file"
      PROVE  Whole(new, x)
  <2>1. CASE x \in db /\ t.deleted = {}
    <3>1. Whole(db, x)
      BY <1>5, <2>1 DEF Committing, Tables
    <3>2. QED
      BY <1>3, <1>5, <2>1, <3>1 DEF Whole, Committing
  <2>2. CASE x \in db /\ t.inserted = {}
    <3>1. Whole(db, x) /\ x \notin t.deleted
      BY <1>5, <2>2 DEF Committing, Tables
    <3>2. ASSUME NEW i \in 0 .. x[4] - 1
          PROVE  <<"chunk", x[2], i>> \notin t.deleted
      <4> DEFINE y == <<"chunk", x[2], i>>
      <4>1. y[1] = "chunk" /\ y[2] = x[2]
        OBVIOUS
      <4>2. ASSUME y \in t.deleted
            PROVE  FALSE
        <5> HIDE DEF y
        <5>1. PICK z \in t.deleted : z[1] = "file" /\ z[2] = x[2]
          BY <4>1, <4>2 DEF Committing, Filed
        <5>2. z \in db
          BY DEF Committing, Linked
        <5>3. QED
          BY <1>5, <2>2, <3>1, <5>1, <5>2 DEF Committing, Tables
      <4>3. QED
        BY <4>2
    <3>3. QED
      BY <2>2, <3>1, <3>2 DEF Whole, Committing
  <2>3. CASE x \in t.inserted
    <3>1. Whole(t.inserted, x) /\ t.deleted = {} /\ new = db \cup t.inserted
      BY <1>5, <2>3 DEF Committing, Filed
    <3>2. \A y \in db : y[1] = "chunk" => y[2] # x[2]
      <4> SUFFICES ASSUME NEW y \in db, y[1] = "chunk", y[2] = x[2]
                   PROVE  FALSE
        OBVIOUS
      <4>1. <<"file", y[2]>> \in KeysOf(db)
        BY TableKeys DEF Committing, Tables
      <4>2. \E z \in db : z[1] = "file" /\ z[2] = y[2]
        BY <4>1, KeyOwners DEF Committing, KeysOf
      <4>3. QED
        BY <1>3, <1>5, <2>3, <4>2
    <3>3. QED
      BY <3>1, <3>2 DEF Whole
  <2>4. QED
    BY <2>1, <2>2, <2>3 DEF Committing
<1>6. QED
  BY <1>1, <1>2, <1>4, <1>5 DEF Tables

\* What the commit means for another request, that was sent for b and is u
\* before and v after it.
LEMMA CommitAlone ==
  ASSUME NEW a, NEW t, NEW new, Committing(a, t, new),
         NEW b, NEW u, NEW v, Alone(db, b, u), Apart(a, t, b, u), Apart(b, u, a, t),
         v.pc = u.pc, v.chapter = u.chapter, v.inserted = u.inserted, v.deleted = u.deleted,
         v.seen = u.seen \ t.deleted
  PROVE  Alone(new, b, v)
<1>1. Stage(b, v)
  BY DEF Alone, Stage
<1>2. Linked(new, v)
  <2>1. v.deleted \subseteq new /\ v.seen \subseteq new
    BY DEF Alone, Linked, Apart, Committing
  <2>2. ASSUME NEW x \in v.inserted
        PROVE  Parents(x) \subseteq KeysOf(new \cup v.inserted)
    <3>1. Parents(x) \subseteq KeysOf(db \cup u.inserted) /\ \A y \in t.deleted : ~ Refers(x, y)
      BY DEF Alone, Linked, Apart
    <3>2. QED
      BY <3>1, CommitParents
  <2>3. v.pc = "commit" => \A x \in new \ v.deleted, y \in v.deleted : ~ Refers(x, y)
    BY DEF Alone, Linked, Apart, Committing
  <2>4. QED
    BY <2>1, <2>2, <2>3 DEF Linked
<1>3. Filed(new, b, v)
  <2>1. \A x \in t.inserted : x[1] \in {"file", "chunk"} => Uploading(a, t) /\ x[2] = a.file
    BY DEF Committing, Filed
  <2>2. Uploading(b, v) => \A x \in new : ~ (x[1] = "file" /\ x[2] = b.file)
    BY <2>1 DEF Alone, Filed, Committing, Apart, Uploading
  <2>3. v.pc = "file" => v.deleted = {x \in new : x[1] = "chunk" /\ x[2] = b.file}
    <3> SUFFICES ASSUME v.pc = "file"
                 PROVE  v.deleted = {x \in new : x[1] = "chunk" /\ x[2] = b.file}
      OBVIOUS
    <3>1. v.deleted = {x \in db : x[1] = "chunk" /\ x[2] = b.file}
      BY DEF Alone, Filed
    <3>2. \A x \in t.inserted : ~ (x[1] = "chunk" /\ x[2] = b.file)
      BY <2>1 DEF Apart
    <3>3. v.deleted \cap t.deleted = {}
      BY DEF Apart
    <3>4. QED
      BY <3>1, <3>2, <3>3 DEF Committing
  <2>4. QED
    BY <2>2, <2>3 DEF Alone, Filed, Uploading
<1>4. Placed(new, b, v)
  BY CommitChaptered DEF Alone, Placed
<1>5. QED
  BY <1>1, <1>2, <1>3, <1>4 DEF Alone

LEMMA RowCommit ==
  ASSUME TypeInv, RowInv, NEW r \in Requests, Commit(r)
  PROVE  RowInv'
<1>1. Committing(ask[r], tx[r], db')
  BY TxType DEF Commit, View, Committing, RowInv, Alone, Stage
<1>2. /\ tx'[r] = Idle
      /\ \A q \in Requests : q # r =>
           /\ ask'[q] = ask[q] /\ tx'[q].pc = tx[q].pc /\ tx'[q].chapter = tx[q].chapter
           /\ tx'[q].inserted = tx[q].inserted /\ tx'[q].deleted = tx[q].deleted
           /\ tx'[q].seen = tx[q].seen \ tx[r].deleted
  BY TxType DEF Commit, Tx, TypeInv, TypeOK
<1>3. Tables(db')
  BY <1>1, CommitTables
<1>4. ASSUME NEW q \in Requests
      PROVE  Alone(db', ask'[q], tx'[q])
  <2>1. CASE q = r
    <3>1. Clean(db', ask'[q], Idle)
      BY DEF Clean, Idle, Uploading
    <3>2. QED
      BY <1>2, <2>1, <3>1, CleanAlone
  <2>2. CASE q # r
    BY <1>1, <1>2, <2>2, CommitAlone DEF RowInv
  <2>3. QED
    BY <2>1, <2>2
<1>5. ASSUME NEW p \in Requests, NEW q \in Requests, p # q
      PROVE  Apart(ask'[p], tx'[p], ask'[q], tx'[q])
  <2>1. CASE p = r \/ q = r
    <3>1. Idle.pc = "idle" /\ Idle.inserted = {} /\ Idle.deleted = {}
      BY DEF Idle
    <3>2. QED
      BY <1>2, <2>1, <3>1 DEF Apart, Uploading
  <2>2. CASE p # r /\ q # r
    <3>1. Apart(ask[p], tx[p], ask[q], tx[q])
      BY <1>5 DEF RowInv
    <3>2. QED
      BY <1>2, <2>2, <3>1 DEF Apart, Uploading
  <2>3. QED
    BY <2>1, <2>2
<1>6. QED
  BY <1>3, <1>4, <1>5 DEF RowInv

-----------------------------------------------------------------------------

LEMMA RowNext == TypeInv /\ RowInv /\ [Next]_vars => RowInv'
<1> SUFFICES ASSUME TypeInv, RowInv, [Next]_vars
             PROVE  RowInv'
  OBVIOUS
<1>1. ASSUME NEW r \in Requests, Arrive(r) \/ Step(r) \/ DbError(r)
      PROVE  RowInv'
  <2>1. CASE Arrive(r)
    BY <2>1, RowArrive
  <2>2. CASE FindBook(r) \/ FindChapter(r)
    BY <2>2, RowFind
  <2>3. CASE InsertChapter(r)
    BY <2>3, RowInsertChapter
  <2>4. CASE MarkRead(r)
    BY <2>4, RowMark
  <2>5. CASE Count(r) \/ Erase(r) \/ WriteChapter(r)
    BY <2>5, RowQuiet
  <2>6. CASE Erased(r)
    BY <2>6, RowErased
  <2>7. CASE StoreFile(r)
    BY <2>7, RowStore
  <2>8. CASE Fill(r)
    BY <2>8, RowFill
  <2>9. CASE Belongs(r)
    BY <2>9, RowBelongs
  <2>10. CASE DeleteChunks(r) \/ DropBook(r)
    BY <2>10, RowDeleteFirst
  <2>11. CASE DropFile(r)
    BY <2>11, RowDropFile
  <2>12. CASE Cascade(r)
    BY <2>12, RowCascade
  <2>13. CASE Commit(r)
    BY <2>13, RowCommit
  <2>14. CASE DeadlockVictim(r) \/ DbError(r)
    BY <2>14, RowRollback DEF DeadlockVictim, DbError
  <2>15. QED
    BY <1>1, <2>1, <2>2, <2>3, <2>4, <2>5, <2>6, <2>7, <2>8, <2>9, <2>10, <2>11, <2>12, <2>13,
       <2>14 DEF Step
<1>2. CASE UNCHANGED vars
  BY <1>2 DEF vars, RowInv, Tables, Alone, Linked, Filed, Placed
<1>3. QED
  BY <1>1, <1>2 DEF Next

LEMMA RowInit == Init => RowInv
<1> SUFFICES ASSUME Init
             PROVE  RowInv
  OBVIOUS
<1>1. \A x \in db : x[1] = "book"
  BY DEF Init
<1>2. Tables(db)
  BY <1>1, TableKeys DEF Tables
<1>3. \A r \in Requests : Clean(db, ask[r], tx[r])
  BY DEF Init, Clean, Idle, Uploading
<1>4. \A r, q \in Requests : Apart(ask[r], tx[r], ask[q], tx[q])
  BY DEF Init, Apart, Idle, Uploading
<1>5. QED
  BY <1>2, <1>3, <1>4, CleanAlone DEF RowInv

\* However many requests read, clear, upload and delete at the same time, and
\* whenever the book goes, the history names only chapters that are there.
THEOREM HistoryHolds == Spec => []HistorySound
<1>1. TypeInv /\ RowInv => HistorySound
  BY RowsSound
<1>2. QED
  BY <1>1, InitType, NextType, RowInit, RowNext, PTL DEF Spec

\* However many uploads, deletions of files and deletions of books overlap, a
\* file has all its chunks and no chunk is without its file.
THEOREM FilesHold == Spec => []FilesSound
<1>1. TypeInv /\ RowInv => FilesSound
  BY RowsSound
<1>2. QED
  BY <1>1, InitType, NextType, RowInit, RowNext, PTL DEF Spec

-----------------------------------------------------------------------------
(* Clearing a history *)

\* What a clear still has to delete of the history it was sent for, it has
\* seen when its DELETE runs and deleted when it commits.
Clearing(D, a, t) ==
  t.pc # "idle" /\ a.op = "clear" =>
    /\ t.pc \in {"count", "erase", "erasing", "commit"} /\ t.inserted = {}
    /\ \A x \in t.known : x[1] = "history" /\ x[2] = a.user /\ x[4] = a.book
    /\ t.pc = "erasing" => t.known \cap D \subseteq t.seen
    /\ t.pc = "commit" => t.known \cap D \subseteq t.deleted

ClearInv == \A r \in Requests : Clearing(db, ask[r], tx[r])

LEMMA ClearKept ==
  ASSUME ClearInv, NEW r \in Requests, db' = db,
         \A q \in Requests : q # r => tx'[q] = tx[q] /\ ask'[q] = ask[q],
         Clearing(db, ask'[r], tx'[r])
  PROVE  ClearInv'
BY DEF ClearInv

LEMMA ClearRollback ==
  ASSUME TypeInv, ClearInv, NEW r \in Requests, Rollback(r)
  PROVE  ClearInv'
<1>1. tx'[r].pc = "idle" /\ db' = db
      /\ \A q \in Requests : q # r => tx'[q] = tx[q] /\ ask'[q] = ask[q]
  BY IdleType DEF Rollback, TypeInv, TypeOK
<1>2. QED
  BY <1>1, ClearKept DEF Clearing

\* What arrives is a clear of what it knows, or none.
LEMMA ClearArrive ==
  ASSUME TypeInv, RowInv, ClearInv, NEW r \in Requests, Arrive(r)
  PROVE  ClearInv'
<1>1. CASE ClearHistory(r)
  <2>1. PICK n \in Users, b \in Books :
          /\ tx[r].pc = "idle" /\ db' = db
          /\ ask' = [ask EXCEPT ![r] = [op |-> "clear", user |-> n, book |-> b]]
          /\ tx' = [tx EXCEPT ![r].pc = "count", ![r].known = History(n, b)]
    BY <1>1 DEF ClearHistory
  <2>2. tx[r].inserted = {}
    BY <2>1, CleanSteps
  <2>3. /\ tx'[r].pc = "count" /\ tx'[r].inserted = {} /\ tx'[r].known = History(n, b)
        /\ ask'[r].user = n /\ ask'[r].book = b
        /\ \A q \in Requests : q # r => tx'[q] = tx[q] /\ ask'[q] = ask[q]
    BY <2>1, <2>2, TxType DEF Tx, TypeInv, TypeOK
  <2>4. QED
    BY <2>1, <2>3, ClearKept DEF Clearing, History
<1>2. CASE \E a : Begin(r, a) /\ a.op # "clear"
  <2>1. /\ ask'[r].op # "clear" /\ db' = db
        /\ \A q \in Requests : q # r => tx'[q] = tx[q] /\ ask'[q] = ask[q]
    BY <1>2 DEF Begin, TypeInv, TypeOK
  <2>2. QED
    BY <2>1, ClearKept DEF Clearing
<1>3. ~ ClearHistory(r) => \E a : Begin(r, a) /\ a.op # "clear"
  <2>1. AddChapters(r) => \E a : Begin(r, a) /\ a.op # "clear"
    BY DEF AddChapters
  <2>2. GetChapter(r) => \E a : Begin(r, a) /\ a.op # "clear"
    BY DEF GetChapter
  <2>3. UpdateChapter(r) => \E a : Begin(r, a) /\ a.op # "clear"
    BY DEF UpdateChapter
  <2>4. CreateFile(r) => \E a : Begin(r, a) /\ a.op # "clear"
    BY DEF CreateFile
  <2>5. DeleteFile(r) => \E a : Begin(r, a) /\ a.op # "clear"
    BY DEF DeleteFile
  <2>6. DeleteBook(r) => \E a : Begin(r, a) /\ a.op # "clear"
    BY DEF DeleteBook
  <2>7. QED
    BY <2>1, <2>2, <2>3, <2>4, <2>5, <2>6 DEF Arrive
<1>4. QED
  BY <1>1, <1>2, <1>3

LEMMA ClearSteps ==
  ASSUME TypeInv, RowInv, ClearInv, NEW r \in Requests, Count(r) \/ Erase(r) \/ Erased(r)
  PROVE  ClearInv'
<1> DEFINE a == ask[r]
           t == tx[r]
           u == tx'[r]
<1>1. /\ t.inserted = {} /\ t.deleted = {} /\ t.pc # "idle"
      /\ Clearing(db, a, t)
  BY CleanSteps DEF Count, Erase, Erased, At, ClearInv
<1>2. /\ u.inserted = {} /\ u.known = t.known
      /\ db' = db /\ ask' = ask /\ \A q \in Requests : q # r => tx'[q] = tx[q]
      /\ \/ u.pc = "erase"
         \/ u.pc = "commit" /\ History(a.user, a.book) = {}
         \/ u.pc = "erasing" /\ u.seen = History(a.user, a.book)
         \/ u.pc = "commit" /\ t.pc = "erasing" /\ u.deleted = t.seen
  <2>1. CASE Count(r)
    BY <1>1, <2>1, TxType DEF Count, Go, Tx, TypeInv, TypeOK
  <2>2. CASE Erase(r)
    BY <1>1, <2>2, TxType DEF Erase, Tx, TypeInv, TypeOK
  <2>3. CASE Erased(r)
    BY <1>1, <2>3, TxType DEF Erased, At, Tx, TypeInv, TypeOK
  <2>4. QED
    BY <2>1, <2>2, <2>3
<1>3. Clearing(db, a, u)
  <2> HIDE DEF a, t, u
  <2> QED
    BY <1>1, <1>2 DEF Clearing, History
<1>4. QED
  BY <1>2, <1>3, ClearKept

\* The other steps are not those of a clear.
LEMMA ClearOther ==
  ASSUME TypeInv, ClearInv, NEW r \in Requests,
         tx[r].pc \notin {"idle", "count", "erase", "erasing", "commit"},
         db' = db, ask' = ask, \A q \in Requests : q # r => tx'[q] = tx[q]
  PROVE  ClearInv'
BY ClearKept DEF ClearInv, Clearing

\* What another request commits is new, so not what a clear knows.
LEMMA ClearCommit ==
  ASSUME TypeInv, RowInv, ClearInv, NEW r \in Requests, Commit(r)
  PROVE  ClearInv'
<1>1. /\ tx'[r] = Idle /\ db' = (db \ tx[r].deleted) \cup tx[r].inserted
      /\ \A q \in Requests : q # r =>
           /\ ask'[q] = ask[q] /\ tx'[q].pc = tx[q].pc
           /\ tx'[q].inserted = tx[q].inserted /\ tx'[q].deleted = tx[q].deleted
           /\ tx'[q].seen = tx[q].seen \ tx[r].deleted
           /\ tx'[q].known = tx[q].known \ (tx[r].inserted \cup tx[r].locked)
  BY TxType DEF Commit, View, Tx, TypeInv, TypeOK
<1>2. ASSUME NEW q \in Requests
      PROVE  Clearing(db', ask'[q], tx'[q])
  <2>1. CASE q = r
    BY <1>1, <2>1 DEF Clearing, Idle
  <2>2. CASE q # r
    BY <1>1, <2>2 DEF Clearing, ClearInv
  <2>3. QED
    BY <2>1, <2>2
<1>3. QED
  BY <1>2 DEF ClearInv

LEMMA ClearNext == TypeInv /\ RowInv /\ ClearInv /\ [Next]_vars => ClearInv'
<1> SUFFICES ASSUME TypeInv, RowInv, ClearInv, [Next]_vars
             PROVE  ClearInv'
  OBVIOUS
<1>1. ASSUME NEW r \in Requests, Arrive(r) \/ Step(r) \/ DbError(r)
      PROVE  ClearInv'
  <2>1. CASE Arrive(r)
    BY <2>1, ClearArrive
  <2>2. CASE Count(r) \/ Erase(r) \/ Erased(r)
    BY <2>2, ClearSteps
  <2>3. CASE Commit(r)
    BY <2>3, ClearCommit
  <2>4. CASE Rollback(r)
    BY <2>4, ClearRollback
  <2>5. CASE ~ Rollback(r) /\ ~ Arrive(r) /\ ~ Commit(r) /\ ~ (Count(r) \/ Erase(r) \/ Erased(r))
    <3>1. /\ tx[r].pc \notin {"idle", "count", "erase", "erasing", "commit"}
          /\ db' = db /\ ask' = ask /\ \A q \in Requests : q # r => tx'[q] = tx[q]
      <4>1. CASE FindBook(r)
        BY <2>5, <4>1 DEF FindBook, TypeInv, TypeOK
      <4>2. CASE FindChapter(r)
        BY <2>5, <4>2 DEF FindChapter, TypeInv, TypeOK
      <4>3. CASE InsertChapter(r)
        BY <2>5, <4>3 DEF InsertChapter, At, TypeInv, TypeOK
      <4>4. CASE MarkRead(r)
        BY <2>5, <4>4 DEF MarkRead, Insert, At, TypeInv, TypeOK
      <4>5. CASE WriteChapter(r)
        BY <2>5, <4>5 DEF WriteChapter, At, TypeInv, TypeOK
      <4>6. CASE StoreFile(r)
        BY <2>5, <4>6 DEF StoreFile, Insert, At, TypeInv, TypeOK
      <4>7. CASE Fill(r)
        BY <4>7 DEF Fill, TypeInv, TypeOK
      <4>8. CASE Belongs(r)
        BY <2>5, <4>8 DEF Belongs, Go, TypeInv, TypeOK
      <4>9. CASE DeleteChunks(r) \/ DropFile(r) \/ DropBook(r)
        BY <4>9 DEF DeleteChunks, DropFile, DropBook, Delete, At, TypeInv, TypeOK
      <4>10. CASE Cascade(r)
        BY <4>10 DEF Cascade, Delete, Go, At, TypeInv, TypeOK
      <4>11. QED
        BY <1>1, <2>5, <4>1, <4>2, <4>3, <4>4, <4>5, <4>6, <4>7, <4>8, <4>9, <4>10
           DEF Step, DeadlockVictim, DbError
    <3>2. QED
      BY <3>1, ClearOther
  <2>6. QED
    BY <2>1, <2>2, <2>3, <2>4, <2>5
<1>2. CASE UNCHANGED vars
  BY <1>2 DEF vars, ClearInv, Clearing
<1>3. QED
  BY <1>1, <1>2 DEF Next

LEMMA ClearInit == Init => ClearInv
BY IdleType DEF Init, ClearInv, Clearing

\* However many requests mark chapters as read while a history is cleared, the
\* clear leaves nothing of what was there when it arrived and was not read
\* again.
THEOREM ClearsForget == Spec => ClearForgets
<1> DEFINE Inv == TypeInv /\ RowInv /\ ClearInv
           Forgets == \A r \in Requests : Commit(r) /\ ask[r].op = "clear" => tx[r].known \cap db' = {}
<1>1. Inv => Forgets
  <2> SUFFICES ASSUME Inv, NEW r \in Requests, Commit(r), ask[r].op = "clear"
               PROVE  tx[r].known \cap db' = {}
    OBVIOUS
  <2>1. Clearing(db, ask[r], tx[r]) /\ tx[r].pc = "commit"
    BY DEF ClearInv, Commit
  <2>2. QED
    BY <2>1 DEF Clearing, Commit, View
<1>2. Init => Inv
  BY InitType, RowInit, ClearInit
<1>3. Inv /\ [Next]_vars => Inv'
  BY NextType, RowNext, ClearNext
<1>4. QED
  <2>1. Inv /\ [Next]_vars => [Forgets]_vars
    BY <1>1
  <2> HIDE DEF Inv, Forgets
  <2>2. Spec => [][Forgets]_vars
    BY <1>2, <1>3, <2>1, PTL DEF Spec
  <2>3. QED
    BY <2>2 DEF Forgets, ClearForgets
=============================================================================
