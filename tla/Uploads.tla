------------------------------- MODULE Uploads -------------------------------
(***************************************************************************)
(* The limits an upload passes on its way into the database: of its body,  *)
(* counted by RequestBodyLimitMiddleware while the server hands it to the  *)
(* form parser, and of the file in it, counted by                          *)
(* iter_upload_chunks_with_policy while the repository stores its chunks.  *)
(* Sizes are small numbers; what a file is named and how it begins only    *)
(* matters as accepted or not.                                             *)
(***************************************************************************)
EXTENDS Naturals

CONSTANTS
  Media,       \* content types of a body
  Form,        \* the one that carries files, multipart/form-data
  BodyLimit,   \* BodyLimit[m]: _limit_for_scope; None: no limit
  Kinds,       \* cover, book_file, chapter_file
  MaxBytes,    \* MaxBytes[k]: max_bytes of the policy
  Frame,       \* bytes of a form that are not of its file
  ChunkSize,   \* bytes of one read
  Lengths,     \* lengths a client declares
  MaxMessage,  \* bound: bytes in one message of the server
  MaxBody,     \* bound: bytes a client sends
  None

Steps == {"idle", "receive", "policy", "read", "commit"}

\* What is wrong with the file: its extension or MIME type is not allowed, or
\* its first bytes are not those of its type.
Flaws == {"type", "signature"}

\* An upload: what the client says of it and what it is.
Upload == [media    : Media,
           declared : Nat \cup {None},   \* content-length of the request
           part     : Nat \cup {None},   \* and of the part with the file
           kind     : Kinds,
           flaw     : Flaws \cup {None},
           body     : Nat,               \* bytes received so far
           file     : Nat]               \* bytes of its file

Stored == [kind : Kinds, flaw : Flaws \cup {None}, file : Nat, bytes : Nat]

\* What the values of the constants must satisfy.
Parameters ==
  /\ Form \in Media /\ BodyLimit[Form] # None
  /\ BodyLimit \in [Media -> Nat \cup {None}]
  /\ MaxBytes \in [Kinds -> Nat]
  /\ {Frame, ChunkSize, MaxMessage, MaxBody} \subseteq Nat \ {0}
  /\ Lengths \subseteq Nat
  /\ None \notin Nat \cup Flaws \cup Upload \cup Stored

Answers == {200, 400, 413, 415, 500, None}

VARIABLES
  pc,
  upload,   \* the request that is running or has been answered
  passed,   \* bytes the parser was given
  written,  \* bytes in the chunks of the open transaction
  stored,   \* the file that was uploaded and the bytes of its committed chunks;
            \* None: no file
  answer    \* status of its answer; None: none yet, or the client is gone

vars == <<pc, upload, passed, written, stored, answer>>

Init ==
  /\ pc = "idle"
  /\ upload = None
  /\ passed = 0
  /\ written = 0
  /\ stored = None
  /\ answer = None

-----------------------------------------------------------------------------

\* The end of a request that does not commit.
Refuse(status) ==
  /\ pc' = "idle"
  /\ answer' = status
  /\ written' = 0
  /\ UNCHANGED stored

Over(m, n) == BodyLimit[m] # None /\ n > BodyLimit[m]

Request ==
  [media : {Form}, declared : Lengths \cup {None}, part : Lengths \cup {None},
   kind : Kinds, flaw : Flaws \cup {None}, body : {0}, file : {0}]
  \cup [media : Media \ {Form}, declared : Lengths \cup {None}, part : {None},
        kind : Kinds, flaw : {None}, body : {0}, file : {0}]

\* The headers arrive: a declared length over the limit is refused at once.
Arrive ==
  /\ upload = None
  /\ \E u \in Request :
       /\ upload' = u
       /\ IF u.declared # None /\ Over(u.media, u.declared)
          THEN Refuse(413)
          ELSE pc' = "receive" /\ answer' = None /\ UNCHANGED <<written, stored>>
  /\ UNCHANGED passed

\* limited_receive.  The server gives no more than the declared length.  What
\* it raises reaches FastAPI while it parses the form and becomes a 400; the
\* 413 of the middleware itself is for endpoints that read the form themselves,
\* of which the application has none.
ReceiveThenCount(n) ==   \* fault: the message is handed on before it is counted
  /\ upload' = [upload EXCEPT !.body = @ + n]
  /\ passed' = upload.body + n
  /\ IF Over(upload.media, upload.body)
     THEN Refuse(400)
     ELSE UNCHANGED <<pc, written, stored, answer>>

Receive(n) ==
  /\ upload' = [upload EXCEPT !.body = @ + n]
  /\ IF Over(upload.media, upload.body + n)
     THEN Refuse(400) /\ UNCHANGED passed
     ELSE passed' = upload.body + n /\ UNCHANGED <<pc, written, stored, answer>>

Message ==
  /\ pc = "receive"
  /\ \E n \in 1 .. MaxMessage :
       /\ upload.body + n <= (IF upload.declared = None THEN MaxBody ELSE upload.declared)
       /\ Receive(n)

\* http.disconnect
Disconnect ==
  /\ pc = "receive"
  /\ Refuse(None)
  /\ UNCHANGED <<upload, passed>>

\* The last message: the body is parsed.  Without a file the rest is the
\* business of other modules.
Parsed ==
  /\ pc = "receive"
  /\ upload.declared \in {upload.body, None}
  /\ IF upload.media # Form
     THEN Refuse(200) /\ UNCHANGED upload
     ELSE IF upload.body < Frame
     THEN Refuse(400) /\ UNCHANGED upload
     ELSE /\ pc' = "policy"
          /\ upload' = [upload EXCEPT !.file = upload.body - Frame]
          /\ UNCHANGED <<written, stored, answer>>
  /\ UNCHANGED passed

\* The old chunks are deleted and the generator is asked for its first one:
\* _policy_for, _validate_mime, _validate_content_length.
Policy ==
  /\ pc = "policy"
  /\ IF upload.flaw = "type"
     THEN Refuse(415)
     ELSE IF upload.part # None /\ upload.part > MaxBytes[upload.kind]
     THEN Refuse(413)
     ELSE pc' = "read" /\ UNCHANGED <<written, stored, answer>>
  /\ UNCHANGED <<upload, passed>>

Chunk == IF upload.file - written < ChunkSize THEN upload.file - written ELSE ChunkSize

\* One round of the loop: read, signature of the first chunk, total.
ReadTruncates ==   \* fault: what is over the limit is left out
  /\ pc = "read"
  /\ IF Chunk = 0 \/ written + Chunk > MaxBytes[upload.kind]
     THEN pc' = "commit" /\ UNCHANGED <<written, stored, answer>>
     ELSE written' = written + Chunk /\ UNCHANGED <<pc, stored, answer>>
  /\ UNCHANGED <<upload, passed>>

ReadBelow ==   \* fault: at the limit is over the limit
  /\ pc = "read"
  /\ IF Chunk = 0
     THEN pc' = "commit" /\ UNCHANGED <<written, stored, answer>>
     ELSE IF written = 0 /\ upload.flaw = "signature"
     THEN Refuse(415)
     ELSE IF written + Chunk >= MaxBytes[upload.kind]
     THEN Refuse(413)
     ELSE written' = written + Chunk /\ UNCHANGED <<pc, stored, answer>>
  /\ UNCHANGED <<upload, passed>>

Read ==
  /\ pc = "read"
  /\ IF Chunk = 0
     THEN pc' = "commit" /\ UNCHANGED <<written, stored, answer>>
     ELSE IF written = 0 /\ upload.flaw = "signature"
     THEN Refuse(415)
     ELSE IF written + Chunk > MaxBytes[upload.kind]
     THEN Refuse(413)
     ELSE written' = written + Chunk /\ UNCHANGED <<pc, stored, answer>>
  /\ UNCHANGED <<upload, passed>>

\* The rest of the transaction and its commit.
Commit ==
  /\ pc = "commit"
  /\ stored' = [kind |-> upload.kind, flaw |-> upload.flaw, file |-> upload.file, bytes |-> written]
  /\ pc' = "idle"
  /\ answer' = 200
  /\ written' = 0
  /\ UNCHANGED <<upload, passed>>

\* The client has its answer or is gone.
Close ==
  /\ pc = "idle"
  /\ upload # None
  /\ upload' = None
  /\ answer' = None
  /\ passed' = 0
  /\ UNCHANGED <<pc, written, stored>>

\* The database fails.
Error ==
  /\ pc \in {"policy", "read", "commit"}
  /\ Refuse(500)
  /\ UNCHANGED <<upload, passed>>

\* Only the database outlives the process.
Restart ==
  /\ Refuse(None)
  /\ upload' = None
  /\ passed' = 0

Serve == Arrive \/ Message \/ Disconnect \/ Parsed \/ Policy \/ Read \/ Commit \/ Close
  \/ Error

Next == Serve \/ Restart

Spec == Init /\ [][Next]_vars

-----------------------------------------------------------------------------
(* Properties *)

\* Every variable holds a value of the shape the code gives it.
TypeOK ==
  /\ pc \in Steps
  /\ upload \in Upload \cup {None}
  /\ pc # "idle" => upload # None
  /\ passed \in Nat
  /\ written \in Nat
  /\ stored \in Stored \cup {None}
  /\ answer \in Answers

\* However the body is declared and cut into messages, the parser is never
\* given more of it than the limit of its type.
WithinLimit == upload # None => ~ Over(upload.media, passed)

\* Chunks that are committed are those of one whole file, not longer than its
\* policy allows and of an accepted type; an empty file has no first chunk
\* to tell its type by.
StoredWhole ==
  stored # None =>
    /\ stored.bytes = stored.file
    /\ stored.bytes <= MaxBytes[stored.kind]
    /\ stored.flaw = None \/ (stored.flaw = "signature" /\ stored.bytes = 0)

\* No form with such a file is longer than its body may be.
LeavesRoom(k) == BodyLimit[Form] >= Frame + MaxBytes[k]

\* The file, as far as it has come, and what its client declares are within
\* what the policy of its kind allows.
FitsPolicy(u) ==
  /\ u.media = Form
  /\ u.flaw = None
  /\ u.body <= Frame + MaxBytes[u.kind]
  /\ u.declared # None => u.declared <= Frame + MaxBytes[u.kind]
  /\ u.part # None => u.part <= MaxBytes[u.kind]

\* A file its policy allows, up to the last byte of max_bytes, passes all the
\* checks: the declared length and the count of the middleware, the declared
\* length of the part and the count of the generator, however it is cut into
\* messages and chunks.  The kinds it is about are those whose largest form is
\* within the limit of the body; book_file, as documented, is not one of them.
AcceptedUpToLimit ==
  upload # None /\ LeavesRoom(upload.kind) /\ FitsPolicy(upload) =>
    /\ answer \notin {413, 415}
    /\ answer = 400 => upload.body < Frame
=============================================================================
