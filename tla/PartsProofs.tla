----------------------------- MODULE PartsProofs -----------------------------
(***************************************************************************)
(* What the properties of the parts come to for the server they are parts  *)
(* of: every step of Parts is for each part a step of its own or none at   *)
(* all, so what is proved of the part alone holds of it in the server.     *)
(***************************************************************************)
EXTENDS Parts, TLAPS

SP == INSTANCE FilesProofs
  WITH Keys <- BookKeys, Requests <- SettingsRequests, Pairs <- KeyPairs
FP == INSTANCE FavoritesProofs
  WITH Users <- Readers, Requests <- FavoriteRequests, tx <- ftx
NP == INSTANCE NotificationsProofs
LP == INSTANCE LimitsProofs WITH Requests <- LoginRequests, Kinds <- FileKinds

-----------------------------------------------------------------------------
(* The parts and the parts the proofs are about are the same *)

LEMMA SettingsSame ==
  /\ S!Parameters <=> SP!Parameters
  /\ S!Init <=> SP!Init
  /\ [S!Next]_S!vars <=> [SP!Next]_SP!vars
  /\ S!TypeOK <=> SP!TypeOK
  /\ S!SettingsAgree <=> SP!SettingsAgree
  /\ S!DataFollows <=> SP!DataFollows
BY DEF S!Urls, SP!Urls, S!Setting, SP!Setting, S!Payload, SP!Payload, S!Url, SP!Url,
       S!Parameters, SP!Parameters, S!Database, SP!Database, S!Steps, SP!Steps, S!Tx, SP!Tx,
       S!Empty, SP!Empty, S!Idle, SP!Idle, S!vars, SP!vars, S!Init, SP!Init,
       S!AllIdle, SP!AllIdle, S!FreshManagers, SP!FreshManagers, S!Stop, SP!Stop, S!Die, SP!Die,
       S!Crash, SP!Crash, S!Start, SP!Start, S!Take, SP!Take, S!Add, SP!Add,
       S!Remove, SP!Remove, S!Finish, SP!Finish, S!Written, SP!Written, S!Removed, SP!Removed,
       S!Applied, SP!Applied, S!Patch, SP!Patch, S!Go, SP!Go, S!Fail, SP!Fail,
       S!Error, SP!Error, S!Schema, SP!Schema, S!ReadBooks, SP!ReadBooks,
       S!ReadChunks, SP!ReadChunks, S!Refused, SP!Refused, S!Copy, SP!Copy, S!Save, SP!Save,
       S!Unsaved, SP!Unsaved, S!Dispose, SP!Dispose, S!Publish, SP!Publish, S!Next, SP!Next,
       S!TypeOK, SP!TypeOK, S!Patching, SP!Patching, S!SettingsAgree, SP!SettingsAgree,
       S!DataFollows, SP!DataFollows

LEMMA FavoritesSame ==
  /\ F!Parameters <=> FP!Parameters
  /\ F!Init <=> FP!Init
  /\ [F!Next]_F!vars <=> [FP!Next]_FP!vars
  /\ F!TypeOK <=> FP!TypeOK
  /\ F!ChangesLogged <=> FP!ChangesLogged
  /\ F!BooksKnown <=> FP!BooksKnown
  /\ F!SomeoneGoesOn <=> FP!SomeoneGoesOn
BY DEF F!Pairs, FP!Pairs, F!Entries, FP!Entries, F!Parameters, FP!Parameters, F!Steps, FP!Steps,
       F!Tx, FP!Tx, F!Idle, FP!Idle, F!vars, FP!vars, F!Init, FP!Init, F!Others, FP!Others,
       F!Acquire, FP!Acquire, F!InsertFree, FP!InsertFree, F!DeleteFree, FP!DeleteFree,
       F!DropFree, FP!DropFree, F!Referencing, FP!Referencing, F!LocksFree, FP!LocksFree,
       F!Release, FP!Release, F!Rollback, FP!Rollback, F!Commit, FP!Commit,
       F!DbError, FP!DbError, F!Arrive, FP!Arrive, F!Favorite, FP!Favorite,
       F!Unfavorite, FP!Unfavorite, F!DeleteBook, FP!DeleteBook, F!Go, FP!Go,
       F!AfterFind, FP!AfterFind, F!Find, FP!Find, F!Lookup, FP!Lookup, F!Insert, FP!Insert,
       F!Again, FP!Again, F!Erase, FP!Erase, F!Erased, FP!Erased, F!Drop, FP!Drop,
       F!Cascade, FP!Cascade, F!Entry, FP!Entry, F!Log, FP!Log, F!Step, FP!Step,
       F!Next, FP!Next, F!TypeOK, FP!TypeOK, F!ChangesLogged, FP!ChangesLogged,
       F!BooksKnown, FP!BooksKnown, F!SomeoneGoesOn, FP!SomeoneGoesOn

LEMMA NotificationsSame ==
  /\ N!Parameters <=> NP!Parameters
  /\ N!Init <=> NP!Init
  /\ [N!Next]_N!vars <=> [NP!Next]_NP!vars
  /\ N!TypeOK <=> NP!TypeOK
  /\ N!NoGhosts <=> NP!NoGhosts
  /\ N!Reachable <=> NP!Reachable
  /\ N!Informed <=> NP!Informed
  /\ N!NoLeak <=> NP!NoLeak
<1>1. N!Parameters <=> NP!Parameters
  BY DEF N!Kinds, NP!Kinds, N!Parameters, NP!Parameters
<1>2. N!Init <=> NP!Init
  BY DEF N!Sessions, NP!Sessions, N!Idle, NP!Idle, N!Init, NP!Init
<1>3. [N!Next]_N!vars <=> [NP!Next]_NP!vars
  BY DEF N!Kinds, NP!Kinds, N!Sessions, NP!Sessions, N!Idle, NP!Idle, N!vars, NP!vars,
         N!Free, NP!Free, N!CheckOut, NP!CheckOut, N!CheckIn, NP!CheckIn, N!Dial, NP!Dial,
         N!Leave, NP!Leave, N!Reject, NP!Reject, N!Authenticate, NP!Authenticate,
         N!Accept, NP!Accept, N!AcceptFails, NP!AcceptFails, N!Without, NP!Without,
         N!Close, NP!Close, N!ClientBecomes, NP!ClientBecomes, N!Stall, NP!Stall,
         N!Recover, NP!Recover, N!Vanish, NP!Vanish, N!Arrive, NP!Arrive, N!Go, NP!Go,
         N!Finish, NP!Finish, N!Connect, NP!Connect, N!PoolTimeout, NP!PoolTimeout,
         N!Fail, NP!Fail, N!LookUp, NP!LookUp, N!Streamed, NP!Streamed, N!Send, NP!Send,
         N!Pending, NP!Pending, N!StartSend, NP!StartSend, N!Sent, NP!Sent,
         N!SendFails, NP!SendFails, N!Gathered, NP!Gathered, N!Commit, NP!Commit,
         N!Restart, NP!Restart, N!Endpoint, NP!Endpoint, N!Network, NP!Network,
         N!Sending, NP!Sending, N!Step, NP!Step, N!Serve, NP!Serve, N!Next, NP!Next,
         N!Cardinality, NP!Cardinality, N!MapThenSumSet, NP!MapThenSumSet,
         N!MapThenFoldSet, NP!MapThenFoldSet
<1>4. N!TypeOK <=> NP!TypeOK
  BY DEF N!Kinds, NP!Kinds, N!Sessions, NP!Sessions, N!Phases, NP!Phases, N!Clients, NP!Clients,
         N!Steps, NP!Steps, N!Req, NP!Req, N!TypeOK, NP!TypeOK
<1>5. N!NoGhosts <=> NP!NoGhosts
  BY DEF N!NoGhosts, NP!NoGhosts
<1>6. N!Reachable <=> NP!Reachable
  BY DEF N!Reachable, NP!Reachable
<1>7. N!Informed <=> NP!Informed
  BY DEF N!Informed, NP!Informed
<1>8. N!NoLeak <=> NP!NoLeak
  BY DEF N!NoLeak, NP!NoLeak
<1>9. QED
  BY <1>1, <1>2, <1>3, <1>4, <1>5, <1>6, <1>7, <1>8

LEMMA KeyFilesSame ==
  /\ K!Parameters <=> SP!K!Parameters
  /\ K!Init <=> SP!K!Init
  /\ [K!Next]_K!vars <=> [SP!K!Next]_SP!K!vars
  /\ K!TypeOK <=> SP!K!TypeOK
  /\ K!KeysAgree <=> SP!K!KeysAgree
BY DEF K!Parameters, SP!K!Parameters, K!Contents, SP!K!Contents, K!vars, SP!K!vars,
       K!Init, SP!K!Init, K!Loaded, SP!K!Loaded, K!Read, SP!K!Read, K!Generate, SP!K!Generate,
       K!WritePrivate, SP!K!WritePrivate, K!WritePublic, SP!K!WritePublic, K!Sign, SP!K!Sign,
       K!Expire, SP!K!Expire, K!End, SP!K!End, K!Next, SP!K!Next, K!TypeOK, SP!K!TypeOK,
       K!KeysAgree, SP!K!KeysAgree

LEMMA PagingSame ==
  /\ P!Parameters <=> LP!P!Parameters
  /\ P!Init <=> LP!P!Init
  /\ [P!Next]_P!vars <=> [LP!P!Next]_LP!P!vars
  /\ P!TypeOK <=> LP!P!TypeOK
  /\ P!NoneTwice <=> LP!P!NoneTwice
  /\ P!NoneMissed <=> LP!P!NoneMissed
BY DEF P!Cursors, LP!P!Cursors, P!Parameters, LP!P!Parameters, P!vars, LP!P!vars,
       P!pass, LP!P!pass, P!Init, LP!P!Init, P!Earlier, LP!P!Earlier, P!Before, LP!P!Before,
       P!After, LP!P!After, P!Rest, LP!P!Rest, P!IsPage, LP!P!IsPage, P!Open, LP!P!Open,
       P!Page, LP!P!Page, P!Appear, LP!P!Appear, P!Vanish, LP!P!Vanish, P!Move, LP!P!Move,
       P!Next, LP!P!Next, P!TypeOK, LP!P!TypeOK, P!NoneTwice, LP!P!NoneTwice,
       P!NoneMissed, LP!P!NoneMissed, P!Cardinality, LP!P!Cardinality

LEMMA AuthThrottleSame ==
  /\ T!Parameters <=> LP!Parameters
  /\ T!Init <=> LP!Init
  /\ [T!Next]_T!vars <=> [LP!Next]_LP!vars
  /\ T!TypeOK <=> LP!TypeOK
  /\ T!CountsTheWindow <=> LP!CountsTheWindow
  /\ T!OvershootBounded <=> LP!OvershootBounded
BY DEF T!Keys, LP!Keys, T!Parameters, LP!Parameters, T!Tx, LP!Tx, T!Idle, LP!Idle,
       T!Ages, LP!Ages, T!vars, LP!vars, T!Init, LP!Init, T!FirstLive, LP!FirstLive,
       T!Prune, LP!Prune, T!Blocked, LP!Blocked, T!Recorded, LP!Recorded, T!Tick, LP!Tick,
       T!Seen, LP!Seen, T!Check, LP!Check, T!Answered, LP!Answered, T!Failure, LP!Failure,
       T!Forgotten, LP!Forgotten, T!Success, LP!Success, T!Error, LP!Error,
       T!Restart, LP!Restart, T!Serve, LP!Serve, T!Next, LP!Next, T!Recent, LP!Recent,
       T!Awaited, LP!Awaited, T!TypeOK, LP!TypeOK, T!CountsTheWindow, LP!CountsTheWindow,
       T!OvershootBounded, LP!OvershootBounded, T!IsFiniteSet, LP!IsFiniteSet,
       T!Cardinality, LP!Cardinality

LEMMA UploadsSame ==
  /\ U!Parameters <=> LP!U!Parameters
  /\ U!Init <=> LP!U!Init
  /\ [U!Next]_U!vars <=> [LP!U!Next]_LP!U!vars
  /\ U!TypeOK <=> LP!U!TypeOK
  /\ U!WithinLimit <=> LP!U!WithinLimit
  /\ U!StoredWhole <=> LP!U!StoredWhole
  /\ U!AcceptedUpToLimit <=> LP!U!AcceptedUpToLimit
BY DEF U!Steps, LP!U!Steps, U!Flaws, LP!U!Flaws, U!Upload, LP!U!Upload, U!Stored, LP!U!Stored,
       U!Parameters, LP!U!Parameters, U!Answers, LP!U!Answers, U!vars, LP!U!vars,
       U!Init, LP!U!Init, U!Refuse, LP!U!Refuse, U!Over, LP!U!Over, U!Request, LP!U!Request,
       U!Arrive, LP!U!Arrive, U!Receive, LP!U!Receive, U!Message, LP!U!Message,
       U!Disconnect, LP!U!Disconnect, U!Parsed, LP!U!Parsed, U!Policy, LP!U!Policy,
       U!Chunk, LP!U!Chunk, U!Read, LP!U!Read, U!Commit, LP!U!Commit, U!Close, LP!U!Close,
       U!Error, LP!U!Error, U!Restart, LP!U!Restart, U!Serve, LP!U!Serve, U!Next, LP!U!Next,
       U!TypeOK, LP!U!TypeOK, U!WithinLimit, LP!U!WithinLimit, U!StoredWhole, LP!U!StoredWhole,
       U!LeavesRoom, LP!U!LeavesRoom, U!FitsPolicy, LP!U!FitsPolicy,
       U!AcceptedUpToLimit, LP!U!AcceptedUpToLimit

-----------------------------------------------------------------------------
(* Steps of the server *)

\* What is a step of the server, is one of each part or leaves it alone.
LEMMA PartSteps ==
  ASSUME [Next]_vars
  PROVE  /\ [S!Next]_S!vars
         /\ [F!Next]_F!vars
         /\ [N!Next]_N!vars
         /\ [K!Next]_K!vars
         /\ [P!Next]_P!vars
         /\ [T!Next]_T!vars
         /\ [U!Next]_U!vars
BY DEF Next, vars, SettingsStep, FavoritesStep, NotificationsStep, KeyFilesStep, PagingStep,
       AuthThrottleStep, UploadsStep, settingsVars, favVars, noteVars, keyVars, pageVars,
       throttleVars, uploadVars, S!vars, F!vars, N!vars, K!vars, P!vars, T!vars, U!vars

-----------------------------------------------------------------------------
(* The server seen as one of its parts *)

LEMMA SettingsBehaves == Spec => SP!Spec
<1>1. Init => SP!Init
  BY SettingsSame DEF Init
<1>2. [Next]_vars => [SP!Next]_SP!vars
  BY PartSteps, SettingsSame
<1>3. QED
  BY <1>1, <1>2, PTL DEF Spec, SP!Spec

LEMMA FavoritesBehaves == Spec => FP!Spec
<1>1. Init => FP!Init
  BY FavoritesSame DEF Init
<1>2. [Next]_vars => [FP!Next]_FP!vars
  BY PartSteps, FavoritesSame
<1>3. QED
  BY <1>1, <1>2, PTL DEF Spec, FP!Spec

LEMMA NotificationsBehaves == Spec => NP!Spec
<1>1. Init => NP!Init
  BY NotificationsSame DEF Init
<1>2. [Next]_vars => [NP!Next]_NP!vars
  BY PartSteps, NotificationsSame
<1>3. QED
  BY <1>1, <1>2, PTL DEF Spec, NP!Spec

LEMMA KeyFilesBehaves == Spec => SP!K!Spec
<1>1. Init => SP!K!Init
  BY KeyFilesSame DEF Init
<1>2. [Next]_vars => [SP!K!Next]_SP!K!vars
  BY PartSteps, KeyFilesSame
<1>3. QED
  BY <1>1, <1>2, PTL DEF Spec, SP!K!Spec

LEMMA PagingBehaves == Spec => LP!P!Spec
<1>1. Init => LP!P!Init
  BY PagingSame DEF Init
<1>2. [Next]_vars => [LP!P!Next]_LP!P!vars
  BY PartSteps, PagingSame
<1>3. QED
  BY <1>1, <1>2, PTL DEF Spec, LP!P!Spec

LEMMA AuthThrottleBehaves == Spec => LP!Spec
<1>1. Init => LP!Init
  BY AuthThrottleSame DEF Init
<1>2. [Next]_vars => [LP!Next]_LP!vars
  BY PartSteps, AuthThrottleSame
<1>3. QED
  BY <1>1, <1>2, PTL DEF Spec, LP!Spec

LEMMA UploadsBehaves == Spec => LP!U!Spec
<1>1. Init => LP!U!Init
  BY UploadsSame DEF Init
<1>2. [Next]_vars => [LP!U!Next]_LP!U!vars
  BY PartSteps, UploadsSame
<1>3. QED
  BY <1>1, <1>2, PTL DEF Spec, LP!U!Spec

-----------------------------------------------------------------------------
(* The properties of the server *)

\* The state of the whole server is always one the code knows.
THEOREM TypeCorrect == ASSUME Parameters PROVE Spec => []TypeOK
<1>1. /\ SP!Parameters /\ NP!Parameters /\ SP!K!Parameters
      /\ LP!P!Parameters /\ LP!Parameters /\ LP!U!Parameters
  BY SettingsSame, NotificationsSame, KeyFilesSame, PagingSame, AuthThrottleSame, UploadsSame
     DEF Parameters
<1>2. SP!Spec => []SP!TypeOK
  BY <1>1, SP!TypeCorrect
<1>3. FP!Spec => []FP!TypeOK
  BY FP!TypeCorrect
<1>4. NP!Spec => []NP!TypeOK
  BY <1>1, NP!TypeCorrect
<1>5. SP!K!Spec => []SP!K!TypeOK
  BY <1>1, SP!KeysTypeCorrect
<1>6. LP!P!Spec => []LP!P!TypeOK
  BY <1>1, LP!PagingTypeCorrect
<1>7. LP!Spec => []LP!TypeOK
  BY <1>1, LP!ThrottleTypeCorrect
<1>8. LP!U!Spec => []LP!U!TypeOK
  BY <1>1, LP!UploadsTypeCorrect
<1>9. /\ SP!TypeOK /\ FP!TypeOK /\ NP!TypeOK /\ SP!K!TypeOK
      /\ LP!P!TypeOK /\ LP!TypeOK /\ LP!U!TypeOK
      => TypeOK
  BY SettingsSame, FavoritesSame, NotificationsSame, KeyFilesSame, PagingSame,
     AuthThrottleSame, UploadsSame DEF TypeOK
<1>10. QED
  BY <1>2, <1>3, <1>4, <1>5, <1>6, <1>7, <1>8, <1>9, SettingsBehaves, FavoritesBehaves,
     NotificationsBehaves, KeyFilesBehaves, PagingBehaves, AuthThrottleBehaves,
     UploadsBehaves, PTL

\* As long as no two PATCHes overlap, the settings in memory, config.ini and
\* the database of the requests agree between them, whatever the rest of the
\* server does and wherever a PATCH fails or the process is killed.
THEOREM SettingsAgreed ==
  ASSUME Parameters PROVE Spec /\ []SP!OnePatch => []SettingsAgree
<1>1. SP!Parameters
  BY SettingsSame DEF Parameters
<1>2. SP!Spec /\ []SP!OnePatch => []SP!SettingsAgree
  BY <1>1, SP!SettingsKept
<1>3. SP!SettingsAgree => SettingsAgree
  BY SettingsSame DEF SettingsAgree
<1>4. QED
  BY <1>2, <1>3, SettingsBehaves, PTL

\* As long as no request that writes runs beside a PATCH of the settings, and no
\* PATCH names another file, a change of backend loses, tears and resurrects
\* no book.
THEOREM DataFollowed ==
  ASSUME Parameters, SP!PathsKept PROVE Spec /\ []SP!PatchAlone => []DataFollows
<1>1. SP!Parameters
  BY SettingsSame DEF Parameters
<1>2. SP!Spec /\ []SP!PatchAlone => []SP!DataFollows
  BY <1>1, SP!DataKept
<1>3. SP!DataFollows => DataFollows
  BY SettingsSame DEF DataFollows
<1>4. QED
  BY <1>2, <1>3, SettingsBehaves, PTL

\* On either backend a favourite is one of an existing book.
THEOREM FavouritesKnown ==
  ASSUME Parameters PROVE Spec => []BooksKnown
<1>1. FP!Parameters
  BY FavoritesSame DEF Parameters
<1>2. FP!Spec => []FP!BooksKnown
  BY <1>1, FP!FavouritesKnown
<1>3. FP!BooksKnown => BooksKnown
  BY FavoritesSame DEF BooksKnown
<1>4. QED
  BY <1>2, <1>3, FavoritesBehaves, PTL

\* On either backend the requests for favourites never wait in a circle.
THEOREM NobodyStuck ==
  ASSUME Parameters PROVE Spec => []SomeoneGoesOn
<1>1. FP!Parameters
  BY FavoritesSame DEF Parameters
<1>2. FP!Spec => []FP!SomeoneGoesOn
  BY <1>1, FP!NobodyStuck
<1>3. FP!SomeoneGoesOn => SomeoneGoesOn
  BY FavoritesSame DEF SomeoneGoesOn
<1>4. QED
  BY <1>2, <1>3, FavoritesBehaves, PTL

\* On PostgreSQL the log of favourites tells the truth: its latest entry about
\* a pair is what the table says ...
THEOREM FavouritesTrue ==
  ASSUME Parameters, Backend = "postgresql" PROVE Spec => []ChangesLogged
<1>1. FP!Parameters
  BY FavoritesSame DEF Parameters
<1>2. FP!Spec => [](FP!ChangesLogged /\ FP!BooksKnown)
  BY <1>1, FP!FavouritesTrue
<1>3. FP!ChangesLogged => ChangesLogged
  BY FavoritesSame DEF ChangesLogged
<1>4. QED
  BY <1>2, <1>3, FavoritesBehaves, PTL

\* ... and no two entries about a pair in a row say the same.
THEOREM EntriesAlternate ==
  ASSUME Parameters, Backend = "postgresql" PROVE Spec => Alternate
<1>1. FP!Parameters
  BY FavoritesSame DEF Parameters
<1>2. FP!Spec => FP!Alternate
  BY <1>1, FP!EntriesAlternate
<1>3. [\A r \in FavoriteRequests :
          FP!Commit(r) /\ ftx[r].entry # None => ftx[r].entry # last[ftx[r].pair]]_FP!vars
      => [\A r \in FavoriteRequests :
             F!Commit(r) /\ ftx[r].entry # None => ftx[r].entry # last[ftx[r].pair]]_F!vars
  BY DEF F!Idle, FP!Idle, F!vars, FP!vars, F!Release, FP!Release, F!Commit, FP!Commit
<1>4. QED
  BY <1>2, <1>3, FavoritesBehaves, PTL DEF Alternate, F!Alternate, FP!Alternate

\* On PostgreSQL every commit of the server changes one favourite with its log
\* entry, deletes one book with its favourites, or leaves them all alone.
THEOREM ChangesImplemented ==
  ASSUME Parameters, Backend = "postgresql" PROVE Spec => ChangesRefined
<1>1. FP!Parameters
  BY FavoritesSame DEF Parameters
<1>2. FP!Spec => FP!ChangesRefined
  BY <1>1, FP!ChangesImplemented
<1>3. FP!Changes!Init => F!Changes!Init
  BY DEF FP!Changes!Init, F!Changes!Init, FP!Changes!Pairs, F!Changes!Pairs
<1>4. [FP!Changes!Next]_FP!Changes!vars => [F!Changes!Next]_F!Changes!vars
  BY DEF F!Changes!Next, FP!Changes!Next, F!Changes!Pairs, FP!Changes!Pairs,
         F!Changes!Add, FP!Changes!Add, F!Changes!Remove, FP!Changes!Remove,
         F!Changes!Delete, FP!Changes!Delete, F!Changes!vars, FP!Changes!vars
<1>5. QED
  BY <1>2, <1>3, <1>4, FavoritesBehaves, PTL
     DEF ChangesRefined, F!ChangesRefined, F!Changes!Spec, FP!ChangesRefined, FP!Changes!Spec

\* No socket is in the table whose endpoint has ended.
THEOREM GhostsNone ==
  ASSUME Parameters PROVE Spec => []NoGhosts
<1>1. NP!Parameters
  BY NotificationsSame DEF Parameters
<1>2. NP!Spec => [](NP!NoGhosts /\ NP!Reachable)
  BY <1>1, NP!TableSound
<1>3. NP!NoGhosts => NoGhosts
  BY NotificationsSame DEF NoGhosts
<1>4. QED
  BY <1>2, <1>3, NotificationsBehaves, PTL

\* A client that reads is in the table as long as its endpoint receives.
THEOREM AllReachable ==
  ASSUME Parameters PROVE Spec => []Reachable
<1>1. NP!Parameters
  BY NotificationsSame DEF Parameters
<1>2. NP!Spec => [](NP!NoGhosts /\ NP!Reachable)
  BY <1>1, NP!TableSound
<1>3. NP!Reachable => Reachable
  BY NotificationsSame DEF Reachable
<1>4. QED
  BY <1>2, <1>3, NotificationsBehaves, PTL

\* Whoever has sent knows that every socket open when it began has its message
\* or is out of the table.
THEOREM BroadcastComplete ==
  ASSUME Parameters PROVE Spec => []Informed
<1>1. NP!Parameters
  BY NotificationsSame DEF Parameters
<1>2. NP!Spec => []NP!Informed
  BY <1>1, NP!BroadcastComplete
<1>3. NP!Informed => Informed
  BY NotificationsSame DEF Informed
<1>4. QED
  BY <1>2, <1>3, NotificationsBehaves, PTL

\* Who has ended, or waits for a second connection, holds none of the pool.
THEOREM ConnectionsReturned ==
  ASSUME Parameters PROVE Spec => []NoLeak
<1>1. NP!Parameters
  BY NotificationsSame DEF Parameters
<1>2. NP!Spec => []NP!NoLeak
  BY <1>1, NP!ConnectionsReturned
<1>3. NP!NoLeak => NoLeak
  BY NotificationsSame DEF NoLeak
<1>4. QED
  BY <1>2, <1>3, NotificationsBehaves, PTL

\* No client, broken or slow, ends the request that sends to it.
THEOREM SendingUndisturbed == ASSUME Parameters PROVE Spec => SendingGoesOn
<1>1. NP!Parameters
  BY NotificationsSame DEF Parameters
<1>2. NP!Spec => NP!SendingGoesOn
  BY <1>1, NP!SendingUndisturbed
<1>3. [\/ NP!Restart
       \/ \A r \in Requests : req[r].pc = "send" => req'[r].pc \in {"send", "commit"}]_NP!vars
      => [\/ N!Restart
          \/ \A r \in Requests : req[r].pc = "send" => req'[r].pc \in {"send", "commit"}]_N!vars
  BY DEF N!Sessions, NP!Sessions, N!Idle, NP!Idle, N!vars, NP!vars, N!Restart, NP!Restart
<1>4. QED
  BY <1>2, <1>3, NotificationsBehaves, PTL DEF SendingGoesOn, N!SendingGoesOn, NP!SendingGoesOn

\* However often the process is killed while it writes its keys, those that are
\* whole belong together and accept every token signed before.
THEOREM KeysHold ==
  ASSUME Parameters PROVE Spec => []KeysAgree
<1>1. SP!K!Parameters
  BY KeyFilesSame DEF Parameters
<1>2. SP!K!Spec => []SP!K!KeysAgree
  BY <1>1, SP!PairHolds
<1>3. SP!K!KeysAgree => KeysAgree
  BY KeyFilesSame DEF KeysAgree
<1>4. QED
  BY <1>2, <1>3, KeyFilesBehaves, PTL

\* With PostgreSQL no row is on two pages ...
THEOREM RowsOnce ==
  ASSUME Parameters, Backend = "postgresql" PROVE Spec => []NoneTwice
<1>1. LP!P!Parameters
  BY PagingSame DEF Parameters
<1>2. LP!P!Spec => [](LP!P!NoneTwice /\ LP!P!NoneMissed)
  BY <1>1, LP!EachRowOnce
<1>3. LP!P!NoneTwice => NoneTwice
  BY PagingSame DEF NoneTwice
<1>4. QED
  BY <1>2, <1>3, PagingBehaves, PTL

\* ... and none that stays where it is, is on no page.
THEOREM RowsAll ==
  ASSUME Parameters, Backend = "postgresql" PROVE Spec => []NoneMissed
<1>1. LP!P!Parameters
  BY PagingSame DEF Parameters
<1>2. LP!P!Spec => [](LP!P!NoneTwice /\ LP!P!NoneMissed)
  BY <1>1, LP!EachRowOnce
<1>3. LP!P!NoneMissed => NoneMissed
  BY PagingSame DEF NoneMissed
<1>4. QED
  BY <1>2, <1>3, PagingBehaves, PTL

\* A login counts exactly the failures its key had within the window.
THEOREM WindowCounted ==
  ASSUME Parameters PROVE Spec => []CountsTheWindow
<1>1. LP!Parameters
  BY AuthThrottleSame DEF Parameters
<1>2. LP!Spec => []LP!CountsTheWindow
  BY <1>1, LP!WindowCounted
<1>3. LP!CountsTheWindow => CountsTheWindow
  BY AuthThrottleSame DEF CountsTheWindow
<1>4. QED
  BY <1>2, <1>3, AuthThrottleBehaves, PTL

\* Logins that overlap push a key past its limit by less than their number.
THEOREM Overshoot ==
  ASSUME Parameters PROVE Spec => []OvershootBounded
<1>1. LP!Parameters
  BY AuthThrottleSame DEF Parameters
<1>2. LP!Spec => []LP!OvershootBounded
  BY <1>1, LP!Overshoot
<1>3. LP!OvershootBounded => OvershootBounded
  BY AuthThrottleSame DEF OvershootBounded
<1>4. QED
  BY <1>2, <1>3, AuthThrottleBehaves, PTL

\* The parser is never given more of a body than its limit.
THEOREM BodyLimited ==
  ASSUME Parameters PROVE Spec => []WithinLimit
<1>1. LP!U!Parameters
  BY UploadsSame DEF Parameters
<1>2. LP!U!Spec => []LP!U!WithinLimit
  BY <1>1, LP!BodyLimited
<1>3. LP!U!WithinLimit => WithinLimit
  BY UploadsSame DEF WithinLimit
<1>4. QED
  BY <1>2, <1>3, UploadsBehaves, PTL

\* A file that is stored is whole, within its limit and of an allowed type.
THEOREM FilesWhole ==
  ASSUME Parameters PROVE Spec => []StoredWhole
<1>1. LP!U!Parameters
  BY UploadsSame DEF Parameters
<1>2. LP!U!Spec => []LP!U!StoredWhole
  BY <1>1, LP!FilesWhole
<1>3. LP!U!StoredWhole => StoredWhole
  BY UploadsSame DEF StoredWhole
<1>4. QED
  BY <1>2, <1>3, UploadsBehaves, PTL

\* A file that its policy allows and for which a form has room is not turned
\* away.
THEOREM NotTurnedAway ==
  ASSUME Parameters PROVE Spec => []AcceptedUpToLimit
<1>1. LP!U!Parameters
  BY UploadsSame DEF Parameters
<1>2. LP!U!Spec => []LP!U!AcceptedUpToLimit
  BY <1>1, LP!NotTurnedAway
<1>3. LP!U!AcceptedUpToLimit => AcceptedUpToLimit
  BY UploadsSame DEF AcceptedUpToLimit
<1>4. QED
  BY <1>2, <1>3, UploadsBehaves, PTL
=============================================================================
