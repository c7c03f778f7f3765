-------------------------------- MODULE Parts --------------------------------
(***************************************************************************)
(* The parts of the server that share no state with each other, side by    *)
(* side: settings and databases, favourites, notifications, key files, the *)
(* pages a client reads, the throttle and the uploads.  Each makes its     *)
(* steps whatever the others do.  They live in one process, so a restart   *)
(* is one of all of them; here each may restart on its own, too.           *)
(***************************************************************************)
CONSTANTS
  None,
  Backend,            \* "sqlite" or "postgresql"
  \* Settings
  Paths, Server, BookKeys, Managers, SettingsRequests, Payloads, Torn,
  \* Favorites
  Readers, Books, FavoriteRequests,
  \* Notifications
  Users, Sockets, Requests, UserOf, PoolSize, BroadcastConcurrency,
  \* KeyFiles
  KeyPairs, Missing,
  \* Paging
  Ids, Times, Limits,
  \* AuthThrottle
  Targets, Addresses, LoginRequests, Limit, Window,
  \* Uploads
  Media, Form, BodyLimit, FileKinds, MaxBytes, Frame, ChunkSize, Lengths, MaxMessage, MaxBody

VARIABLES
  file, memory, app, local, url, pooled, data, acked, tx,
  books, fav, last, writer, ftx,
  active, phase, client, req, held,
  private, public, step, draft, signing, verifying, tokens,
  rows, time, dir, limit, cursor, reading, shown, twice, stayed,
  attempts, waiting, failures,
  pc, upload, passed, written, stored, answer

S == INSTANCE Settings WITH Keys <- BookKeys, Requests <- SettingsRequests
F == INSTANCE Favorites WITH Users <- Readers, Requests <- FavoriteRequests, tx <- ftx
N == INSTANCE Notifications
K == INSTANCE KeyFiles WITH Pairs <- KeyPairs
P == INSTANCE Paging
T == INSTANCE AuthThrottle WITH Requests <- LoginRequests
U == INSTANCE Uploads WITH Kinds <- FileKinds

settingsVars == <<file, memory, app, local, url, pooled, data, acked, tx>>
favVars == <<books, fav, last, writer, ftx>>
noteVars == <<active, phase, client, req, held>>
keyVars == <<private, public, step, draft, signing, verifying, tokens>>
pageVars == <<rows, time, dir, limit, cursor, reading, shown, twice, stayed>>
throttleVars == <<attempts, waiting, failures>>
uploadVars == <<pc, upload, passed, written, stored, answer>>

vars ==
  <<settingsVars, favVars, noteVars, keyVars, pageVars, throttleVars, uploadVars>>

\* What the values of the constants must satisfy.
Parameters ==
  /\ S!Parameters /\ F!Parameters /\ N!Parameters /\ K!Parameters
  /\ P!Parameters /\ T!Parameters /\ U!Parameters

Init == S!Init /\ F!Init /\ N!Init /\ K!Init /\ P!Init /\ T!Init /\ U!Init

SettingsStep ==
  /\ S!Next
  /\ UNCHANGED <<favVars, noteVars, keyVars, pageVars, throttleVars, uploadVars>>

FavoritesStep ==
  /\ F!Next
  /\ UNCHANGED <<settingsVars, noteVars, keyVars, pageVars, throttleVars, uploadVars>>

NotificationsStep ==
  /\ N!Next
  /\ UNCHANGED <<settingsVars, favVars, keyVars, pageVars, throttleVars, uploadVars>>

KeyFilesStep ==
  /\ K!Next
  /\ UNCHANGED <<settingsVars, favVars, noteVars, pageVars, throttleVars, uploadVars>>

PagingStep ==
  /\ P!Next
  /\ UNCHANGED <<settingsVars, favVars, noteVars, keyVars, throttleVars, uploadVars>>

AuthThrottleStep ==
  /\ T!Next
  /\ UNCHANGED <<settingsVars, favVars, noteVars, keyVars, pageVars, uploadVars>>

UploadsStep ==
  /\ U!Next
  /\ UNCHANGED <<settingsVars, favVars, noteVars, keyVars, pageVars, throttleVars>>

Next ==
  \/ SettingsStep \/ FavoritesStep \/ NotificationsStep \/ KeyFilesStep
  \/ PagingStep \/ AuthThrottleStep \/ UploadsStep

Spec == Init /\ [][Next]_vars

-----------------------------------------------------------------------------
(* The properties of the parts, explained in their modules *)

\* Every variable of every part holds a value of the shape the code gives it.
TypeOK ==
  S!TypeOK /\ F!TypeOK /\ N!TypeOK /\ K!TypeOK /\ P!TypeOK /\ T!TypeOK /\ U!TypeOK

\* Between two PATCHes the settings in memory, config.ini and the database in
\* use agree.
SettingsAgree == S!SettingsAgree

\* The database in use and that of the next start hold exactly the books that
\* were acknowledged, with their chunks.
DataFollows == S!DataFollows

\* The latest log entry about a favourite tells the truth.
ChangesLogged == F!ChangesLogged

\* A favourite is one of an existing book.
BooksKnown == F!BooksKnown

\* Requests for favourites never wait for each other in a circle.
SomeoneGoesOn == F!SomeoneGoesOn

\* Only real changes of a favourite are logged.
Alternate == F!Alternate

\* Favourites, their log and the books change together and one at a time.
ChangesRefined == F!ChangesRefined

\* A socket is in the table only while its endpoint receives.
NoGhosts == N!NoGhosts

\* A client that reads is in the table while its endpoint receives.
Reachable == N!Reachable

\* Every socket that was open when a request began to send has its message or
\* is out of the table when the request goes on.
Informed == N!Informed

\* Whoever has ended or waits for a second connection holds none.
NoLeak == N!NoLeak

\* A broken or slow client never ends the request that sends.
SendingGoesOn == N!SendingGoesOn

\* While the open sockets leave a connection free, every request is answered.
Served == N!Served

\* Keys that are whole belong together and accept the tokens signed before.
KeysAgree == K!KeysAgree

\* No row is on two pages.
NoneTwice == P!NoneTwice

\* No row that stayed where it was is on none of them.
NoneMissed == P!NoneMissed

\* A check counts exactly the failures within the window.
CountsTheWindow == T!CountsTheWindow

\* Overlapping requests push a key past its limit by less than their number.
OvershootBounded == T!OvershootBounded

\* The parser is never given more of a body than its limit.
WithinLimit == U!WithinLimit

\* A stored file is whole, within its limit and of an allowed type.
StoredWhole == U!StoredWhole

\* A file its policy allows is accepted, up to its last byte, if a form has
\* room for it.
AcceptedUpToLimit == U!AcceptedUpToLimit
=============================================================================
