------------------------------ MODULE KeyFiles ------------------------------
(***************************************************************************)
(* The pair of keys that signs and verifies access tokens: two files that  *)
(* the first start creates one after the other and every later start only  *)
(* reads (ensure_jwt_keys, run once while the application is imported).    *)
(* The process may be killed between the two writes and inside each.       *)
(***************************************************************************)
EXTENDS Naturals

CONSTANTS
  Pairs,    \* key pairs; a file or a token carries the name of its pair
  Missing,  \* no file
  Torn,     \* a file created by a write that did not finish
  None

\* What the values of the constants must satisfy.
Parameters ==
  {Missing, Torn, None} \cap Pairs = {} /\ None \notin {Missing, Torn} /\ Missing # Torn

Contents == Pairs \cup {Missing, Torn}

VARIABLES
  private,   \* jwt_private.pem
  public,    \* jwt_public.pem
  step,      \* what the process is doing
  draft,     \* the pair being written
  signing,   \* PRIVATE_KEY_PEM
  verifying, \* PUBLIC_KEY_PEM
  tokens     \* pairs that signed the access tokens which have not expired

vars == <<private, public, step, draft, signing, verifying, tokens>>

Init ==
  /\ private = Missing
  /\ public = Missing
  /\ step = "down"
  /\ draft = None
  /\ signing = None
  /\ verifying = None
  /\ tokens = {}

-----------------------------------------------------------------------------

Loaded(s, v) == step' = "up" /\ signing' = s /\ verifying' = v /\ draft' = None

\* Both files are there: they are read.
Read ==
  /\ step = "down"
  /\ private # Missing /\ public # Missing
  /\ Loaded(private, public)
  /\ UNCHANGED <<private, public, tokens>>

\* One of them is missing: a new pair.
Generate ==
  /\ step = "down"
  /\ private = Missing \/ public = Missing
  /\ \E k \in Pairs \ ({private, public} \cup tokens) : draft' = k
  /\ step' = "private"
  /\ UNCHANGED <<private, public, signing, verifying, tokens>>

WritePrivateOnce ==   \* fault: a private key that is there already is kept
  /\ step = "private"
  /\ private' = IF private = Missing THEN draft ELSE private
  /\ step' = "public"
  /\ UNCHANGED <<public, draft, signing, verifying, tokens>>

WritePrivate ==
  /\ step = "private"
  /\ private' = draft
  /\ step' = "public"
  /\ UNCHANGED <<public, draft, signing, verifying, tokens>>

WritePublic ==
  /\ step = "public"
  /\ public' = draft
  /\ Loaded(draft, draft)
  /\ UNCHANGED <<private, tokens>>

\* create_access_token; an empty key file signs nothing.
Sign ==
  /\ step = "up"
  /\ signing # Torn
  /\ tokens' = tokens \cup {signing}
  /\ UNCHANGED <<private, public, step, draft, signing, verifying>>

\* ACCESS_TOKEN_EXPIRE_MINUTES after it was signed.
Expire ==
  /\ \E k \in tokens : tokens' = tokens \ {k}
  /\ UNCHANGED <<private, public, step, draft, signing, verifying>>

\* The process ends, as it should or not; a file that is being written can be
\* left empty.
End ==
  /\ step' = "down"
  /\ draft' = None
  /\ signing' = None
  /\ verifying' = None
  /\ private' \in {private} \cup IF step = "private" THEN {Torn} ELSE {}
  /\ public' \in {public} \cup IF step = "public" THEN {Torn} ELSE {}
  /\ UNCHANGED tokens

Next == Read \/ Generate \/ WritePrivate \/ WritePublic \/ Sign \/ Expire \/ End

Spec == Init /\ [][Next]_vars

-----------------------------------------------------------------------------
(* Properties *)

\* Every variable holds a value of the shape the code gives it.
TypeOK ==
  /\ private \in Contents
  /\ public \in Contents
  /\ step \in {"down", "private", "public", "up"}
  /\ draft \in Pairs \cup {None}
  /\ signing \in Contents \cup {None}
  /\ verifying \in Contents \cup {None}
  /\ tokens \subseteq Pairs

\* However often the process is killed between the two writes, a process that
\* serves verifies what it signs, with the keys that the next start will read,
\* and accepts every token an earlier process signed.  Only a file left half
\* written breaks this: the next start takes it for a key.
KeysAgree ==
  (step = "up" /\ Torn \notin {private, public}) =>
    /\ private \in Pairs /\ public = private
    /\ signing = private /\ verifying = private
    /\ tokens \subseteq {verifying}
=============================================================================
