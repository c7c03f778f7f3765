----------------------------- MODULE AuthThrottle -----------------------------
(***************************************************************************)
(* The throttle of failed logins and refreshes: AuthThrottle, and the way  *)
(* UserService.login and UserService.refresh use it.  A request checks two *)
(* keys, its target (the e-mail address or the token) and its client's     *)
(* address, awaits the answer of the database, and then records a failure  *)
(* under both keys or clears the target.                                   *)
(*                                                                         *)
(* The requests share one AuthThrottle here, as services that are given    *)
(* one do; get_user_service gives none, so in the application each request *)
(* has one of its own.                                                     *)
(***************************************************************************)
EXTENDS Naturals, Sequences, FiniteSets

CONSTANTS
  Targets,
  Addresses,
  Requests,   \* requests the server runs at the same time
  Limit,      \* Limit[k]: LOGIN_TARGET_LIMIT, LOGIN_IP_LIMIT, ...
  Window,     \* AUTH_THROTTLE_WINDOW
  None

Keys == Targets \cup Addresses

\* What the values of the constants must satisfy.
Parameters ==
  /\ Targets \cap Addresses = {} /\ None \notin Keys
  /\ Limit \in [Keys -> Nat \ {0}]
  /\ Window \in Nat \ {0}
  /\ IsFiniteSet(Requests)

Tx == [target : Targets \cup {None}, address : Addresses \cup {None}]

Idle == [target |-> None, address |-> None]

\* A time on the monotonic clock is kept as its age.  Ages of a window and
\* more are all the same (bound).
Ages == 0 .. Window

VARIABLES
  attempts,  \* attempts[k]: _attempts[k], oldest first; <<>>: no entry
  waiting,   \* waiting[r]: the keys request r checked before its await
  failures   \* failures[k][a]: failures of age a or less, for a target since its last success

vars == <<attempts, waiting, failures>>

Init ==
  /\ attempts = [k \in Keys |-> <<>>]
  /\ waiting = [r \in Requests |-> Idle]
  /\ failures = [k \in Keys |-> [a \in 0 .. Window - 1 |-> 0]]

-----------------------------------------------------------------------------
(* AuthThrottle *)

\* _prune takes the failures from the left until one is young enough.
PruneLate(k) ==   \* fault: a failure exactly one window old counts
  attempts[k]

\* The place in s, oldest first, where the failures begin that still count.
FirstLive(s) ==
  CHOOSE n \in 1 .. Len(s) + 1 : /\ \A i \in 1 .. n - 1 : s[i] >= Window
                                 /\ n <= Len(s) => s[n] < Window

Prune(k) == SubSeq(attempts[k], FirstLive(attempts[k]), Len(attempts[k]))

\* check
Blocked(k) == Len(Prune(k)) >= Limit[k]

\* record_failure
Recorded(k) == Append(Prune(k), 0)

-----------------------------------------------------------------------------
(* Requests *)

\* Time passes.
Tick ==
  /\ attempts' = [k \in Keys |-> [n \in DOMAIN attempts[k] |->
                     IF attempts[k][n] < Window THEN attempts[k][n] + 1 ELSE Window]]
  /\ failures' = [k \in Keys |-> [a \in 0 .. Window - 1 |->
                     IF a = 0 THEN 0 ELSE failures[k][a - 1]]]
  /\ UNCHANGED waiting

\* login and refresh up to their first await: the address is looked at only
\* when the target is not blocked.
SeenTargets(k, a) == {k}   \* fault: only the target is checked

Seen(k, a) == IF Blocked(k) THEN {k} ELSE {k, a}

Check(r) ==
  /\ waiting[r] = Idle
  /\ \E k \in Targets, a \in Addresses :
       /\ attempts' = [x \in Keys |-> IF x \in Seen(k, a) THEN Prune(x) ELSE attempts[x]]
       /\ waiting' = IF \E x \in Seen(k, a) : Blocked(x)
                     THEN waiting
                     ELSE [waiting EXCEPT ![r] = [target |-> k, address |-> a]]
  /\ UNCHANGED failures

Answered(r) ==
  /\ waiting[r] # Idle
  /\ waiting' = [waiting EXCEPT ![r] = Idle]

\* No such user, a wrong password, a token that is unknown or has expired.
Failure(r) ==
  /\ Answered(r)
  /\ LET keys == {waiting[r].target, waiting[r].address}
     IN /\ attempts' = [k \in Keys |-> IF k \in keys THEN Recorded(k) ELSE attempts[k]]
        /\ failures' = [k \in Keys |-> IF k \in keys THEN [a \in 0 .. Window - 1 |-> failures[k][a] + 1]
                                                     ELSE failures[k]]

Forgotten(k) == failures' = [failures EXCEPT ![k] = [a \in 0 .. Window - 1 |-> 0]]

\* clear
Success(r) ==
  /\ Answered(r)
  /\ attempts' = [attempts EXCEPT ![waiting[r].target] = <<>>]
  /\ Forgotten(waiting[r].target)

\* The database fails: neither of them.
Error(r) ==
  /\ Answered(r)
  /\ UNCHANGED <<attempts, failures>>

\* The table does not outlive the process.
Restart ==
  /\ attempts' = [k \in Keys |-> <<>>]
  /\ waiting' = [r \in Requests |-> Idle]
  /\ failures' = [k \in Keys |-> [a \in 0 .. Window - 1 |-> 0]]

Serve == Tick \/ \E r \in Requests : Check(r) \/ Failure(r) \/ Success(r) \/ Error(r)

Next == Serve \/ Restart

Spec == Init /\ [][Next]_vars

-----------------------------------------------------------------------------
(* Properties *)

Recent(k) == failures[k][Window - 1]

Awaited(k) == Cardinality({r \in Requests : k \in {waiting[r].target, waiting[r].address}})

\* Every variable holds a value of the shape the code gives it.
TypeOK ==
  /\ attempts \in [Keys -> Seq(Ages)]
  /\ waiting \in [Requests -> Tx]
  /\ failures \in [Keys -> [0 .. Window - 1 -> Nat]]

\* A check turns a request away exactly if its key has failed Limit times
\* within the last window, for a target since the last success: whatever
\* requests overlap, none of their failures is lost, counted twice or kept
\* too long.
CountsTheWindow == \A k \in Keys : Blocked(k) <=> Recent(k) >= Limit[k]

\* Requests that passed their check before the limit was reached can still
\* fail, but not more of them than run at the same time.
OvershootBounded ==
  \A k \in Keys : Recent(k) + Awaited(k) < Limit[k] + Cardinality(Requests)
=============================================================================
