----------------------------- MODULE MCAccounts -----------------------------
(***************************************************************************)
(* Instances of Accounts for TLC: a few rows, sessions and passwords.      *)
(***************************************************************************)
EXTENDS Accounts, TLC

CONSTANTS u1, u2, u3, e1, e2, e3, p1, p2, s1, s2, s3, s4, r1, r2

row(e, p, role, sid) == [email |-> e, pw |-> p, role |-> role, session |-> sid]

\* A fresh installation: create_initial_admin made the only user, who has
\* logged in.  INITIAL_ADMIN_EMAIL was set to the address add_user looks for;
\* with any other there is no default user to remove.
Bootstrap == (u1 :> row(DefaultEmail, p1, "admin", s1)) @@ [u \in Users |-> None]

\* Two administrators at work; nobody has the email of the default user.
TwoAdmins ==
  (u1 :> row(e2, p1, "admin", s1)) @@ (u2 :> row(e3, p1, "admin", s2)) @@ [u \in Users |-> None]

\* An administrator who is signed in and a plain user who is not.
AdminAndUser ==
  (u1 :> row(e1, p1, "admin", s1)) @@ (u2 :> row(e2, p1, "user", None)) @@ [u \in Users |-> None]

Symmetry == Permutations(Requests) \cup Permutations(Sids \ {s1, s2})

ask(e, p, role) == [email |-> e, pw |-> p, role |-> role]

\* One payload per kind of update.
UpdatePayloads == {ask(e3, None, None), ask(None, p2, None), ask(None, None, "admin")}

\* A new email, and demotion.
RolePayloads == {ask(e3, None, None), ask(None, None, "user")}

\* Demotion, and new users of either role.  None is given the default email.
AddPayloads == {ask(None, None, "user"), ask(e2, p1, "admin"), ask(e3, p1, "user")}

TwoAdminsTables == {TwoAdmins}
StartTables == {Bootstrap, TwoAdmins}
AdminAndUserTables == {AdminAndUser}
=============================================================================
