------------------------------ MODULE Accounts ------------------------------
(***************************************************************************)
(* User accounts and their sessions: signup, login and logout, and the     *)
(* routes by which administrators provision, disable, promote, demote and  *)
(* re-password accounts (internal/api/auth.go, middleware.go), with the    *)
(* administrator the API seeds when it starts (cmd/api/bootstrap.go).      *)
(*                                                                         *)
(* A request makes several accesses to the store, none of which is         *)
(* conditional on an earlier one and no two of which share a transaction;  *)
(* each is one action, so requests interleave between any two of them.     *)
(* Emails are unique: an account is identified by its email here.          *)
(***************************************************************************)
CONSTANTS
  Users,         \* emails
  Tokens,        \* session tokens, each used at most once
  Requests,      \* requests being served at the same time
  Passwords,
  SeedUser,      \* ADMIN_EMAIL
  SeedPassword,  \* ADMIN_PASSWORD
  PublicSignup,  \* ALLOW_PUBLIC_SIGNUP
  Reseeds,       \* TRUE: the seed is still configured when the API restarts
  Faults,        \* TRUE: a request may stop between two accesses
  NoUser, NoPassword

ASSUME SeedAssumption == SeedUser \in Users /\ SeedPassword \in Passwords
ASSUME SwitchesAssumption ==
  PublicSignup \in BOOLEAN /\ Reseeds \in BOOLEAN /\ Faults \in BOOLEAN
ASSUME NothingAssumption == NoUser \notin Users /\ NoPassword \notin Passwords

VARIABLES
  user,     \* the users table
  session,  \* the sessions table
  req       \* how far each request is, and what it has read

vars == <<user, session, req>>

AdminKinds == {"provision", "disable", "enable", "promote", "demote", "reset"}
Kinds == AdminKinds \union {"none", "login"}

UserRows == [present : BOOLEAN, admin : BOOLEAN, disabled : BOOLEAN,
             pw : Passwords \union {NoPassword}]

\* A session that has expired reads like one that was deleted.  pw and fresh are
\* history: the password its login was checked with, and whether that was still
\* the password of an enabled account when the session was inserted.
SessionRows == [status : {"unused", "live", "ended"}, user : Users \union {NoUser},
                pw : Passwords \union {NoPassword}, fresh : BOOLEAN]

\* actor is the account a request acts for, target the account it is about, row
\* the target as read, others the active administrators counted beside it.
RequestRows == [pc : {"idle", "opening", "authorized", "loaded", "checked", "revoking"},
                kind : Kinds, actor : Users \union {NoUser},
                target : Users \union {NoUser}, pw : Passwords \union {NoPassword},
                row : UserRows, others : SUBSET Users]

AbsentUser == [present |-> FALSE, admin |-> FALSE, disabled |-> FALSE, pw |-> NoPassword]
NewUser(admin, pw) == [present |-> TRUE, admin |-> admin, disabled |-> FALSE, pw |-> pw]
UnusedToken == [status |-> "unused", user |-> NoUser, pw |-> NoPassword, fresh |-> FALSE]
IdleRequest == [pc |-> "idle", kind |-> "none", actor |-> NoUser, target |-> NoUser,
                pw |-> NoPassword, row |-> AbsentUser, others |-> {}]

At(q, pc) == req[q].pc = pc
Target(q) == req[q].target
Kind(q, k) == req[q].kind = k
Done(q) == req' = [req EXCEPT ![q] = IdleRequest]

\* The store has been migrated and the API has seeded its administrator.
Init ==
  /\ user = [u \in Users |-> IF u = SeedUser THEN NewUser(TRUE, SeedPassword)
                             ELSE AbsentUser]
  /\ session = [t \in Tokens |-> UnusedToken]
  /\ req = [q \in Requests |-> IdleRequest]

\* ensureAdminSeed at a later start of the API: UpsertAdminUser makes the seed
\* account an enabled administrator with the configured password.
Reseed ==
  /\ Reseeds
  /\ user' = [user EXCEPT ![SeedUser] = NewUser(TRUE, SeedPassword)]
  /\ UNCHANGED <<session, req>>

-----------------------------------------------------------------------------
(* Sessions *)

\* handleSignup: CreateUser, then startSession.
Signup(q, u, pw) ==
  /\ PublicSignup /\ At(q, "idle")
  /\ ~user[u].present
  /\ user' = [user EXCEPT ![u] = NewUser(FALSE, pw)]
  /\ req' = [req EXCEPT ![q] = [IdleRequest EXCEPT
               !.pc = "opening", !.kind = "login", !.actor = u, !.pw = pw]]
  /\ UNCHANGED session

\* Mutant: no row is taken for an account without a password.
LoginUnknown(q, u) ==
  /\ At(q, "idle")
  /\ ~user[u].disabled
  /\ req' = [req EXCEPT ![q] = [IdleRequest EXCEPT
               !.pc = "opening", !.kind = "login", !.actor = u, !.pw = user[u].pw]]
  /\ UNCHANGED <<user, session>>

\* handleLogin with the right password: GetUserByEmail, then startSession.
Login(q, u) ==
  /\ At(q, "idle")
  /\ user[u].present /\ ~user[u].disabled
  /\ req' = [req EXCEPT ![q] = [IdleRequest EXCEPT
               !.pc = "opening", !.kind = "login", !.actor = u, !.pw = user[u].pw]]
  /\ UNCHANGED <<user, session>>

\* startSession
OpenSession(q, t) ==
  LET u == req[q].actor
  IN  /\ At(q, "opening")
      /\ session[t].status = "unused"
      /\ session' = [session EXCEPT ![t] =
           [status |-> "live", user |-> u, pw |-> req[q].pw,
            fresh |-> req[q].pw = user[u].pw /\ ~user[u].disabled]]
      /\ Done(q)
      /\ UNCHANGED user

\* handleLogout, or the session's expires_at has passed.
EndSession(t) ==
  /\ session[t].status = "live"
  /\ session' = [session EXCEPT ![t].status = "ended"]
  /\ UNCHANGED <<user, req>>

-----------------------------------------------------------------------------
(* Administration of accounts *)

\* What a request of a kind brings along.
PasswordsFor(kind) == IF kind \in {"provision", "reset"} THEN Passwords ELSE {NoPassword}

\* withAuth reads the session joined with its user, and the handlers of
\* /api/admin/users insist on an administrator.
Authorize(q, t, kind, target, pw) ==
  LET actor == session[t].user
  IN  /\ At(q, "idle")
      /\ session[t].status = "live"
      /\ ~user[actor].disabled /\ user[actor].admin
      /\ req' = [req EXCEPT ![q] = [IdleRequest EXCEPT
                   !.pc = "authorized", !.kind = kind, !.actor = actor,
                   !.target = target, !.pw = pw]]
      /\ UNCHANGED <<user, session>>

\* POST /api/admin/users: CreateUser fails on an email that is taken.
Provision(q, admin) ==
  /\ At(q, "authorized") /\ Kind(q, "provision")
  /\ user' = IF user[Target(q)].present THEN user
             ELSE [user EXCEPT ![Target(q)] = NewUser(admin, req[q].pw)]
  /\ Done(q)
  /\ UNCHANGED session

\* Disabling or demoting an administrator is subject to a count.
NeedsCount(kind, row) == row.admin /\ kind \in {"disable", "demote"}

\* GetUserByID and the checks before the count: the account exists, and is not
\* disabled by itself.
LoadTarget(q) ==
  LET row     == user[Target(q)]
      refused == ~row.present \/ (Kind(q, "disable") /\ Target(q) = req[q].actor)
  IN  /\ At(q, "authorized") /\ ~Kind(q, "provision")
      /\ req' = [req EXCEPT ![q] =
           IF refused THEN IdleRequest
           ELSE [@ EXCEPT !.row = row, !.pc =
                   IF NeedsCount(req[q].kind, row) THEN "loaded" ELSE "checked"]]
      /\ UNCHANGED <<user, session>>

IsActiveAdmin(row) == row.present /\ row.admin /\ ~row.disabled
ActiveAdmins == {u \in Users : IsActiveAdmin(user[u])}
OtherAdmins(q) == ActiveAdmins \ {Target(q)}

\* Mutant: the count includes the account about to lose its rights.
CountAdminsAll(q) ==
  LET refused == ActiveAdmins = {} \/ (Kind(q, "demote") /\ Target(q) = req[q].actor)
  IN  /\ At(q, "loaded")
      /\ req' = [req EXCEPT ![q] =
           IF refused THEN IdleRequest
           ELSE [@ EXCEPT !.pc = "checked", !.others = OtherAdmins(q)]]
      /\ UNCHANGED <<user, session>>

\* ListUsers and the count of the other active administrators; an administrator
\* does not demote itself.
CountAdmins(q) ==
  LET refused == OtherAdmins(q) = {} \/ (Kind(q, "demote") /\ Target(q) = req[q].actor)
  IN  /\ At(q, "loaded")
      /\ req' = [req EXCEPT ![q] =
           IF refused THEN IdleRequest
           ELSE [@ EXCEPT !.pc = "checked", !.others = OtherAdmins(q)]]
      /\ UNCHANGED <<user, session>>

\* The row after SetUserDisabled, SetUserAdmin or SetUserPassword, each of which
\* updates its own columns of the row as it is now.
Updated(q, row) ==
  CASE Kind(q, "disable") -> [row EXCEPT !.disabled = TRUE]
    [] Kind(q, "enable")  -> [row EXCEPT !.disabled = FALSE]
    [] Kind(q, "promote") -> [row EXCEPT !.admin = TRUE]
    [] Kind(q, "demote")  -> [row EXCEPT !.admin = FALSE]
    [] Kind(q, "reset")   -> [row EXCEPT !.pw = req[q].pw]

\* Mutant: a new password leaves the sessions alone.
UpdateTargetKeepingSessions(q) ==
  /\ At(q, "checked")
  /\ user' = [user EXCEPT ![Target(q)] = Updated(q, @)]
  /\ IF Kind(q, "disable") THEN req' = [req EXCEPT ![q].pc = "revoking"] ELSE Done(q)
  /\ UNCHANGED session

\* The write; a disabled account and a new password also lose their sessions.
UpdateTarget(q) ==
  /\ At(q, "checked")
  /\ user' = [user EXCEPT ![Target(q)] = Updated(q, @)]
  /\ IF req[q].kind \in {"disable", "reset"}
     THEN req' = [req EXCEPT ![q].pc = "revoking"]
     ELSE Done(q)
  /\ UNCHANGED session

\* DeleteSessionsByUserID
RevokeSessions(q) ==
  /\ At(q, "revoking")
  /\ session' = [t \in Tokens |->
       IF session[t].status = "live" /\ session[t].user = Target(q)
       THEN [session[t] EXCEPT !.status = "ended"] ELSE session[t]]
  /\ Done(q)
  /\ UNCHANGED user

\* A database error, a cancelled request, or the end of the API process.
Abandon(q) ==
  /\ Faults /\ ~At(q, "idle")
  /\ Done(q)
  /\ UNCHANGED <<user, session>>

Step(q) ==
  \/ \E u \in Users, pw \in Passwords : Signup(q, u, pw)
  \/ \E u \in Users : Login(q, u)
  \/ \E t \in Tokens : OpenSession(q, t)
  \/ \E t \in Tokens, kind \in AdminKinds, u \in Users :
       \E pw \in PasswordsFor(kind) : Authorize(q, t, kind, u, pw)
  \/ \E admin \in BOOLEAN : Provision(q, admin)
  \/ LoadTarget(q) \/ CountAdmins(q) \/ UpdateTarget(q) \/ RevokeSessions(q)
  \/ Abandon(q)

Next ==
  \/ Reseed
  \/ \E t \in Tokens : EndSession(t)
  \/ \E q \in Requests : Step(q)

Spec == Init /\ [][Next]_vars

-----------------------------------------------------------------------------
(* Properties *)

\* Every variable has the shape the code gives it, an account has a password,
\* and a session an account: the sessions table has no foreign key.
TypeOK ==
  /\ user \in [Users -> UserRows]
  /\ session \in [Tokens -> SessionRows]
  /\ req \in [Requests -> RequestRows]
  /\ \A u \in Users : user[u].present => user[u].pw # NoPassword
  /\ \A t \in Tokens : session[t].status # "unused" =>
       session[t].user \in Users /\ user[session[t].user].present

\* The last active administrator loses its rights only when requests race: the
\* request that takes them has read the account, or counted the others, before
\* another request changed them.  In particular a request whose own
\* administrator was disabled meanwhile cannot finish the job (the "disable" and
\* "role" branches of handleAdminUserRoute).
LastAdminLostOnlyInRaces ==
  [][ActiveAdmins # {} /\ ActiveAdmins' = {} =>
       \E q \in Requests :
         /\ At(q, "checked")
         /\ \/ req[q].row # user[Target(q)]
            \/ req[q].others # OtherAdmins(q)]_vars

\* A session of a disabled account, or one opened with a password that has been
\* reset since, is gone unless the request that changed the account is about to
\* delete it.  Logins that were overtaken by the change are exempt: their
\* session is inserted after it (see fresh), as are changes by a reseed.
OutdatedSessionsEnd ==
  \A t \in Tokens :
    LET u == session[t].user IN
    /\ session[t].status = "live" /\ session[t].fresh
    /\ (session[t].pw # user[u].pw \/ user[u].disabled)
    => \E q \in Requests : At(q, "revoking") /\ Target(q) = u

\* docs/api-spec.md:72 and :94: the last active admin cannot be disabled or
\* demoted.
LastAdminStays == [][ActiveAdmins # {} => ActiveAdmins' # {}]_vars
=============================================================================
