--------------------------- MODULE AccountsProofs ---------------------------
(* Proofs about Accounts, for every number of accounts, sessions and requests. *)
EXTENDS Accounts, TLAPS

-----------------------------------------------------------------------------
(* Type correctness *)

\* What a request has established stays true until it uses it: accounts are
\* never deleted, and its kind and operands are its own.
RequestInv(q) ==
  /\ At(q, "opening") => req[q].actor \in Users /\ user[req[q].actor].present
                         /\ req[q].pw \in Passwords
  /\ req[q].pc \in {"authorized", "loaded", "checked", "revoking"} =>
       Target(q) \in Users /\ req[q].kind \in AdminKinds
       /\ req[q].pw \in PasswordsFor(req[q].kind)
  /\ req[q].pc \in {"loaded", "checked"} =>
       ~Kind(q, "provision") /\ user[Target(q)].present
  /\ At(q, "checked") /\ NeedsCount(req[q].kind, req[q].row) => req[q].others # {}

AccountsInv == TypeOK /\ \A q \in Requests : RequestInv(q)

LEMMA IdleRequestType == IdleRequest \in RequestRows
BY DEF IdleRequest, RequestRows, Kinds, UserRows, AbsentUser

LEMMA InitAccounts == Init => AccountsInv
<1>. SUFFICES ASSUME Init PROVE AccountsInv
  OBVIOUS
<1>1. NewUser(TRUE, SeedPassword) \in UserRows /\ AbsentUser \in UserRows
  BY SeedAssumption DEF NewUser, AbsentUser, UserRows
<1>2. user \in [Users -> UserRows]
  BY <1>1 DEF Init
<1>3. \A u \in Users : user[u].present => user[u].pw # NoPassword
  BY SeedAssumption, NothingAssumption DEF Init, NewUser, AbsentUser
<1>4. session \in [Tokens -> SessionRows] /\ \A t \in Tokens : session[t].status = "unused"
  BY DEF Init, UnusedToken, SessionRows
<1>5. req \in [Requests -> RequestRows] /\ \A q \in Requests : RequestInv(q)
  BY IdleRequestType DEF Init, RequestInv, At, IdleRequest
<1>. QED BY <1>2, <1>3, <1>4, <1>5 DEF AccountsInv, TypeOK

\* A step of one request that keeps every account, and leaves sessions with
\* accounts, keeps the invariant if its own state is right.
LEMMA RequestKeepsInv ==
  ASSUME AccountsInv, NEW q \in Requests, NEW state \in RequestRows,
         req' = [req EXCEPT ![q] = state],
         user' \in [Users -> UserRows], session' \in [Tokens -> SessionRows],
         \A u \in Users : user[u].present => user'[u].present,
         \A u \in Users : user'[u].present => user'[u].pw # NoPassword,
         \A t \in Tokens : session'[t].status # "unused" =>
           session'[t].user \in Users /\ user'[session'[t].user].present,
         RequestInv(q)'
  PROVE  AccountsInv'
<1>1. req' \in [Requests -> RequestRows]
  BY DEF AccountsInv, TypeOK
<1>2. ASSUME NEW p \in Requests, p # q PROVE RequestInv(p)'
  <2>1. req'[p] = req[p] /\ RequestInv(p)
    BY <1>2 DEF AccountsInv, TypeOK
  <2>. QED BY <2>1 DEF RequestInv, At, Kind, Target
<1>. QED BY <1>1, <1>2 DEF AccountsInv, TypeOK

\* A request that ends has nothing left to establish.
LEMMA DoneKeepsInv ==
  ASSUME AccountsInv, NEW q \in Requests, Done(q),
         user' \in [Users -> UserRows], session' \in [Tokens -> SessionRows],
         \A u \in Users : user[u].present => user'[u].present,
         \A u \in Users : user'[u].present => user'[u].pw # NoPassword,
         \A t \in Tokens : session'[t].status # "unused" =>
           session'[t].user \in Users /\ user'[session'[t].user].present
  PROVE  AccountsInv'
<1>1. req'[q] = IdleRequest
  BY DEF Done, AccountsInv, TypeOK
<1>2. RequestInv(q)'
  BY <1>1 DEF RequestInv, At, IdleRequest
<1>. QED BY <1>2, IdleRequestType, RequestKeepsInv DEF Done

LEMMA SessionStepsKeepInv ==
  ASSUME AccountsInv, NEW q \in Requests,
         \/ \E u \in Users, pw \in Passwords : Signup(q, u, pw)
         \/ \E u \in Users : Login(q, u)
         \/ \E t \in Tokens : OpenSession(q, t)
  PROVE  AccountsInv'
<1>. USE DEF AccountsInv, TypeOK
<1>1. ASSUME NEW u \in Users, NEW pw \in Passwords, Signup(q, u, pw) PROVE AccountsInv'
  <2>. DEFINE state == [IdleRequest EXCEPT !.pc = "opening", !.kind = "login",
                                           !.actor = u, !.pw = pw]
  <2>1. /\ state \in RequestRows /\ state.pc = "opening" /\ state.actor = u
        /\ state.pw = pw
    BY IdleRequestType DEF RequestRows, Kinds, IdleRequest
  <2>2. NewUser(FALSE, pw) \in UserRows /\ NewUser(FALSE, pw).present
        /\ NewUser(FALSE, pw).pw # NoPassword
    BY NothingAssumption DEF NewUser, UserRows
  <2>3. req' = [req EXCEPT ![q] = state] /\ req'[q] = state
        /\ user' = [user EXCEPT ![u] = NewUser(FALSE, pw)] /\ UNCHANGED session
    BY <1>1 DEF Signup
  <2>. HIDE DEF state
  <2>4. RequestInv(q)'
    BY <2>1, <2>2, <2>3 DEF RequestInv, At
  <2>. QED BY <2>1, <2>2, <2>3, <2>4, RequestKeepsInv
<1>2. ASSUME NEW u \in Users, Login(q, u) PROVE AccountsInv'
  <2>. DEFINE state == [IdleRequest EXCEPT !.pc = "opening", !.kind = "login",
                                           !.actor = u, !.pw = user[u].pw]
  <2>0. user[u].pw \in Passwords
    BY <1>2 DEF Login, UserRows
  <2>1. /\ state \in RequestRows /\ state.pc = "opening" /\ state.actor = u
        /\ state.pw \in Passwords
    BY <2>0, IdleRequestType DEF RequestRows, Kinds, IdleRequest
  <2>2. req' = [req EXCEPT ![q] = state] /\ req'[q] = state
        /\ user[u].present /\ UNCHANGED <<user, session>>
    BY <1>2 DEF Login
  <2>. HIDE DEF state
  <2>3. RequestInv(q)'
    BY <2>1, <2>2 DEF RequestInv, At
  <2>. QED BY <2>1, <2>2, <2>3, RequestKeepsInv
<1>3. ASSUME NEW t \in Tokens, OpenSession(q, t) PROVE AccountsInv'
  <2>1. req[q].actor \in Users /\ user[req[q].actor].present /\ req[q].pw \in Passwords
    BY <1>3 DEF OpenSession, RequestInv
  <2>2. session' \in [Tokens -> SessionRows]
    BY <1>3, <2>1 DEF OpenSession, SessionRows
  <2>3. \A s \in Tokens : session'[s].status # "unused" =>
          session'[s].user \in Users /\ user'[session'[s].user].present
    BY <1>3, <2>1 DEF OpenSession
  <2>. QED BY <1>3, <2>2, <2>3, DoneKeepsInv DEF OpenSession
<1>. QED BY <1>1, <1>2, <1>3

LEMMA AdminStepsKeepInv ==
  ASSUME AccountsInv, NEW q \in Requests,
         \/ \E t \in Tokens, kind \in AdminKinds, u \in Users :
              \E pw \in PasswordsFor(kind) : Authorize(q, t, kind, u, pw)
         \/ \E admin \in BOOLEAN : Provision(q, admin)
         \/ LoadTarget(q) \/ CountAdmins(q) \/ UpdateTarget(q) \/ RevokeSessions(q)
  PROVE  AccountsInv'
<1>. USE DEF AccountsInv, TypeOK
<1>0. RequestInv(q) /\ req[q] \in RequestRows
  OBVIOUS
<1>1. ASSUME NEW t \in Tokens, NEW kind \in AdminKinds, NEW u \in Users,
             NEW pw \in PasswordsFor(kind), Authorize(q, t, kind, u, pw)
      PROVE  AccountsInv'
  <2>. DEFINE state == [IdleRequest EXCEPT !.pc = "authorized", !.kind = kind,
                          !.actor = session[t].user, !.target = u, !.pw = pw]
  <2>1. pw \in Passwords \union {NoPassword}
    BY DEF PasswordsFor
  <2>2. session[t].user \in Users
    BY <1>1 DEF Authorize
  <2>3. /\ state \in RequestRows /\ state.pc = "authorized" /\ state.target = u
        /\ state.kind = kind /\ state.pw = pw
    BY <2>1, <2>2, IdleRequestType DEF RequestRows, Kinds, IdleRequest
  <2>4. req' = [req EXCEPT ![q] = state] /\ req'[q] = state /\ UNCHANGED <<user, session>>
    BY <1>1 DEF Authorize
  <2>. HIDE DEF state
  <2>5. RequestInv(q)'
    BY <2>3, <2>4 DEF RequestInv, At, Target
  <2>. QED BY <2>3, <2>4, <2>5, RequestKeepsInv
<1>2. ASSUME NEW admin \in BOOLEAN, Provision(q, admin) PROVE AccountsInv'
  <2>1. Target(q) \in Users /\ req[q].pw \in Passwords
    BY <1>0, <1>2 DEF Provision, RequestInv, At, Kind, PasswordsFor
  <2>2. NewUser(admin, req[q].pw) \in UserRows /\ NewUser(admin, req[q].pw).present
        /\ NewUser(admin, req[q].pw).pw # NoPassword
    BY <2>1, NothingAssumption DEF NewUser, UserRows
  <2>3. /\ Done(q) /\ UNCHANGED session
        /\ user' = user \/ user' = [user EXCEPT ![Target(q)] = NewUser(admin, req[q].pw)]
    BY <1>2 DEF Provision
  <2>. HIDE DEF Target
  <2>. QED BY <2>1, <2>2, <2>3, DoneKeepsInv
<1>3. ASSUME LoadTarget(q) PROVE AccountsInv'
  <2>1. CASE Done(q)
    BY <1>3, <2>1, DoneKeepsInv DEF LoadTarget
  <2>2. CASE ~Done(q)
    <3>. DEFINE state == [req[q] EXCEPT !.row = user[Target(q)], !.pc =
                  IF NeedsCount(req[q].kind, user[Target(q)]) THEN "loaded" ELSE "checked"]
    <3>1. /\ req' = [req EXCEPT ![q] = state] /\ user[Target(q)].present
          /\ ~Kind(q, "provision") /\ UNCHANGED <<user, session>>
      BY <1>3, <2>2 DEF LoadTarget, Done
    <3>2. Target(q) \in Users /\ req[q].kind \in AdminKinds
          /\ req[q].pw \in PasswordsFor(req[q].kind)
      BY <1>0, <1>3 DEF LoadTarget, RequestInv, At
    <3>3. /\ state \in RequestRows /\ state.target = Target(q) /\ state.kind = req[q].kind
          /\ state.pw = req[q].pw /\ state.pc \in {"loaded", "checked"}
          /\ state.pc = "checked" => ~NeedsCount(state.kind, state.row)
      BY <1>0, <3>2 DEF RequestRows, Target
    <3>. HIDE DEF state
    <3>4. RequestInv(q)'
      BY <3>1, <3>2, <3>3 DEF RequestInv, At, Target, Kind
    <3>. QED BY <3>1, <3>3, <3>4, RequestKeepsInv
  <2>. QED BY <2>1, <2>2
<1>4. ASSUME CountAdmins(q) PROVE AccountsInv'
  <2>1. CASE Done(q)
    BY <1>4, <2>1, DoneKeepsInv DEF CountAdmins
  <2>2. CASE ~Done(q)
    <3>. DEFINE state == [req[q] EXCEPT !.pc = "checked", !.others = OtherAdmins(q)]
    <3>1. /\ req' = [req EXCEPT ![q] = state] /\ OtherAdmins(q) # {} /\ At(q, "loaded")
          /\ UNCHANGED <<user, session>>
      BY <1>4, <2>2 DEF CountAdmins, Done
    <3>2. OtherAdmins(q) \in SUBSET Users
      BY DEF OtherAdmins, ActiveAdmins
    <3>3. /\ state \in RequestRows /\ state.target = Target(q) /\ state.kind = req[q].kind
          /\ state.pw = req[q].pw /\ state.pc = "checked" /\ state.others # {}
      BY <1>0, <3>1, <3>2 DEF RequestRows, Target
    <3>. HIDE DEF state
    <3>4. RequestInv(q)'
      BY <1>0, <3>1, <3>3 DEF RequestInv, At, Target, Kind
    <3>. QED BY <3>1, <3>3, <3>4, RequestKeepsInv
  <2>. QED BY <2>1, <2>2
<1>5. ASSUME UpdateTarget(q) PROVE AccountsInv'
  <2>1. /\ Target(q) \in Users /\ req[q].kind \in AdminKinds \ {"provision"}
        /\ req[q].pw \in PasswordsFor(req[q].kind) /\ user[Target(q)].present
    BY <1>0, <1>5 DEF UpdateTarget, RequestInv, At, Kind
  <2>. DEFINE row == Updated(q, user[Target(q)])
  <2>2. row \in UserRows /\ row.present /\ row.pw # NoPassword
    BY <2>1, NothingAssumption DEF Updated, UserRows, AdminKinds, PasswordsFor, Kind
  <2>3. user' = [user EXCEPT ![Target(q)] = row] /\ UNCHANGED session
    BY <1>5, <2>1 DEF UpdateTarget
  <2>. HIDE DEF row, Target
  <2>4. CASE Done(q)
    BY <2>1, <2>2, <2>3, <2>4, DoneKeepsInv
  <2>5. CASE ~Done(q)
    <3>. DEFINE state == [req[q] EXCEPT !.pc = "revoking"]
    <3>1. req' = [req EXCEPT ![q] = state]
      BY <1>5, <2>5 DEF UpdateTarget
    <3>2. /\ state \in RequestRows /\ state.target = Target(q) /\ state.kind = req[q].kind
          /\ state.pw = req[q].pw /\ state.pc = "revoking"
      BY <1>0 DEF RequestRows, Target
    <3>. HIDE DEF state
    <3>3. RequestInv(q)'
      BY <2>1, <3>1, <3>2 DEF RequestInv, At, Target
    <3>. QED BY <2>1, <2>2, <2>3, <3>1, <3>2, <3>3, RequestKeepsInv
  <2>. QED BY <2>4, <2>5
<1>6. ASSUME RevokeSessions(q) PROVE AccountsInv'
  <2>1. session' \in [Tokens -> SessionRows]
        /\ \A t \in Tokens : /\ session'[t].user = session[t].user
                             /\ session'[t].status = "unused" <=> session[t].status = "unused"
    BY <1>6 DEF RevokeSessions, SessionRows
  <2>. QED BY <1>6, <2>1, DoneKeepsInv DEF RevokeSessions
<1>. QED BY <1>1, <1>2, <1>3, <1>4, <1>5, <1>6

LEMMA NextKeepsInv == AccountsInv /\ [Next]_vars => AccountsInv'
<1>. SUFFICES ASSUME AccountsInv, [Next]_vars PROVE AccountsInv'
  OBVIOUS
<1>1. CASE Reseed
  <2>1. NewUser(TRUE, SeedPassword) \in UserRows /\ NewUser(TRUE, SeedPassword).present
        /\ NewUser(TRUE, SeedPassword).pw # NoPassword
    BY SeedAssumption, NothingAssumption DEF NewUser, UserRows
  <2>2. TypeOK'
    BY <1>1, <2>1, SeedAssumption DEF Reseed, AccountsInv, TypeOK
  <2>3. ASSUME NEW q \in Requests PROVE RequestInv(q)'
    <3>1. RequestInv(q) /\ req'[q] = req[q]
      BY <1>1 DEF AccountsInv, Reseed
    <3>2. \A u \in Users : user[u].present => user'[u].present
      BY <1>1, <2>1 DEF Reseed, AccountsInv, TypeOK
    <3>. QED BY <3>1, <3>2 DEF RequestInv, At, Kind, Target
  <2>. QED BY <2>2, <2>3 DEF AccountsInv
<1>2. ASSUME NEW t \in Tokens, EndSession(t) PROVE AccountsInv'
  <2>1. TypeOK'
    BY <1>2 DEF EndSession, AccountsInv, TypeOK, SessionRows
  <2>. QED BY <1>2, <2>1 DEF EndSession, AccountsInv, RequestInv, At, Kind, Target
<1>3. ASSUME NEW q \in Requests, Abandon(q) PROVE AccountsInv'
  BY <1>3, DoneKeepsInv DEF Abandon, AccountsInv, TypeOK
<1>4. CASE UNCHANGED vars
  BY <1>4 DEF vars, AccountsInv, TypeOK, RequestInv, At, Kind, Target
<1>. QED BY <1>1, <1>2, <1>3, <1>4, SessionStepsKeepInv, AdminStepsKeepInv DEF Next, Step

LEMMA AccountsInvariant == Spec => []AccountsInv
BY InitAccounts, NextKeepsInv, PTL DEF Spec

\* Types, passwords and the owners of sessions are right at all times, for every
\* number of accounts, sessions and concurrent requests, with restarts and
\* requests that stop half way.
THEOREM AccountTypes == Spec => []TypeOK
<1>1. AccountsInv => TypeOK
  BY DEF AccountsInv
<1>. QED BY <1>1, AccountsInvariant, PTL

-----------------------------------------------------------------------------
(* The last administrator *)

\* A request that changes an account it has read as it is, beside others it has
\* counted as they are, leaves an administrator.
LEMMA InformedUpdateLeavesAdmin ==
  ASSUME AccountsInv, NEW q \in Requests, UpdateTarget(q), ActiveAdmins # {},
         req[q].row = user[Target(q)], req[q].others = OtherAdmins(q)
  PROVE  ActiveAdmins' # {}
<1>. DEFINE u == Target(q)
<1>1. /\ u \in Users /\ req[q].kind \in AdminKinds \ {"provision"}
      /\ NeedsCount(req[q].kind, req[q].row) => req[q].others # {}
      /\ user[u] \in UserRows
  BY DEF AccountsInv, TypeOK, RequestInv, UpdateTarget, At, Kind
<1>2. user' = [user EXCEPT ![u] = Updated(q, user[u])] /\ user \in [Users -> UserRows]
  BY DEF UpdateTarget, AccountsInv, TypeOK
<1>3. CASE OtherAdmins(q) # {}
  <2>1. PICK v \in Users : v # u /\ IsActiveAdmin(user[v])
    BY <1>3 DEF OtherAdmins, ActiveAdmins
  <2>2. user'[v] = user[v]
    BY <1>2, <2>1
  <2>. QED BY <2>1, <2>2 DEF ActiveAdmins
<1>4. CASE OtherAdmins(q) = {}
  <2>1. IsActiveAdmin(user[u]) /\ ~NeedsCount(req[q].kind, user[u])
    BY <1>1, <1>4 DEF OtherAdmins, ActiveAdmins
  <2>2. IsActiveAdmin(Updated(q, user[u]))
    BY <1>1, <2>1 DEF IsActiveAdmin, NeedsCount, Updated, Kind, AdminKinds, UserRows
  <2>3. user'[u] = Updated(q, user[u])
    BY <1>1, <1>2
  <2>. QED BY <1>1, <2>2, <2>3 DEF ActiveAdmins
<1>. QED BY <1>3, <1>4

\* Every other step keeps the active administrators there are.
LEMMA OtherStepsKeepAdmins ==
  ASSUME AccountsInv, [Next]_vars, \A q \in Requests : ~UpdateTarget(q),
         ActiveAdmins # {}
  PROVE  ActiveAdmins' # {}
<1>. SUFFICES \A v \in Users : IsActiveAdmin(user[v]) => IsActiveAdmin(user'[v])
  BY DEF ActiveAdmins
<1>. TAKE v \in Users
<1>. SUFFICES ASSUME IsActiveAdmin(user[v]), user' # user PROVE IsActiveAdmin(user'[v])
  OBVIOUS
<1>1. user \in [Users -> UserRows]
  BY DEF AccountsInv, TypeOK
<1>2. CASE Reseed
  BY <1>1, <1>2, SeedAssumption DEF Reseed, IsActiveAdmin, NewUser
<1>3. ASSUME NEW q \in Requests, NEW u \in Users, NEW pw \in Passwords, Signup(q, u, pw)
      PROVE  IsActiveAdmin(user'[v])
  BY <1>1, <1>3 DEF Signup, IsActiveAdmin
<1>4. ASSUME NEW q \in Requests, NEW admin \in BOOLEAN, Provision(q, admin)
      PROVE  IsActiveAdmin(user'[v])
  BY <1>1, <1>4 DEF Provision, IsActiveAdmin
<1>5. \/ Reseed
      \/ \E q \in Requests, u \in Users, pw \in Passwords : Signup(q, u, pw)
      \/ \E q \in Requests, admin \in BOOLEAN : Provision(q, admin)
  BY DEF Next, Step, vars, EndSession, Login, OpenSession, Authorize, LoadTarget,
     CountAdmins, RevokeSessions, Abandon
<1>. QED BY <1>2, <1>3, <1>4, <1>5

\* The check on the last administrator fails only against another request that
\* got between the reads and the write, however many requests there are.
THEOREM LastAdminGuarded == Spec => LastAdminLostOnlyInRaces
<1>1. AccountsInv /\ [Next]_vars =>
        [ActiveAdmins # {} /\ ActiveAdmins' = {} =>
           \E q \in Requests :
             /\ At(q, "checked")
             /\ \/ req[q].row # user[Target(q)]
                \/ req[q].others # OtherAdmins(q)]_vars
  BY InformedUpdateLeavesAdmin, OtherStepsKeepAdmins DEF UpdateTarget
<1>. QED BY <1>1, AccountsInvariant, PTL DEF Spec, LastAdminLostOnlyInRaces

-----------------------------------------------------------------------------
(* Sessions of changed accounts *)

Outdated(t) ==
  /\ session[t].status = "live" /\ session[t].fresh
  /\ (session[t].pw # user[session[t].user].pw \/ user[session[t].user].disabled)

RevokerOf(q, u) == At(q, "revoking") /\ Target(q) = u

\* A session becomes outdated only by a write whose request goes on to delete it.
LEMMA OutdatedByRevoker ==
  ASSUME AccountsInv, ~Reseeds, [Next]_vars, NEW t \in Tokens, Outdated(t)', ~Outdated(t)
  PROVE  \E q \in Requests : RevokerOf(q, session[t].user)'
<1>. USE DEF AccountsInv, TypeOK
<1>1. ~Reseed /\ ~UNCHANGED <<user, session>>
  BY DEF Reseed, Outdated
<1>2. ASSUME NEW s \in Tokens, EndSession(s) PROVE FALSE
  BY <1>2 DEF EndSession, Outdated, SessionRows
<1>3. ASSUME NEW q \in Requests, NEW u \in Users, NEW pw \in Passwords, Signup(q, u, pw)
      PROVE  FALSE
  BY <1>3 DEF Signup, Outdated
<1>4. ASSUME NEW q \in Requests, NEW s \in Tokens, OpenSession(q, s) PROVE FALSE
  BY <1>4 DEF OpenSession, Outdated
<1>5. ASSUME NEW q \in Requests, NEW admin \in BOOLEAN, Provision(q, admin) PROVE FALSE
  BY <1>5 DEF Provision, Outdated
<1>6. ASSUME NEW q \in Requests, RevokeSessions(q) PROVE FALSE
  BY <1>6 DEF RevokeSessions, Outdated, SessionRows
<1>7. ASSUME NEW q \in Requests, UpdateTarget(q)
      PROVE  RevokerOf(q, session[t].user)'
  <2>1. /\ Target(q) \in Users /\ req[q].kind \in AdminKinds \ {"provision"}
    BY <1>7 DEF UpdateTarget, RequestInv, At, Kind
  <2>2. user'[Target(q)] = Updated(q, user[Target(q)])
        /\ \A u \in Users : u # Target(q) => user'[u] = user[u]
    BY <1>7, <2>1 DEF UpdateTarget
  <2>3. UNCHANGED session /\ session[t].status = "live" /\ session[t].user = Target(q)
    BY <1>7, <2>2 DEF UpdateTarget, Outdated
  <2>4. req[q].kind \in {"disable", "reset"}
    BY <2>1, <2>2, <2>3 DEF Outdated, Updated, UserRows, Kind, AdminKinds
  <2>5. req' = [req EXCEPT ![q].pc = "revoking"]
    BY <1>7, <2>4 DEF UpdateTarget
  <2>. QED BY <2>3, <2>5 DEF RevokerOf, At, Target, RequestRows
<1>. QED
  BY <1>1, <1>2, <1>3, <1>4, <1>5, <1>6, <1>7
  DEF Next, Step, vars, Login, Authorize, LoadTarget, CountAdmins, Abandon

\* The request that is to delete the sessions of an account stops only once it
\* has.
LEMMA RevokerFinishes ==
  ASSUME AccountsInv, ~Faults, [Next]_vars, NEW q \in Requests, NEW t \in Tokens,
         RevokerOf(q, session[t].user), Outdated(t), Outdated(t)'
  PROVE  RevokerOf(q, session[t].user)'
<1>. USE DEF AccountsInv, TypeOK
<1>1. ~RevokeSessions(q)
  BY DEF RevokeSessions, RevokerOf, Outdated, SessionRows, Target
<1>2. req'[q] = req[q]
  <2>1. ASSUME NEW p \in Requests, p # q, Step(p) PROVE req'[q] = req[q]
    BY <2>1 DEF Step, Signup, Login, OpenSession, Authorize, Provision, LoadTarget,
       CountAdmins, UpdateTarget, RevokeSessions, Abandon, Done
  <2>2. ~Step(q)
    BY <1>1 DEF RevokerOf, At, Step, Signup, Login, OpenSession, Authorize, Provision,
       LoadTarget, CountAdmins, UpdateTarget, Abandon
  <2>. QED BY <2>1, <2>2 DEF Next, Reseed, EndSession, vars
<1>3. session'[t].user = session[t].user
  <2>1. ASSUME NEW p \in Requests, NEW s \in Tokens, OpenSession(p, s)
        PROVE  session'[t].user = session[t].user
    BY <2>1 DEF OpenSession, Outdated
  <2>2. ASSUME NEW p \in Requests, RevokeSessions(p)
        PROVE  session'[t].user = session[t].user
    BY <2>2 DEF RevokeSessions, SessionRows
  <2>3. ASSUME NEW s \in Tokens, EndSession(s)
        PROVE  session'[t].user = session[t].user
    BY <2>3 DEF EndSession, SessionRows
  <2>4. \/ session' = session
        \/ \E p \in Requests, s \in Tokens : OpenSession(p, s)
        \/ \E p \in Requests : RevokeSessions(p)
        \/ \E s \in Tokens : EndSession(s)
    BY DEF Next, Step, vars, Reseed, Signup, Login, Authorize, Provision, LoadTarget,
       CountAdmins, UpdateTarget, Abandon
  <2>. QED BY <2>1, <2>2, <2>3, <2>4
<1>. QED BY <1>2, <1>3 DEF RevokerOf, At, Target

\* While the API runs without its seed and requests run to their end, disabling
\* an account or resetting its password ends every session opened before.
THEOREM ChangedAccountsLoseSessions ==
  ASSUME ~Reseeds, ~Faults
  PROVE  Spec => []OutdatedSessionsEnd
<1>. DEFINE Ends == \A t \in Tokens : Outdated(t) =>
                      \E q \in Requests : RevokerOf(q, session[t].user)
<1>1. Init => Ends
  BY DEF Init, Outdated, UnusedToken
<1>2. AccountsInv /\ Ends /\ [Next]_vars => Ends'
  <2>. SUFFICES ASSUME AccountsInv, Ends, [Next]_vars, NEW t \in Tokens, Outdated(t)'
                PROVE  \E q \in Requests : RevokerOf(q, session[t].user)'
    OBVIOUS
  <2>1. CASE Outdated(t)
    <3>1. PICK q \in Requests : RevokerOf(q, session[t].user)
      BY <2>1
    <3>. QED BY <2>1, <3>1, RevokerFinishes
  <2>2. CASE ~Outdated(t)
    BY <2>2, OutdatedByRevoker
  <2>. QED BY <2>1, <2>2
<1>3. Ends => OutdatedSessionsEnd
  BY DEF OutdatedSessionsEnd, Outdated, RevokerOf
<1>. HIDE DEF Ends
<1>. QED BY <1>1, <1>2, <1>3, AccountsInvariant, PTL DEF Spec
=============================================================================
