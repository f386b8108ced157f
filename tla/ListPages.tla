----------------------------- MODULE ListPages -----------------------------
(***************************************************************************)
(* The pages that load rows and show them (Dashboard, Environments, Jobs,  *)
(* Audit and GuidedStart of src/web/src/pages) and the users' page         *)
(* (Users), where an administrator changes accounts and then loads them    *)
(* again.                                                                  *)
(*                                                                         *)
(* What the server would answer is a version that grows.  A load asks who  *)
(* the viewer is and then for the rows; only GuidedStart's is cancelled    *)
(* when a new one starts.  The others' loads overtake each other, so an    *)
(* old answer may replace a newer one until the next refresh.              *)
(***************************************************************************)
EXTENDS Naturals, Sequences, SequencesExt

CONSTANTS
  Members,      \* the users in the list
  MaxVersion,   \* bound: changes on the server
  MaxListLoads, \* bound: requests in flight when the operator acts
  NoMember

ASSUME ListAssumption ==
  MaxVersion \in Nat /\ MaxListLoads \in Nat \ {0} /\ NoMember \notin Members

VARIABLES
  listVersion,  \* what the server has now
  listPage,     \* the mounted page
  listLoads,    \* its loads in flight
  userCalls     \* the users' page's changes in flight

listVars == <<listVersion, listPage, listLoads, userCalls>>
-----------------------------------------------------------------------------
\* "rows" stands for Dashboard, Environments and Jobs.
ListKinds == {"rows", "audit", "guided", "users"}

\* read: 0 until the rows are read; ends: the change whose action the load ends.
UserChanges == {"create", "status", "role", "password"}
ListLoads == [read : Nat, cancelled : BOOLEAN, ends : UserChanges \union {"none"}]
NewListLoad(ends) == [read |-> 0, cancelled |-> FALSE, ends |-> ends]

NoListPage == [kind |-> "none", shown |-> 0, loading |-> FALSE, saving |-> FALSE,
               status |-> NoMember, role |-> NoMember, form |-> NoMember, typed |-> FALSE]

ListInit ==
  /\ listVersion = 1 /\ listPage = NoListPage
  /\ listLoads = <<>> /\ userCalls = <<>>

ListTypeOK ==
  LET maybe == Members \union {NoMember}
  IN  /\ listVersion \in 1 .. MaxVersion + 1
      /\ listPage \in [kind : ListKinds \union {"none"}, shown : 0 .. MaxVersion + 1,
                       loading : BOOLEAN, saving : BOOLEAN, status : maybe, role : maybe,
                       form : maybe, typed : BOOLEAN]
      /\ listLoads \in Seq(ListLoads)
      /\ userCalls \in Seq([change : UserChanges, user : maybe])

MayLoad == listPage.kind # "none" /\ Len(listLoads) + Len(userCalls) < MaxListLoads

ServerChanges ==
  /\ listVersion <= MaxVersion
  /\ listVersion' = listVersion + 1
  /\ UNCHANGED <<listPage, listLoads, userCalls>>

\* Audit and GuidedStart tell that they are loading.
ListOpen(kind) ==
  /\ listPage.kind = "none"
  /\ listPage' = [NoListPage EXCEPT !.kind = kind, !.loading = kind \in {"audit", "guided"}]
  /\ listLoads' = <<NewListLoad("none")>>
  /\ UNCHANGED <<listVersion, userCalls>>

\* A load without a session leads to the login page; so does the logout button.
ListLeave ==
  /\ listPage.kind # "none"
  /\ listPage' = NoListPage /\ listLoads' = <<>> /\ userCalls' = <<>>
  /\ UNCHANGED listVersion

\* GuidedStart has no refresh button; the others never disable theirs.
ListRefresh ==
  /\ MayLoad /\ listPage.kind # "guided"
  /\ listPage' = [listPage EXCEPT !.loading = listPage.kind = "audit"]
  /\ listLoads' = Append(listLoads, NewListLoad("none"))
  /\ UNCHANGED <<listVersion, userCalls>>

\* Mutant: the effect's clean-up is missing.
SwitchLocaleUncancelled ==
  /\ MayLoad /\ listPage.kind = "guided"
  /\ listLoads' = Append(listLoads, NewListLoad("none"))
  /\ UNCHANGED <<listVersion, listPage, userCalls>>

\* The language is a dependency of GuidedStart's effect alone.
SwitchLocale ==
  /\ MayLoad /\ listPage.kind = "guided"
  /\ listLoads' = Append([n \in DOMAIN listLoads |-> [listLoads[n] EXCEPT !.cancelled = TRUE]],
                         NewListLoad("none"))
  /\ UNCHANGED <<listVersion, listPage, userCalls>>

RowsRead(n) ==
  /\ listLoads[n].read = 0
  /\ listLoads' = [listLoads EXCEPT ![n].read = listVersion]
  /\ UNCHANGED <<listVersion, listPage, userCalls>>

\* What remains of the action a load ends: its button is enabled again.
Released(tab, ends) ==
  CASE ends \in {"create", "password"} -> [tab EXCEPT !.saving = FALSE]
    [] ends = "status" -> [tab EXCEPT !.status = NoMember]
    [] ends = "role" -> [tab EXCEPT !.role = NoMember]
    [] OTHER -> tab

\* The rows arrive or the load fails: GuidedStart then falls back on what needs
\* no server, the others go on showing what they showed.
LoadEnds(n) ==
  /\ listLoads' = RemoveAt(listLoads, n)
  /\ LET tab == Released([listPage EXCEPT !.loading = FALSE], listLoads[n].ends)
     IN  IF listLoads[n].cancelled THEN UNCHANGED listPage
         ELSE \/ listLoads[n].read # 0 /\ listPage' = [tab EXCEPT !.shown = listLoads[n].read]
              \/ listPage' = [tab EXCEPT !.shown = IF listPage.kind = "guided" THEN 0 ELSE @]
  /\ UNCHANGED <<listVersion, userCalls>>
-----------------------------------------------------------------------------
(* The users' page *)

OnUsers == listPage.kind = "users" /\ listPage.shown # 0

Request(change, user) ==
  /\ MayLoad
  /\ userCalls' = Append(userCalls, [change |-> change, user |-> user])
  /\ UNCHANGED <<listVersion, listLoads>>

CreateUser ==
  /\ listPage.kind = "users" /\ ~listPage.saving
  /\ listPage' = [listPage EXCEPT !.saving = TRUE]
  /\ Request("create", NoMember)

\* A button is disabled while its own user is the one last acted on.
ToggleUser(m) ==
  /\ OnUsers /\ listPage.status # m
  /\ listPage' = [listPage EXCEPT !.status = m]
  /\ Request("status", m)

ToggleRole(m) ==
  /\ OnUsers /\ listPage.role # m
  /\ listPage' = [listPage EXCEPT !.role = m]
  /\ Request("role", m)

\* Mutant: the row's button stays enabled during a request.
OpenPasswordAnyTime(m) ==
  /\ OnUsers
  /\ listPage' = [listPage EXCEPT !.form = m, !.typed = FALSE]
  /\ UNCHANGED <<listVersion, listLoads, userCalls>>

\* The row's button opens the form of another password; it shares its flag with
\* the creation of a user.
OpenPassword(m) ==
  /\ OnUsers /\ ~listPage.saving
  /\ listPage' = [listPage EXCEPT !.form = m, !.typed = FALSE]
  /\ UNCHANGED <<listVersion, listLoads, userCalls>>

TypePassword ==
  /\ listPage.form # NoMember
  /\ listPage' = [listPage EXCEPT !.typed = TRUE]
  /\ UNCHANGED <<listVersion, listLoads, userCalls>>

\* The text typed stays, and so does a request under way.
CancelPassword ==
  /\ listPage.form # NoMember
  /\ listPage' = [listPage EXCEPT !.form = NoMember]
  /\ UNCHANGED <<listVersion, listLoads, userCalls>>

ResetPassword ==
  /\ listPage.form # NoMember /\ listPage.typed /\ ~listPage.saving
  /\ listPage' = [listPage EXCEPT !.saving = TRUE]
  /\ Request("password", listPage.form)

\* A success loads the users, which ends the action; a failure ends it at once.
Answered(n, change, page) ==
  /\ userCalls[n].change = change
  /\ userCalls' = RemoveAt(userCalls, n)
  /\ \/ listPage' = page /\ listLoads' = Append(listLoads, NewListLoad(change))
     \/ listPage' = Released(listPage, change) /\ UNCHANGED listLoads
  /\ UNCHANGED listVersion

CreateAnswered(n) == Answered(n, "create", listPage)
StatusAnswered(n) == Answered(n, "status", listPage)
RoleAnswered(n) == Answered(n, "role", listPage)

\* A success closes the password form, whoever's it is by then.
PasswordAnswered(n) ==
  Answered(n, "password", [listPage EXCEPT !.form = NoMember, !.typed = FALSE])
-----------------------------------------------------------------------------
ListNext ==
  \/ ServerChanges \/ ListLeave \/ ListRefresh \/ SwitchLocale
  \/ \E kind \in ListKinds : ListOpen(kind)
  \/ \E n \in DOMAIN listLoads : RowsRead(n) \/ LoadEnds(n)
  \/ \E n \in DOMAIN userCalls :
       CreateAnswered(n) \/ StatusAnswered(n) \/ RoleAnswered(n) \/ PasswordAnswered(n)
  \/ CreateUser \/ TypePassword \/ CancelPassword \/ ResetPassword
  \/ \E m \in Members : ToggleUser(m) \/ ToggleRole(m) \/ OpenPassword(m)
-----------------------------------------------------------------------------
(* Properties *)

\* The guided start never shows an older overview after a newer one, however
\* the operator switches languages while answers are under way.
OverviewNeverStepsBack ==
  [][listPage.kind = "guided" /\ listPage'.kind = "guided" /\ listPage'.shown # 0
     => listPage'.shown >= listPage.shown]_listVars

\* An answer about one user's password closes no other user's form, which may
\* hold a half-typed password: the page keeps one form and one text.
ResetEndsItsOwnForm ==
  [][\A n \in DOMAIN userCalls :
       userCalls[n].change = "password" /\ Len(userCalls') < Len(userCalls)
       /\ listPage.form # NoMember /\ listPage'.form = NoMember
       /\ listPage'.kind = "users"
       => listPage.form = userCalls[n].user]_listVars
=============================================================================
