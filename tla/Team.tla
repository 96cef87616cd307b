-------------------------------- MODULE Team --------------------------------
(***************************************************************************)
(* The logins of the console (AdminUser): what each may see, and the page  *)
(* on which owners manage their team.  Every request reads the caller's    *)
(* row first; team_save then reads the row it changes and saves all of     *)
(* it.  An "admin" manages no team either and is counted with the staff.   *)
(***************************************************************************)
EXTENDS Naturals

CONSTANTS
  Companies, Logins,
  Desks,       \* server processes that handle requests at the same time
  MaxChanges,  \* bound: changes of the team
  All,         \* SESSION_COMPANY when the switcher shows every company
  Out          \* no login, not signed in, no request, no page

VARIABLES
  employer,    \* AdminUser.company, never changed here
  login,       \* the rows of AdminUser
  session,     \* who is signed in, and the company they narrowed the console to
  form,        \* the team_save requests under way
  changes,     \* changes so far
  page,        \* the page that was just shown
  orderly      \* requests do not overlap

vars == <<employer, login, session, form, changes, page, orderly>>

Roles     == {"owner", "staff"}
Exists(u) == login[u] # Out
Login(role, superuser) == [role |-> role, active |-> TRUE, superuser |-> superuser]

\* access.py.
IsPlatform(u)    == login[u].active /\ login[u].superuser
CanManageTeam(u) == IsPlatform(u) \/ login[u].role = "owner"

\* Slip: the company of the session is taken as it is.
CompanyForSession(u) == IF session[u] # All THEN session[u] ELSE employer[u]

\* company_id_for: a session's company counts for the platform only.
CompanyFor(u) == IF IsPlatform(u) THEN session[u] ELSE employer[u]

\* scoped: the companies a screen shows.
Scope(u) == IF CompanyFor(u) = All THEN Companies ELSE {CompanyFor(u)}

\* console_view: a session whose login is active (and of the staff, as every login that is
\* made here).
SignedIn(u) == Exists(u) /\ session[u] # Out /\ login[u].active

Idle(d) == form[d] = Out
Alone   == orderly => \A d \in Desks : Idle(d)
Change  == changes < MaxChanges /\ changes' = changes + 1

\* The platform's superuser, and perhaps an owner of a company.
Init ==
  /\ employer \in [Logins -> Companies]
  /\ \E root, owner \in Logins :
       /\ login = [u \in Logins |-> IF u = root THEN Login("owner", TRUE)
                                    ELSE IF u = owner THEN Login("owner", FALSE) ELSE Out]
  /\ session = [u \in Logins |-> Out]
  /\ form = [d \in Desks |-> Out]
  /\ changes = 0
  /\ page = Out
  /\ orderly \in BOOLEAN

----------------------------------------------------------------------------
(* Sessions and pages.                                                     *)

\* LoginView.
SignIn(u) ==
  /\ Exists(u) /\ session[u] = Out /\ login[u].active
  /\ session' = [session EXCEPT ![u] = All]
  /\ page' = Out
  /\ UNCHANGED <<employer, login, form, changes, orderly>>

\* LogoutView.
SignOut(u) ==
  /\ session[u] # Out
  /\ session' = [session EXCEPT ![u] = Out]
  /\ page' = Out
  /\ UNCHANGED <<employer, login, form, changes, orderly>>

\* switch_company.
SwitchCompany(u, c) ==
  /\ SignedIn(u) /\ IsPlatform(u)
  /\ session' = [session EXCEPT ![u] = c]
  /\ page' = Out
  /\ UNCHANGED <<employer, login, form, changes, orderly>>

\* Any page: the rows of the companies in scope.
Open(u) ==
  /\ SignedIn(u)
  /\ page' = [of |-> employer[u], platform |-> IsPlatform(u), shows |-> Scope(u)]
  /\ UNCHANGED <<employer, login, session, form, changes, orderly>>

----------------------------------------------------------------------------
(* The team.                                                               *)

\* Slip: owners may switch off their own login.
OwnLoginStaysNot(u, v, active) == TRUE

\* "You can't switch off your own login."
OwnLoginStays(u, v, active) == v = u => active

\* team_save, up to the save: the caller, the row in the caller's reach, its new columns.
SaveCheck(d, u, v, role, active, password) ==
  /\ SignedIn(u) /\ CanManageTeam(u) /\ Idle(d) /\ Alone
  /\ Exists(v) /\ (IsPlatform(u) \/ employer[v] = employer[u])
  /\ OwnLoginStays(u, v, active)
  /\ form' = [form EXCEPT ![d] = [login |-> v, password |-> password,
                                   row |-> [role |-> role, active |-> active, superuser |-> login[v].superuser]]]
  /\ Change
  /\ page' = Out
  /\ UNCHANGED <<employer, login, session, orderly>>

\* u.save(): every column.  A new password ends the sessions of the login.
SaveWrite(d) ==
  /\ ~Idle(d)
  /\ login' = [login EXCEPT ![form[d].login] = form[d].row]
  /\ session' = IF form[d].password THEN [session EXCEPT ![form[d].login] = Out] ELSE session
  /\ form' = [form EXCEPT ![d] = Out]
  /\ page' = Out
  /\ UNCHANGED <<employer, changes, orderly>>

\* team_save without an id: a new login, of the caller's company unless the platform
\* chose one.
AddLogin(u, v, role) ==
  /\ SignedIn(u) /\ CanManageTeam(u) /\ ~Exists(v) /\ Alone
  /\ IsPlatform(u) \/ employer[v] = employer[u]
  /\ login' = [login EXCEPT ![v] = Login(role, FALSE)]
  /\ Change
  /\ page' = Out
  /\ UNCHANGED <<employer, session, form, orderly>>

\* AdminUserAdmin: the platform makes a login one of its own, or takes that back.
SetPlatform(u, v, superuser) ==
  /\ SignedIn(u) /\ IsPlatform(u) /\ Exists(v) /\ Alone
  /\ login' = [login EXCEPT ![v].superuser = superuser]
  /\ Change
  /\ page' = Out
  /\ UNCHANGED <<employer, session, form, orderly>>

Next ==
  \/ \E u \in Logins : SignIn(u) \/ SignOut(u) \/ Open(u)
  \/ \E u \in Logins, c \in Companies \union {All} : SwitchCompany(u, c)
  \/ \E d \in Desks, u, v \in Logins, role \in Roles, active, password \in BOOLEAN :
       SaveCheck(d, u, v, role, active, password)
  \/ \E d \in Desks : SaveWrite(d)
  \/ \E u, v \in Logins, role \in Roles : AddLogin(u, v, role)
  \/ \E u, v \in Logins, superuser \in BOOLEAN : SetPlatform(u, v, superuser)

Spec == Init /\ [][Next]_vars

----------------------------------------------------------------------------
\* team_save, "You can't switch off your own login": while requests do not overlap, however
\* owners switch each other off and change their roles, an active login is left.
SomebodyLeft == orderly => \E u \in Logins : Exists(u) /\ login[u].active

\* company_id_for and switch_company: whatever somebody chose while they were the
\* platform's, a page shows them only their own company once they are not.
TenantsApart == page # Out => page.platform \/ page.shows = {page.of}

TeamHolds == SomebodyLeft /\ TenantsApart
=============================================================================
