------------------------------ MODULE Accounts -------------------------------
(* Users and their workspaces: the first and later logins over single sign-on  *)
(* (authController.ts), sessions exchanged for another workspace, and what the *)
(* platform's administrators and the users themselves change meanwhile.        *)
EXTENDS Integers, FiniteSets

CONSTANTS Emails,       \* addresses, all with the same readable workspace id
          Logins,       \* requests in flight
          MaxLogins,    \* bound on the logins ever started
          MaxMoves      \* bound on what administrators change

VARIABLES
    users,        \* email -> [id, role, tenant], id 0 for none
    workspaces,   \* workspace -> the id of its owner, Absent or Unowned
    lastUser, login,
    started, moves,    \* how many of each
    session,      \* the session issued last
    bound,        \* history: the <<user, workspace>> pairs a user's row or an owner ever made
    stranded,     \* history: first logins that failed halfway
    assigned      \* history: users an administrator moved

vars == <<users, workspaces, lastUser, login, started, moves, session, bound, stranded, assigned>>

None == "none"
System == "tenant_A"
Readable == "readable"
Workspaces == {System, Readable} \cup Emails      \* Emails: the ids made of a hash
Absent == -1
Unowned == 0
NoUser == [id |-> 0, role |-> "USER", tenant |-> None]
Idle == [pc |-> "idle"]
NoSession == [user |-> 0, role |-> "USER", tenant |-> None]

Init ==
    /\ users = [e \in Emails |-> NoUser]
    /\ workspaces = [w \in Workspaces |-> IF w = System THEN Unowned ELSE Absent]
    /\ lastUser = 0 /\ started = 0 /\ moves = 0
    /\ login = [l \in Logins |-> Idle]
    /\ session = NoSession
    /\ bound = {} /\ stranded = {} /\ assigned = {}

Exists(w) == workspaces[w] # Absent
At(l, pc) == login[l].pc = pc
Finish(l) == login' = [login EXCEPT ![l] = Idle]
GenerateToken(user) == session' = [user |-> user.id, role |-> user.role, tenant |-> user.tenant]

Assignable == {None} \cup {w \in Workspaces : Exists(w)}

----------------------------------------------------------------------------
(* Single sign-on                                                            *)

\* The provider vouches for an address, perhaps as an administrator.
SsoCallback(l, e, admin) ==
    /\ At(l, "idle") /\ started < MaxLogins
    /\ started' = started + 1
    /\ login' = [login EXCEPT ![l] =
           [pc |-> IF users[e].id # 0 THEN "known" ELSE IF admin THEN "newAdmin" ELSE "new",
            email |-> e, admin |-> admin, user |-> users[e], tenant |-> Readable]]
    /\ UNCHANGED <<moves, users, workspaces, lastUser, session, bound, stranded, assigned>>

\* A known administrator is kept ADMIN of the system workspace, by id; everybody
\* else gets a session as the row says.
KnownUser(l) ==
    LET u == login[l].user
        e == login[l].email
        changed == [id |-> u.id, role |-> "ADMIN", tenant |-> System]
    IN  /\ At(l, "known")
        /\ IF login[l].admin
           THEN /\ users' = IF users[e].id = u.id THEN [users EXCEPT ![e] = changed] ELSE users
                /\ bound' = bound \cup {<<u.id, System>>}
                /\ GenerateToken(changed)
           ELSE GenerateToken(u) /\ UNCHANGED <<users, bound>>
        /\ Finish(l)
        /\ UNCHANGED <<started, moves, workspaces, lastUser, stranded, assigned>>

\* The row is looked up once more; one that appeared meanwhile is left as it is.
NewAdmin(l) ==
    LET e == login[l].email
        new == users[e].id = 0
        u == [id |-> IF new THEN lastUser + 1 ELSE users[e].id, role |-> "ADMIN", tenant |-> System]
    IN  /\ At(l, "newAdmin")
        /\ users' = IF new THEN [users EXCEPT ![e] = u] ELSE users
        /\ lastUser' = IF new THEN lastUser + 1 ELSE lastUser
        /\ bound' = bound \cup {<<u.id, System>>}
        /\ GenerateToken(u)
        /\ Finish(l)
        /\ UNCHANGED <<started, moves, workspaces, stranded, assigned>>

\* The row of a new user has no workspace yet; its trial subscription is best effort.
CreateUser(l) ==
    /\ At(l, "new") /\ users[login[l].email].id = 0       \* the name is unique
    /\ users' = [users EXCEPT ![login[l].email] = [NoUser EXCEPT !.id = lastUser + 1]]
    /\ lastUser' = lastUser + 1
    /\ login' = [login EXCEPT ![l] = [pc |-> "created", email |-> @.email, admin |-> @.admin, tenant |-> @.tenant,
                                       user |-> [NoUser EXCEPT !.id = lastUser + 1]]]
    /\ UNCHANGED <<started, moves, workspaces, session, bound, stranded, assigned>>

Prepare(l, w) ==
    login' = [login EXCEPT ![l] = [pc |-> "bind", email |-> @.email, admin |-> @.admin, tenant |-> w, user |-> @.user]]

\* A workspace of the readable id is used as it is.
AdoptTenant(l) ==
    /\ At(l, "created") /\ Exists(Readable)
    /\ Prepare(l, Readable)
    /\ UNCHANGED <<started, moves, users, workspaces, lastUser, session, bound, stranded, assigned>>

\* A readable id that extends another tenant's, or is extended by one, gives way to
\* one made of a hash (see TenantNamespaces).
CreateTenant(l, overlap) ==
    LET w == IF overlap THEN login[l].email ELSE Readable
    IN  /\ At(l, "created") /\ ~ Exists(Readable) /\ ~ Exists(w)
        /\ workspaces' = [workspaces EXCEPT ![w] = login[l].user.id]
        /\ bound' = bound \cup {<<login[l].user.id, w>>}
        /\ Prepare(l, w)
        /\ UNCHANGED <<started, moves, users, lastUser, session, stranded, assigned>>

BindTenant(l) ==
    LET e == login[l].email
        mine == users[e].id = login[l].user.id
    IN  /\ At(l, "bind") /\ (mine => Exists(login[l].tenant))
        /\ users' = IF mine THEN [users EXCEPT ![e].tenant = login[l].tenant] ELSE users
        /\ bound' = IF mine THEN bound \cup {<<users[e].id, login[l].tenant>>} ELSE bound
        /\ GenerateToken(login[l].user)       \* the row as it was created: no workspace
        /\ Finish(l)
        /\ UNCHANGED <<started, moves, workspaces, lastUser, stranded, assigned>>

\* A statement fails or the process dies: the user stays without a workspace.
LoginFails(l) ==
    /\ login[l].pc \in {"newAdmin", "new", "created", "bind"}
    /\ stranded' = IF login[l].pc \in {"created", "bind"} THEN stranded \cup {login[l].user.id} ELSE stranded
    /\ Finish(l)
    /\ UNCHANGED <<started, moves, users, workspaces, lastUser, session, bound, assigned>>

\* A defect: any workspace for the asking.
MayEnterAny(s, w) == TRUE

\* An administrator may enter any workspace, a user those of its own.
MayEnter(s, w) == s.role = "ADMIN" \/ (Exists(w) /\ workspaces[w] = s.user)

\* refreshToken, also for a user whose row is gone: the session is believed.
RefreshToken(w) ==
    /\ session.user # 0 /\ MayEnter(session, w)
    /\ session' = [session EXCEPT !.tenant = w]
    /\ UNCHANGED <<started, moves, users, workspaces, lastUser, login, bound, stranded, assigned>>

----------------------------------------------------------------------------
(* Administrators                                                            *)

UpdateUser(e, role, tenant) ==
    /\ moves < MaxMoves /\ moves' = moves + 1
    /\ users[e].id # 0 /\ tenant \in Assignable
    /\ users' = [users EXCEPT ![e] = [id |-> @.id, role |-> role, tenant |-> tenant]]
    /\ bound' = IF tenant = None THEN bound ELSE bound \cup {<<users[e].id, tenant>>}
    /\ assigned' = assigned \cup {users[e].id}
    /\ UNCHANGED <<started, workspaces, lastUser, login, session, stranded>>

\* The workspaces of the user stay, with an owner who is gone.
DeleteUser(e) ==
    /\ moves < MaxMoves /\ moves' = moves + 1
    /\ users[e].id # 0
    /\ users' = [users EXCEPT ![e] = NoUser]
    /\ UNCHANGED <<started, workspaces, lastUser, login, session, bound, stranded, assigned>>

\* The foreign key of the users keeps a workspace with users from being deleted.
DeleteTenant(w) ==
    /\ moves < MaxMoves /\ moves' = moves + 1
    /\ Exists(w) /\ w # System /\ \A e \in Emails : users[e].tenant # w
    /\ workspaces' = [workspaces EXCEPT ![w] = Absent]
    /\ UNCHANGED <<started, users, lastUser, login, session, bound, stranded, assigned>>

Next ==
    \/ \E l \in Logins :
          \/ \E e \in Emails, admin \in BOOLEAN : SsoCallback(l, e, admin)
          \/ KnownUser(l)
          \/ NewAdmin(l)
          \/ CreateUser(l)
          \/ AdoptTenant(l)
          \/ \E overlap \in BOOLEAN : CreateTenant(l, overlap)
          \/ BindTenant(l)
          \/ LoginFails(l)
    \/ \E w \in Workspaces : RefreshToken(w) \/ DeleteTenant(w)
    \/ \E e \in Emails : DeleteUser(e)
    \/ \E e \in Emails, role \in {"ADMIN", "USER"}, tenant \in {None, System, Readable} : UpdateUser(e, role, tenant)
Spec == Init /\ [][Next]_vars

----------------------------------------------------------------------------
(* Properties                                                                *)

InFlight(id) == \E l \in Logins : login[l].pc # "idle" /\ login[l].user.id = id

\* A user whose first login came through, and whom no administrator moved, has a
\* workspace that exists, under the readable id or the hash of its address.
UsersAreHoused ==
    \A e \in Emails :
        LET u == users[e]
        IN  u.id # 0 /\ u.role = "USER" /\ u.id \notin stranded \cup assigned /\ ~ InFlight(u.id)
                => u.tenant \in {Readable, e} /\ Exists(u.tenant)

\* A user's session is only ever for a workspace its row has held or it has owned.
SessionsScoped == session.role = "USER" /\ session.tenant # None => <<session.user, session.tenant>> \in bound
AccountsHold == UsersAreHoused /\ SessionsScoped
=============================================================================
