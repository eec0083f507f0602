------------------------- MODULE IntegrationProofs ---------------------------
(* More proofs about the services: accounts and external systems, and what is *)
(* replicated over Kafka, by watermark and into the search index.             *)
EXTENDS ServicesProofs, FiniteSetTheorems, SequenceTheorems, TLAPS

-----------------------------------------------------------------------------
(* Accounts                                                                  *)

Places == Account!Workspaces \cup {"none"}
UserType == [id : Nat, role : {"ADMIN", "USER"}, tenant : Places]
SessionType == [user : Nat, role : {"ADMIN", "USER"}, tenant : Places]
LoginType == [pc : {"known", "newAdmin", "new", "created", "bind"}, email : Emails, admin : BOOLEAN, user : UserType,
              tenant : Account!Workspaces]

AccountsTyped ==
    /\ users \in [Emails -> UserType] /\ workspaces \in [Account!Workspaces -> Int] /\ lastUser \in Nat
    /\ login \in [Logins -> {Account!Idle} \cup LoginType] /\ session \in SessionType

\* A first login that has made its user and not yet given it a workspace.
Making(l) == login[l].pc \in {"created", "bind"}

\* The number of a user is given once, for one address.
UsersNumbered ==
    /\ \A e \in Emails : users[e].id <= lastUser
    /\ \A e, f \in Emails : users[e].id = users[f].id /\ users[e].id # 0 => e = f

\* Nor does another login make the same user.
LoginsNumbered ==
    \A l \in Logins : Making(l) =>
        /\ login[l].user.id \in 1 .. lastUser /\ login[l].user.tenant = "none"
        /\ login[l].pc = "bind" => login[l].tenant \in {"readable", login[l].email}
        /\ \A e \in Emails : users[e].id = login[l].user.id => e = login[l].email
        /\ \A k \in Logins : Making(k) /\ login[k].user.id = login[l].user.id => k = l

\* A user has its workspace, or a login that is about to give it one.
Housed(e) ==
    users[e].id # 0 /\ users[e].role = "USER" /\ users[e].id \notin stranded \cup assigned =>
        \/ users[e].tenant \in {"readable", e} /\ workspaces[users[e].tenant] # -1
        \/ \E l \in Logins : Making(l) /\ login[l].user.id = users[e].id

\* Whoever is in a workspace was put there, and whoever owns one got it.
HeldBefore ==
    /\ \A e \in Emails : users[e].id # 0 /\ users[e].tenant # "none" => <<users[e].id, users[e].tenant>> \in bound
    /\ \A w \in Account!Workspaces : workspaces[w] \notin {-1, 0} => <<workspaces[w], w>> \in bound
    /\ \A l \in Logins : login[l].pc = "known" /\ login[l].user.tenant # "none" =>
          <<login[l].user.id, login[l].user.tenant>> \in bound
    /\ session.role = "USER" /\ session.tenant # "none" => <<session.user, session.tenant>> \in bound

AccountsInv == AccountsTyped /\ UsersNumbered /\ LoginsNumbered /\ (\A e \in Emails : Housed(e)) /\ HeldBefore

\* The names of workspaces.
LEMMA PlacesAre ==
  /\ Account!System = "tenant_A" /\ Account!Readable = "readable" /\ Account!None = "none"
  /\ {"tenant_A", "readable"} \subseteq Account!Workspaces /\ Emails \subseteq Account!Workspaces
  /\ Account!Workspaces \subseteq Places /\ "none" \in Places /\ "none" \notin Account!Workspaces
BY AccountAssumption DEF Places, Account!Workspaces, Account!System, Account!Readable, Account!None

\* A login in flight is one.
LEMMA LoginFields ==
  ASSUME AccountsTyped, NEW l \in Logins, login[l].pc # "idle"
  PROVE  /\ login[l] \in LoginType /\ login[l].email \in Emails /\ login[l].user \in UserType
         /\ login[l].tenant \in Account!Workspaces /\ login[l].admin \in BOOLEAN
BY DEF AccountsTyped, LoginType, Account!Idle

\* A login that ends or begins, with what it does to the users.
LEMMA LoginChanges ==
  ASSUME AccountsTyped, NEW l \in Logins, NEW r \in {Account!Idle} \cup LoginType, login' = [login EXCEPT ![l] = r]
  PROVE  /\ login' \in [Logins -> {Account!Idle} \cup LoginType] /\ login'[l] = r
         /\ \A k \in Logins \ {l} : login'[k] = login[k]
BY DEF AccountsTyped

\* The provider answers: the login begins with what the user's row says.
LEMMA SsoCallbackStep ==
  ASSUME AccountsInv, NEW l \in Logins, NEW e \in Emails, NEW super \in BOOLEAN, Account!SsoCallback(l, e, super)
  PROVE  AccountsInv'
<1> DEFINE r == [pc |-> IF users[e].id # 0 THEN "known" ELSE IF super THEN "newAdmin" ELSE "new",
                 email |-> e, admin |-> super, user |-> users[e], tenant |-> "readable"]
<1>1. /\ login[l].pc = "idle" /\ UNCHANGED <<users, workspaces, lastUser, session, bound, stranded, assigned>>
      /\ login' = [login EXCEPT ![l] = r]
  BY PlacesAre DEF Account!SsoCallback, Account!At
<1>2. r \in LoginType
  BY PlacesAre DEF AccountsInv, AccountsTyped, LoginType
<1>3. /\ login' \in [Logins -> {Account!Idle} \cup LoginType] /\ login'[l] = r
      /\ \A k \in Logins \ {l} : login'[k] = login[k]
  BY <1>1, <1>2, LoginChanges DEF AccountsInv
<1>4. AccountsTyped' /\ UsersNumbered'
  BY <1>1, <1>3 DEF AccountsInv, AccountsTyped, UsersNumbered
<1>5. \A k \in Logins : (Making(k)' <=> Making(k)) /\ (Making(k) => login'[k] = login[k])
  BY <1>1, <1>3 DEF Making
<1>6. LoginsNumbered'
  BY <1>1, <1>5 DEF AccountsInv, LoginsNumbered
<1>7. \A f \in Emails : Housed(f)'
  BY <1>1, <1>5 DEF AccountsInv, Housed
<1>8. HeldBefore'
  BY <1>1, <1>3 DEF AccountsInv, HeldBefore
<1> QED BY <1>4, <1>6, <1>7, <1>8 DEF AccountsInv

\* A login that is over: nothing else of the logins changed.
LEMMA FinishLogin ==
  ASSUME AccountsInv, NEW l \in Logins, Account!Finish(l)
  PROVE  /\ login' \in [Logins -> {Account!Idle} \cup LoginType] /\ login'[l].pc = "idle"
         /\ \A k \in Logins \ {l} : login'[k] = login[k] /\ (Making(k)' <=> Making(k))
         /\ ~ Making(l)'
<1>1. login' = [login EXCEPT ![l] = Account!Idle]
  BY DEF Account!Finish
<1>2. /\ login' \in [Logins -> {Account!Idle} \cup LoginType] /\ login'[l] = Account!Idle
      /\ \A k \in Logins \ {l} : login'[k] = login[k]
  BY <1>1, LoginChanges DEF AccountsInv
<1> QED BY <1>2 DEF Account!Idle, Making

\* First logins go on as before when the numbers they gave are not given again.
LEMMA LoginsStay ==
  ASSUME AccountsInv, lastUser' \in Nat, lastUser <= lastUser',
         \A k \in Logins : Making(k)' => Making(k) /\ login'[k] = login[k],
         \A f \in Emails : users'[f].id = users[f].id \/ users'[f].id \notin 1 .. lastUser
  PROVE  LoginsNumbered'
<1> SUFFICES ASSUME NEW k \in Logins, Making(k)'
             PROVE  /\ login'[k].user.id \in 1 .. lastUser' /\ login'[k].user.tenant = "none"
                    /\ login'[k].pc = "bind" => login'[k].tenant \in {"readable", login'[k].email}
                    /\ \A f \in Emails : users'[f].id = login'[k].user.id => f = login'[k].email
                    /\ \A m \in Logins : Making(m)' /\ login'[m].user.id = login'[k].user.id => m = k
  BY DEF LoginsNumbered
<1>1. Making(k) /\ login'[k] = login[k] /\ login[k].user.id \in 1 .. lastUser /\ lastUser \in Nat
  BY DEF AccountsInv, AccountsTyped, LoginsNumbered
<1>2. \A m \in Logins : Making(m)' => Making(m) /\ login'[m] = login[m]
  OBVIOUS
<1> QED BY <1>1, <1>2 DEF AccountsInv, LoginsNumbered

\* A known user gets a session, an administrator its role.
LEMMA KnownUserStep ==
  ASSUME AccountsInv, NEW l \in Logins, Account!KnownUser(l)
  PROVE  AccountsInv'
<1>1. PICK u, e, changed : u = login[l].user /\ e = login[l].email /\ changed = [id |-> u.id, role |-> "ADMIN", tenant |-> "tenant_A"]
  OBVIOUS
<1>2. /\ login[l].pc = "known" /\ Account!Finish(l) /\ UNCHANGED <<workspaces, lastUser, stranded, assigned>>
      /\ \/ /\ users' = IF users[e].id = u.id THEN [users EXCEPT ![e] = changed] ELSE users
            /\ bound' = bound \cup {<<u.id, "tenant_A">>} /\ Account!GenerateToken(changed)
         \/ Account!GenerateToken(u) /\ users' = users /\ bound' = bound
  BY <1>1, PlacesAre DEF Account!KnownUser, Account!At
<1>3. u \in UserType /\ e \in Emails /\ changed \in UserType
  BY <1>1, <1>2, LoginFields, PlacesAre DEF AccountsInv, UserType
<1>4. /\ login' \in [Logins -> {Account!Idle} \cup LoginType] /\ login'[l].pc = "idle"
      /\ \A k \in Logins \ {l} : login'[k] = login[k] /\ (Making(k)' <=> Making(k))
      /\ ~ Making(l)' /\ ~ Making(l)
  BY <1>2, FinishLogin DEF Making
<1>5. /\ users' \in [Emails -> UserType] /\ bound \subseteq bound'
      /\ \A f \in Emails : /\ users'[f].id = users[f].id
                           /\ users'[f] = users[f] \/ /\ users'[f].role = "ADMIN" /\ users'[f].tenant = "tenant_A"
                                                      /\ <<users'[f].id, "tenant_A">> \in bound'
  BY <1>1, <1>2, <1>3 DEF AccountsInv, AccountsTyped
<1>6. session' \in SessionType
  BY <1>2, <1>3 DEF Account!GenerateToken, SessionType, UserType
<1>7. AccountsTyped'
  BY <1>2, <1>4, <1>5, <1>6 DEF AccountsInv, AccountsTyped
<1>8. UsersNumbered'
  BY <1>2, <1>5 DEF AccountsInv, UsersNumbered
<1>9. LoginsNumbered'
  <2>1. lastUser' \in Nat /\ lastUser <= lastUser'
    BY <1>2 DEF AccountsInv, AccountsTyped
  <2> QED BY <1>4, <1>5, <2>1, LoginsStay
<1>10. ASSUME NEW f \in Emails PROVE Housed(f)'
  <2>1. Housed(f)
    BY DEF AccountsInv
  <2> QED BY <1>2, <1>4, <1>5, <2>1 DEF Housed
<1>11. HeldBefore'
  <2>1. \A f \in Emails : users'[f].id # 0 /\ users'[f].tenant # "none" => <<users'[f].id, users'[f].tenant>> \in bound'
    BY <1>5 DEF AccountsInv, HeldBefore
  <2>2. session'.role = "USER" /\ session'.tenant # "none" => <<session'.user, session'.tenant>> \in bound'
    BY <1>1, <1>2, <1>5 DEF Account!GenerateToken, AccountsInv, HeldBefore
  <2>3. \A k \in Logins : login'[k].pc = "known" /\ login'[k].user.tenant # "none" =>
            <<login'[k].user.id, login'[k].user.tenant>> \in bound'
    BY <1>4, <1>5 DEF AccountsInv, HeldBefore
  <2> QED BY <1>2, <1>5, <2>1, <2>2, <2>3 DEF AccountsInv, HeldBefore
<1> QED BY <1>7, <1>8, <1>9, <1>10, <1>11 DEF AccountsInv

\* An administrator who is new gets a row, unless it has one meanwhile.
LEMMA NewAdminStep ==
  ASSUME AccountsInv, NEW l \in Logins, Account!NewAdmin(l)
  PROVE  AccountsInv'
<1>1. PICK e, new, u : /\ e = login[l].email /\ new \in BOOLEAN /\ (new <=> users[e].id = 0)
                       /\ u = [id |-> IF new THEN lastUser + 1 ELSE users[e].id, role |-> "ADMIN", tenant |-> "tenant_A"]
  OBVIOUS
<1>2. /\ login[l].pc = "newAdmin" /\ Account!Finish(l) /\ UNCHANGED <<workspaces, stranded, assigned>>
      /\ users' = (IF new THEN [users EXCEPT ![e] = u] ELSE users)
      /\ lastUser' = (IF new THEN lastUser + 1 ELSE lastUser)
      /\ bound' = bound \cup {<<u.id, "tenant_A">>} /\ Account!GenerateToken(u)
  BY <1>1, PlacesAre DEF Account!NewAdmin, Account!At
<1>3. e \in Emails /\ lastUser \in Nat /\ users \in [Emails -> UserType]
  BY <1>1, <1>2, LoginFields DEF AccountsInv, AccountsTyped
<1>12. u \in UserType
  BY <1>1, <1>3, PlacesAre DEF UserType
<1>4. /\ login' \in [Logins -> {Account!Idle} \cup LoginType] /\ login'[l].pc = "idle"
      /\ \A k \in Logins \ {l} : login'[k] = login[k] /\ (Making(k)' <=> Making(k))
      /\ ~ Making(l)' /\ ~ Making(l)
  BY <1>2, FinishLogin DEF Making
<1>5. /\ users' \in [Emails -> UserType] /\ bound \subseteq bound' /\ lastUser' \in Nat /\ lastUser <= lastUser'
      /\ \A f \in Emails : \/ users'[f] = users[f]
                           \/ /\ f = e /\ users'[f] = u /\ u.id = lastUser + 1 /\ lastUser' = lastUser + 1 /\ u.role = "ADMIN"
                              /\ u.tenant = "tenant_A" /\ <<u.id, "tenant_A">> \in bound'
  BY <1>1, <1>2, <1>3, <1>12 DEF UserType
<1>6. session' \in SessionType /\ session'.role = "ADMIN"
  BY <1>1, <1>2, <1>12 DEF Account!GenerateToken, SessionType, UserType
<1>7. AccountsTyped'
  BY <1>2, <1>4, <1>5, <1>6 DEF AccountsInv, AccountsTyped
<1>13. \A f \in Emails : users[f].id \in Nat /\ users[f].id <= lastUser
  BY <1>3 DEF UserType, AccountsInv, UsersNumbered
<1>8. UsersNumbered'
  BY <1>3, <1>5, <1>13 DEF AccountsInv, UsersNumbered
<1>9. LoginsNumbered'
  BY <1>3, <1>4, <1>5, LoginsStay
<1>10. ASSUME NEW f \in Emails PROVE Housed(f)'
  <2>1. Housed(f)
    BY DEF AccountsInv
  <2> QED BY <1>2, <1>4, <1>5, <2>1 DEF Housed
<1>11. HeldBefore'
  <2>1. \A f \in Emails : users'[f].id # 0 /\ users'[f].tenant # "none" => <<users'[f].id, users'[f].tenant>> \in bound'
    BY <1>5 DEF AccountsInv, HeldBefore
  <2>2. \A k \in Logins : login'[k].pc = "known" /\ login'[k].user.tenant # "none" =>
            <<login'[k].user.id, login'[k].user.tenant>> \in bound'
    BY <1>4, <1>5 DEF AccountsInv, HeldBefore
  <2> QED BY <1>2, <1>5, <1>6, <2>1, <2>2 DEF AccountsInv, HeldBefore
<1> QED BY <1>7, <1>8, <1>9, <1>10, <1>11 DEF AccountsInv

\* A first login makes its user.
LEMMA CreateUserStep ==
  ASSUME AccountsInv, NEW l \in Logins, Account!CreateUser(l)
  PROVE  AccountsInv'
<1>1. PICK n, e, u, r : /\ n = lastUser + 1 /\ e = login[l].email /\ u = [id |-> n, role |-> "USER", tenant |-> "none"]
                        /\ r = [pc |-> "created", email |-> e, admin |-> login[l].admin, tenant |-> login[l].tenant, user |-> u]
  OBVIOUS
<1>2. /\ login[l].pc = "new" /\ users[e].id = 0 /\ UNCHANGED <<workspaces, session, bound, stranded, assigned>>
      /\ users' = [users EXCEPT ![e] = u] /\ lastUser' = n /\ login' = [login EXCEPT ![l] = r]
  <2>1. [Account!NoUser EXCEPT !.id = n] = u
    BY <1>1 DEF Account!NoUser, Account!None
  <2>2. /\ login[l].pc = "new" /\ users[e].id = 0 /\ UNCHANGED <<workspaces, session, bound, stranded, assigned>>
        /\ users' = [users EXCEPT ![e] = [Account!NoUser EXCEPT !.id = n]] /\ lastUser' = n
        /\ login' = [login EXCEPT ![l] = [pc |-> "created", email |-> @.email, admin |-> @.admin, tenant |-> @.tenant,
                                           user |-> [Account!NoUser EXCEPT !.id = n]]]
    BY <1>1 DEF Account!CreateUser, Account!At
  <2> QED BY <1>1, <2>1, <2>2
<1>3. e \in Emails /\ login[l] \in LoginType /\ lastUser \in Nat
  BY <1>1, <1>2, LoginFields DEF AccountsInv, AccountsTyped
<1>4. u \in UserType /\ u.id = lastUser + 1 /\ u.role = "USER" /\ u.tenant = "none"
  BY <1>1, <1>3, PlacesAre DEF UserType
<1>5. r \in LoginType /\ r.pc = "created" /\ r.email = e /\ r.user = u
  BY <1>1, <1>3, <1>4 DEF LoginType
<1>6. /\ login' \in [Logins -> {Account!Idle} \cup LoginType] /\ login'[l] = r
      /\ \A k \in Logins \ {l} : login'[k] = login[k] /\ (Making(k)' <=> Making(k))
      /\ ~ Making(l)
  BY <1>2, <1>5, LoginChanges DEF AccountsInv, Making
<1>7. /\ users' \in [Emails -> UserType] /\ users'[e] = u
      /\ \A f \in Emails \ {e} : users'[f] = users[f]
  BY <1>2, <1>3, <1>4 DEF AccountsInv, AccountsTyped
<1>8. AccountsTyped'
  BY <1>1, <1>2, <1>3, <1>6, <1>7 DEF AccountsInv, AccountsTyped
<1>9. \A f \in Emails : users[f].id \in Nat /\ users[f].id <= lastUser
  BY DEF AccountsInv, AccountsTyped, UserType, UsersNumbered
<1>10. UsersNumbered'
  BY <1>1, <1>2, <1>3, <1>4, <1>7, <1>9 DEF AccountsInv, UsersNumbered
<1>11. LoginsNumbered'
  <2> SUFFICES ASSUME NEW k \in Logins, Making(k)'
               PROVE  /\ login'[k].user.id \in 1 .. lastUser' /\ login'[k].user.tenant = "none"
                      /\ login'[k].pc = "bind" => login'[k].tenant \in {"readable", login'[k].email}
                      /\ \A f \in Emails : users'[f].id = login'[k].user.id => f = login'[k].email
                      /\ \A m \in Logins : Making(m)' /\ login'[m].user.id = login'[k].user.id => m = k
    BY DEF LoginsNumbered
  <2>1. \A m \in Logins \ {l} : Making(m)' => Making(m) /\ login'[m] = login[m] /\ login[m].user.id \in 1 .. lastUser
    BY <1>6 DEF AccountsInv, LoginsNumbered
  <2>2. CASE k = l
    <3>1. login'[k].user.id = lastUser + 1 /\ login'[k].user.tenant = "none" /\ login'[k].pc = "created" /\ login'[k].email = e
      BY <1>4, <1>5, <1>6, <2>2
    <3>2. \A f \in Emails : users'[f].id = lastUser + 1 => f = e
      BY <1>3, <1>7, <1>9
    <3>3. \A m \in Logins : Making(m)' /\ login'[m].user.id = lastUser + 1 => m = l
      BY <1>3, <2>1
    <3> QED BY <1>1, <1>2, <1>3, <2>2, <3>1, <3>2, <3>3
  <2>3. CASE k # l
    <3>1. Making(k) /\ login'[k] = login[k] /\ login[k].user.id \in 1 .. lastUser
      BY <2>1, <2>3
    <3>2. \A m \in Logins : Making(m)' /\ login'[m].user.id = login[k].user.id => m # l
      BY <1>3, <1>4, <1>5, <1>6, <3>1
    <3> QED BY <1>1, <1>2, <1>3, <1>4, <1>7, <2>1, <3>1, <3>2 DEF AccountsInv, LoginsNumbered
  <2> QED BY <2>2, <2>3
<1>12. ASSUME NEW f \in Emails PROVE Housed(f)'
  <2>1. CASE f = e
    <3>1. Making(l)' /\ login'[l].user.id = users'[f].id
      BY <1>5, <1>6, <1>7, <2>1 DEF Making
    <3> QED BY <3>1 DEF Housed
  <2>2. CASE f # e
    <3>1. Housed(f) /\ users'[f] = users[f]
      BY <1>7, <2>2 DEF AccountsInv
    <3>2. \A k \in Logins : Making(k) => Making(k)' /\ login'[k] = login[k]
      BY <1>6
    <3> QED BY <1>2, <3>1, <3>2 DEF Housed
  <2> QED BY <2>1, <2>2
<1>13. HeldBefore'
  BY <1>2, <1>4, <1>5, <1>6, <1>7 DEF AccountsInv, HeldBefore
<1> QED BY <1>8, <1>10, <1>11, <1>12, <1>13 DEF AccountsInv

\* It takes the workspace of the readable name, or makes one.
LEMMA FindTenantStep ==
  ASSUME AccountsInv, NEW l \in Logins, Account!AdoptTenant(l) \/ \E overlap \in BOOLEAN : Account!CreateTenant(l, overlap)
  PROVE  AccountsInv'
<1>1. PICK u, e : u = login[l].user /\ e = login[l].email
  OBVIOUS
<1>2. PICK w \in {"readable", e} :
        /\ login[l].pc = "created" /\ UNCHANGED <<users, lastUser, session, stranded, assigned>>
        /\ login' = [login EXCEPT ![l] = [pc |-> "bind", email |-> e, admin |-> login[l].admin, tenant |-> w, user |-> u]]
        /\ \/ workspaces' = workspaces /\ bound' = bound
           \/ /\ workspaces[w] = -1 /\ workspaces' = [workspaces EXCEPT ![w] = u.id] /\ bound' = bound \cup {<<u.id, w>>}
  <2>1. CASE Account!AdoptTenant(l)
    BY <1>1, <2>1, PlacesAre DEF Account!AdoptTenant, Account!At, Account!Prepare
  <2>2. CASE \E overlap \in BOOLEAN : Account!CreateTenant(l, overlap)
    BY <1>1, <2>2, PlacesAre DEF Account!CreateTenant, Account!At, Account!Exists, Account!Absent, Account!Prepare
  <2> QED BY <2>1, <2>2
<1>3. PICK r : r = [pc |-> "bind", email |-> e, admin |-> login[l].admin, tenant |-> w, user |-> u]
  OBVIOUS
<1>4. e \in Emails /\ u \in UserType /\ login[l] \in LoginType /\ w \in Account!Workspaces /\ u.id \in 1 .. lastUser /\ u.tenant = "none"
  BY <1>1, <1>2, LoginFields, PlacesAre DEF AccountsInv, LoginsNumbered, Making
<1>5. r \in LoginType /\ r.pc = "bind" /\ r.email = e /\ r.user = u /\ r.tenant = w
  BY <1>3, <1>4 DEF LoginType
<1>6. /\ login' \in [Logins -> {Account!Idle} \cup LoginType] /\ login'[l] = r
      /\ \A k \in Logins \ {l} : login'[k] = login[k] /\ (Making(k)' <=> Making(k))
      /\ Making(l) /\ Making(l)'
  BY <1>2, <1>3, <1>5, LoginChanges DEF AccountsInv, Making
<1>7. /\ workspaces' \in [Account!Workspaces -> Int] /\ bound \subseteq bound'
      /\ \A v \in Account!Workspaces : \/ workspaces'[v] = workspaces[v]
                                       \/ workspaces'[v] # -1 /\ <<workspaces'[v], v>> \in bound'
  BY <1>2, <1>4 DEF AccountsInv, AccountsTyped, UserType
<1>8. AccountsTyped' /\ UsersNumbered'
  BY <1>2, <1>6, <1>7 DEF AccountsInv, AccountsTyped, UsersNumbered
<1>9. \A k \in Logins : (Making(k)' <=> Making(k)) /\ (Making(k) => login'[k].user = login[k].user /\ login'[k].email = login[k].email)
  BY <1>1, <1>5, <1>6
<1>10. LoginsNumbered'
  <2>1. \A k \in Logins : Making(k)' /\ login'[k].pc = "bind" => login'[k].tenant \in {"readable", login'[k].email}
    BY <1>2, <1>5, <1>6 DEF AccountsInv, LoginsNumbered
  <2> QED BY <1>2, <1>9, <2>1 DEF AccountsInv, LoginsNumbered
<1>11. ASSUME NEW f \in Emails PROVE Housed(f)'
  <2>1. Housed(f) /\ users[f].tenant \in Places
    BY DEF AccountsInv, AccountsTyped, UserType
  <2>2. users[f].tenant \in {"readable", f} => users[f].tenant \in Account!Workspaces
    BY PlacesAre
  <2> QED BY <1>2, <1>7, <1>9, <2>1, <2>2 DEF Housed
<1>12. HeldBefore'
  <2>1. \A k \in Logins : login'[k].pc = "known" => login[k].pc = "known" /\ login'[k] = login[k]
    BY <1>5, <1>6
  <2> QED BY <1>2, <1>7, <2>1 DEF AccountsInv, HeldBefore
<1> QED BY <1>8, <1>10, <1>11, <1>12 DEF AccountsInv

\* The user gets the workspace, if its row and the workspace are still there.
LEMMA BindTenantStep ==
  ASSUME AccountsInv, NEW l \in Logins, Account!BindTenant(l)
  PROVE  AccountsInv'
<1>1. PICK u, e, w, mine : /\ u = login[l].user /\ e = login[l].email /\ w = login[l].tenant
                           /\ mine \in BOOLEAN /\ (mine <=> users[e].id = u.id)
  OBVIOUS
<1>2. /\ login[l].pc = "bind" /\ (mine => workspaces[w] # -1) /\ Account!Finish(l)
      /\ users' = (IF mine THEN [users EXCEPT ![e].tenant = w] ELSE users)
      /\ bound' = (IF mine THEN bound \cup {<<users[e].id, w>>} ELSE bound)
      /\ Account!GenerateToken(u) /\ UNCHANGED <<workspaces, lastUser, stranded, assigned>>
  BY <1>1 DEF Account!BindTenant, Account!At, Account!Exists, Account!Absent
<1>3. /\ e \in Emails /\ u \in UserType /\ w \in Account!Workspaces /\ w \in Places /\ w \in {"readable", e}
      /\ u.tenant = "none" /\ Making(l)
  BY <1>1, <1>2, LoginFields, PlacesAre DEF AccountsInv, LoginsNumbered, Making
<1>4. /\ login' \in [Logins -> {Account!Idle} \cup LoginType] /\ login'[l].pc = "idle"
      /\ \A k \in Logins \ {l} : login'[k] = login[k] /\ (Making(k)' <=> Making(k))
      /\ ~ Making(l)'
  BY <1>2, FinishLogin
<1>5. /\ users' \in [Emails -> UserType] /\ bound \subseteq bound'
      /\ \A f \in Emails : /\ users'[f].id = users[f].id /\ users'[f].role = users[f].role
                           /\ \/ users'[f] = users[f] /\ (f # e \/ ~ mine)
                              \/ f = e /\ mine /\ users'[f].tenant = w /\ <<users'[f].id, w>> \in bound'
  BY <1>1, <1>2, <1>3 DEF AccountsInv, AccountsTyped, UserType
<1>6. session' \in SessionType /\ session'.tenant = "none"
  BY <1>2, <1>3 DEF Account!GenerateToken, SessionType, UserType
<1>7. AccountsTyped' /\ UsersNumbered'
  BY <1>2, <1>4, <1>5, <1>6 DEF AccountsInv, AccountsTyped, UsersNumbered
<1>8. LoginsNumbered'
  <2>1. lastUser' \in Nat /\ lastUser <= lastUser'
    BY <1>2 DEF AccountsInv, AccountsTyped
  <2> QED BY <1>4, <1>5, <2>1, LoginsStay
<1>9. ASSUME NEW f \in Emails PROVE Housed(f)'
  <2>1. Housed(f)
    BY DEF AccountsInv
  <2>2. CASE f = e /\ mine
    BY <1>2, <1>3, <1>5, <2>2 DEF Housed
  <2>3. CASE ~ (f = e /\ mine)
    <3>1. users'[f] = users[f] /\ users[f].id # u.id
      BY <1>1, <1>3, <1>5, <2>3 DEF AccountsInv, LoginsNumbered
    <3> QED BY <1>1, <1>2, <1>4, <2>1, <3>1 DEF Housed
  <2> QED BY <2>2, <2>3
<1>10. HeldBefore'
  <2>1. \A k \in Logins : login'[k].pc = "known" => login[k].pc = "known" /\ login'[k] = login[k]
    BY <1>4
  <2>2. \A f \in Emails : users'[f].id # 0 /\ users'[f].tenant # "none" => <<users'[f].id, users'[f].tenant>> \in bound'
    BY <1>5 DEF AccountsInv, HeldBefore
  <2> QED BY <1>2, <1>5, <1>6, <2>1, <2>2 DEF AccountsInv, HeldBefore
<1> QED BY <1>7, <1>8, <1>9, <1>10 DEF AccountsInv

\* A login fails: its user, if it made one, is stranded.
LEMMA LoginFailsStep ==
  ASSUME AccountsInv, NEW l \in Logins, Account!LoginFails(l)
  PROVE  AccountsInv'
<1>1. /\ Account!Finish(l) /\ UNCHANGED <<users, workspaces, lastUser, session, bound, assigned>>
      /\ stranded' = IF Making(l) THEN stranded \cup {login[l].user.id} ELSE stranded
  BY DEF Account!LoginFails, Making
<1>2. /\ login' \in [Logins -> {Account!Idle} \cup LoginType] /\ login'[l].pc = "idle"
      /\ \A k \in Logins \ {l} : login'[k] = login[k] /\ (Making(k)' <=> Making(k))
      /\ ~ Making(l)'
  BY <1>1, FinishLogin
<1>3. AccountsTyped' /\ UsersNumbered'
  BY <1>1, <1>2 DEF AccountsInv, AccountsTyped, UsersNumbered
<1>4. LoginsNumbered'
  <2>1. lastUser' \in Nat /\ lastUser <= lastUser'
    BY <1>1 DEF AccountsInv, AccountsTyped
  <2> QED BY <1>1, <1>2, <2>1, LoginsStay
<1>5. ASSUME NEW f \in Emails PROVE Housed(f)'
  <2>1. Housed(f)
    BY DEF AccountsInv
  <2> QED BY <1>1, <1>2, <2>1 DEF Housed
<1>6. HeldBefore'
  <2>1. \A k \in Logins : login'[k].pc = "known" => login[k].pc = "known" /\ login'[k] = login[k]
    BY <1>2
  <2> QED BY <1>1, <2>1 DEF AccountsInv, HeldBefore
<1> QED BY <1>3, <1>4, <1>5, <1>6 DEF AccountsInv

\* A session is exchanged for one of another workspace.
LEMMA RefreshTokenStep ==
  ASSUME AccountsInv, NEW w \in Account!Workspaces, Account!RefreshToken(w)
  PROVE  AccountsInv'
<1>1. /\ session.user # 0 /\ (session.role = "ADMIN" \/ (workspaces[w] # -1 /\ workspaces[w] = session.user))
      /\ session' = [session EXCEPT !.tenant = w] /\ UNCHANGED <<users, workspaces, lastUser, login, bound, stranded, assigned>>
  BY DEF Account!RefreshToken, Account!MayEnter, Account!Exists, Account!Absent
<1>2. /\ session' \in SessionType /\ session'.role = session.role /\ session'.user = session.user /\ session'.tenant = w
      /\ session.user \in Nat
  BY <1>1, PlacesAre DEF AccountsInv, AccountsTyped, SessionType
<1>3. AccountsTyped' /\ UsersNumbered' /\ LoginsNumbered' /\ \A f \in Emails : Housed(f)'
  BY <1>1, <1>2 DEF AccountsInv, AccountsTyped, UsersNumbered, LoginsNumbered, Making, Housed
<1>4. HeldBefore'
  BY <1>1, <1>2 DEF AccountsInv, HeldBefore
<1> QED BY <1>3, <1>4 DEF AccountsInv

\* An administrator moves a user or takes its row away.
LEMMA ChangeUserStep ==
  ASSUME AccountsInv, NEW e \in Emails,
         \/ Account!DeleteUser(e)
         \/ \E role \in {"ADMIN", "USER"}, tenant \in {"none", "tenant_A", "readable"} : Account!UpdateUser(e, role, tenant)
  PROVE  AccountsInv'
<1>1. PICK u \in UserType :
        /\ UNCHANGED <<workspaces, lastUser, login, session, stranded>>
        /\ users' = [users EXCEPT ![e] = u] /\ bound \subseteq bound' /\ assigned \subseteq assigned'
        /\ u.id # 0 => /\ u.id = users[e].id /\ u.id \in assigned'
                       /\ u.tenant # "none" => <<u.id, u.tenant>> \in bound'
  <2>1. CASE Account!DeleteUser(e)
    <3>1. Account!NoUser \in UserType /\ Account!NoUser.id = 0
      BY PlacesAre DEF Account!NoUser, UserType
    <3> QED BY <2>1, <3>1 DEF Account!DeleteUser
  <2>2. ASSUME NEW role \in {"ADMIN", "USER"}, NEW tenant \in {"none", "tenant_A", "readable"}, Account!UpdateUser(e, role, tenant)
        PROVE  \E u \in UserType :
                  /\ UNCHANGED <<workspaces, lastUser, login, session, stranded>>
                  /\ users' = [users EXCEPT ![e] = u] /\ bound \subseteq bound' /\ assigned \subseteq assigned'
                  /\ u.id # 0 => /\ u.id = users[e].id /\ u.id \in assigned'
                                 /\ u.tenant # "none" => <<u.id, u.tenant>> \in bound'
    <3> DEFINE u == [id |-> users[e].id, role |-> role, tenant |-> tenant]
    <3>1. u \in UserType
      BY PlacesAre DEF AccountsInv, AccountsTyped, UserType
    <3>2. /\ UNCHANGED <<workspaces, lastUser, login, session, stranded>> /\ users' = [users EXCEPT ![e] = u]
          /\ bound' = (IF tenant = "none" THEN bound ELSE bound \cup {<<users[e].id, tenant>>})
          /\ assigned' = assigned \cup {users[e].id}
      BY <2>2, PlacesAre DEF Account!UpdateUser
    <3> QED BY <3>1, <3>2
  <2> QED BY <2>1, <2>2
<1>2. /\ users' \in [Emails -> UserType] /\ users'[e] = u
      /\ \A f \in Emails \ {e} : users'[f] = users[f]
  BY <1>1 DEF AccountsInv, AccountsTyped
<1>3. AccountsTyped'
  BY <1>1, <1>2 DEF AccountsInv, AccountsTyped
<1>4. /\ \A f \in Emails : users'[f].id \in {0, users[f].id}
      /\ lastUser \in Nat /\ lastUser' = lastUser
  BY <1>1, <1>2 DEF AccountsInv, AccountsTyped
<1>5. UsersNumbered'
  BY <1>4 DEF AccountsInv, UsersNumbered
<1>6. LoginsNumbered'
  <2>1. \A k \in Logins : Making(k)' => Making(k) /\ login'[k] = login[k]
    BY <1>1 DEF Making
  <2>2. 0 \notin 1 .. lastUser
    BY <1>4
  <2> QED BY <1>4, <2>1, <2>2, LoginsStay
<1>7. ASSUME NEW f \in Emails PROVE Housed(f)'
  <2>1. Housed(f)
    BY DEF AccountsInv
  <2> QED BY <1>1, <1>2, <2>1 DEF Housed, Making
<1>8. HeldBefore'
  <2>1. \A f \in Emails : users'[f].id # 0 /\ users'[f].tenant # "none" => <<users'[f].id, users'[f].tenant>> \in bound'
    BY <1>1, <1>2 DEF AccountsInv, HeldBefore
  <2> QED BY <1>1, <2>1 DEF AccountsInv, HeldBefore
<1> QED BY <1>3, <1>5, <1>6, <1>7, <1>8 DEF AccountsInv

\* A workspace without users is deleted.
LEMMA DeleteTenantStep ==
  ASSUME AccountsInv, NEW w \in Account!Workspaces, Account!DeleteTenant(w)
  PROVE  AccountsInv'
<1>1. /\ \A f \in Emails : users[f].tenant # w
      /\ workspaces' = [workspaces EXCEPT ![w] = -1]
      /\ UNCHANGED <<users, lastUser, login, session, bound, stranded, assigned>>
  BY DEF Account!DeleteTenant, Account!Absent
<1>2. /\ workspaces' \in [Account!Workspaces -> Int] /\ workspaces'[w] = -1
      /\ \A v \in Account!Workspaces \ {w} : workspaces'[v] = workspaces[v]
  BY <1>1 DEF AccountsInv, AccountsTyped
<1>3. AccountsTyped' /\ UsersNumbered' /\ LoginsNumbered'
  BY <1>1, <1>2 DEF AccountsInv, AccountsTyped, UsersNumbered, LoginsNumbered, Making
<1>4. ASSUME NEW f \in Emails PROVE Housed(f)'
  <2>1. Housed(f) /\ users[f].tenant # w
    BY <1>1 DEF AccountsInv
  <2>2. users[f].tenant \in {"readable", f} => users[f].tenant \in Account!Workspaces
    BY PlacesAre
  <2> QED BY <1>1, <1>2, <2>1, <2>2 DEF Housed, Making
<1>5. HeldBefore'
  BY <1>1, <1>2 DEF AccountsInv, HeldBefore
<1> QED BY <1>3, <1>4, <1>5 DEF AccountsInv

\* Users have workspaces and sessions only for their own.
LEMMA AccountsAreKept == Spec => [](service = "accounts" => Account!AccountsHold)
<1> DEFINE I == service = "accounts" => AccountsInv
<1>1. Init => I
  <2> SUFFICES ASSUME Init PROVE AccountsInv
    OBVIOUS
  <2>1. /\ users = [e \in Emails |-> Account!NoUser] /\ lastUser = 0 /\ login = [l \in Logins |-> Account!Idle]
        /\ workspaces = [w \in Account!Workspaces |-> IF w = "tenant_A" THEN 0 ELSE -1]
        /\ session = Account!NoSession /\ bound = {} /\ stranded = {} /\ assigned = {}
    BY PlacesAre DEF Init, Account!Init, Account!Absent, Account!Unowned
  <2>2. /\ Account!NoUser \in UserType /\ Account!NoUser.id = 0
        /\ Account!NoSession \in SessionType /\ Account!NoSession.tenant = "none" /\ Account!Idle.pc = "idle"
    BY PlacesAre DEF Account!NoUser, Account!NoSession, Account!Idle, UserType, SessionType
  <2>3. AccountsTyped
    BY <2>1, <2>2 DEF AccountsTyped
  <2>4. \A l \in Logins : login[l].pc = "idle" /\ ~ Making(l)
    BY <2>1, <2>2 DEF Making
  <2>5. \A e \in Emails : users[e].id = 0
    BY <2>1, <2>2
  <2> QED BY <2>1, <2>2, <2>3, <2>4, <2>5 DEF AccountsInv, UsersNumbered, LoginsNumbered, Housed, HeldBefore
<1>2. I /\ [Next]_vars => I'
  <2> SUFFICES ASSUME AccountsInv, service = "accounts", [Next]_vars PROVE AccountsInv'
    BY Frame
  <2>1. [Account!Next]_accountsVars
    BY Frame
  <2>2. CASE UNCHANGED accountsVars
    BY <2>2 DEF accountsVars, AccountsInv, AccountsTyped, UsersNumbered, LoginsNumbered, Making, Housed, HeldBefore
  <2>3. CASE Account!Next
    <3>1. \/ \E l \in Logins :
                \/ \E e \in Emails, super \in BOOLEAN : Account!SsoCallback(l, e, super)
                \/ Account!KnownUser(l) \/ Account!NewAdmin(l) \/ Account!CreateUser(l)
                \/ Account!AdoptTenant(l) \/ \E overlap \in BOOLEAN : Account!CreateTenant(l, overlap)
                \/ Account!BindTenant(l) \/ Account!LoginFails(l)
          \/ \E w \in Account!Workspaces : Account!RefreshToken(w) \/ Account!DeleteTenant(w)
          \/ \E e \in Emails :
                \/ Account!DeleteUser(e)
                \/ \E role \in {"ADMIN", "USER"}, tenant \in {"none", "tenant_A", "readable"} : Account!UpdateUser(e, role, tenant)
      BY <2>3, PlacesAre DEF Account!Next
    <3> QED BY <3>1, SsoCallbackStep, KnownUserStep, NewAdminStep, CreateUserStep, FindTenantStep, BindTenantStep, LoginFailsStep,
               RefreshTokenStep, ChangeUserStep, DeleteTenantStep
  <2> QED BY <2>1, <2>2, <2>3
<1>3. I => (service = "accounts" => Account!AccountsHold)
  <2> SUFFICES ASSUME AccountsInv PROVE Account!AccountsHold
    OBVIOUS
  <2>1. ASSUME NEW e \in Emails, users[e].id # 0, users[e].role = "USER", users[e].id \notin stranded \cup assigned,
               ~ Account!InFlight(users[e].id)
        PROVE  users[e].tenant \in {"readable", e} /\ workspaces[users[e].tenant] # -1
    <3>1. Housed(e)
      BY DEF AccountsInv
    <3>2. \A l \in Logins : Making(l) => login[l].user.id # users[e].id
      BY <2>1 DEF Account!InFlight, Making
    <3> QED BY <2>1, <3>1, <3>2 DEF Housed
  <2>2. Account!UsersAreHoused
    BY <2>1, PlacesAre DEF Account!UsersAreHoused, Account!Exists, Account!Absent
  <2>3. Account!SessionsScoped
    BY PlacesAre DEF Account!SessionsScoped, AccountsInv, HeldBefore
  <2> QED BY <2>2, <2>3 DEF Account!AccountsHold
<1> QED BY <1>1, <1>2, <1>3, PTL DEF Spec

-----------------------------------------------------------------------------
(* External systems                                                          *)

SourceType == {External!NoSource} \cup [id : Nat \ {0}, type : External!Engines, sync : External!SyncTypes, by : Nat]
TestedType == [pc : {"tested"}, engine : External!Engines, sync : External!SyncTypes, by : Nat \ {0}]
FoundType == [pc : {"found", "stored", "crawl"}, engine : External!Engines, sync : External!SyncTypes, by : Nat \ {0}, id : Nat]
RemovingType == [pc : {"removing"}, row : SourceType \ {External!NoSource}]
ClearedType == [pc : {"cleared"}, channel : Channels]
TargetType == [pc : {"set", "applied"}, on : BOOLEAN]
ClientType == {External!Idle} \cup TestedType \cup FoundType \cup RemovingType \cup ClearedType \cup TargetType

ExternalTyped ==
    /\ client \in [Clients -> ClientType] /\ source \in SourceType /\ connects \in Nat
    /\ mixed \in BOOLEAN /\ upserted \in BOOLEAN /\ clashed \in BOOLEAN

OnSource(c) == client[c].pc \in {"tested", "found", "stored", "crawl", "removing"}
OnChannel(c) == client[c].pc = "cleared"
OnTarget(c) == client[c].pc \in {"set", "applied"}

\* The foreign server that a stored source should have.
ServerOf(kept) == IF kept.sync = "VIRTUAL" /\ kept.type = "postgres" THEN kept.by ELSE 0

\* A request that has stored its source has yet to give it its server; all others find
\* the server of the source, which is the one they know.
OnTrack(c) ==
    LET p == client[c]
    IN  /\ p.pc = "stored" => /\ source.id # 0 /\ source.type = p.engine /\ source.sync = p.sync /\ source.by = p.by
                              /\ p.engine # "postgres" \/ p.sync # "VIRTUAL" => server = 0
        /\ p.pc \in {"tested", "found", "crawl", "removing"} => server = ServerOf(source)
        /\ p.pc = "found" => p.id = source.id
        /\ p.pc = "removing" => p.row = source

SourcesInv == ~ mixed =>
    /\ \A c, d \in Clients : OnSource(c) /\ OnSource(d) => c = d
    /\ \A c \in Clients : OnTrack(c)
    /\ (\A c \in Clients : ~ OnSource(c)) => server = ServerOf(source)

\* The flag is taken from all channels before one gets it.
ChannelsInv ==
    /\ defaults \subseteq existing
    /\ ~ upserted => /\ \A c, d \in Clients : OnChannel(c) /\ OnChannel(d) => c = d
                     /\ (\E c \in Clients : OnChannel(c)) => defaults = {}
                     /\ defaults = {} \/ \E x : defaults = {x}

\* A request that applies a manifest has yet to record what became of the target.
TargetMatches ==
    CASE wanted = "on" -> registry \in External!Outcomes
      [] wanted = "off" -> registry = "DISABLED"
      [] OTHER -> registry \in {"none", "ACTIVE", "DISABLED"}
TargetsInv == ~ clashed =>
    /\ \A c, d \in Clients : OnTarget(c) /\ OnTarget(d) => c = d
    /\ \A c \in Clients : client[c].pc = "applied" => wanted = IF client[c].on THEN "on" ELSE "off"
    /\ \A c \in Clients : client[c].pc = "set" => registry \in {"ACTIVE", "DISABLED"}
    /\ (\A c \in Clients : ~ OnTarget(c)) => TargetMatches

ExternalInv == ExternalTyped /\ SourcesInv /\ ChannelsInv /\ TargetsInv

\* A request is of its kind.
LEMMA ClientFields ==
  ASSUME ExternalTyped, NEW c \in Clients
  PROVE  /\ client[c].pc = "tested" => client[c] \in TestedType
         /\ client[c].pc \in {"found", "stored", "crawl"} => client[c] \in FoundType
         /\ client[c].pc = "removing" => client[c] \in RemovingType
         /\ client[c].pc = "cleared" => client[c] \in ClearedType
         /\ client[c].pc \in {"set", "applied"} => client[c] \in TargetType
BY DEF ExternalTyped, ClientType, External!Idle, TestedType, FoundType, RemovingType, ClearedType, TargetType

\* Sources, channels and targets are apart: a request about one is not about another.
LEMMA OthersRestOf ==
  ASSUME ExternalInv, NEW c \in Clients, NEW r \in ClientType, client' = [client EXCEPT ![c] = r]
  PROVE  /\ client' \in [Clients -> ClientType] /\ client'[c] = r /\ \A d \in Clients \ {c} : client'[d] = client[d]
         /\ UNCHANGED <<source, server, mixed>> /\ ~ OnSource(c) /\ ~ OnSource(c)' => SourcesInv'
         /\ UNCHANGED External!channelVars /\ ~ OnChannel(c) /\ ~ OnChannel(c)' => ChannelsInv'
         /\ UNCHANGED External!downstreamVars /\ ~ OnTarget(c) /\ ~ OnTarget(c)' => TargetsInv'
<1>1. /\ client' \in [Clients -> ClientType] /\ client'[c] = r /\ \A d \in Clients \ {c} : client'[d] = client[d]
  BY DEF ExternalInv, ExternalTyped
<1>2. ASSUME UNCHANGED <<source, server, mixed>>, ~ OnSource(c), ~ OnSource(c)' PROVE SourcesInv'
  <2>1. \A d \in Clients : (OnSource(d)' <=> OnSource(d)) /\ (OnSource(d) => client'[d] = client[d])
    BY <1>1, <1>2 DEF OnSource
  <2>2. \A d \in Clients : OnTrack(d) => OnTrack(d)'
    BY <1>1, <1>2 DEF OnTrack, OnSource, ServerOf
  <2> QED BY <1>2, <2>1, <2>2 DEF ExternalInv, SourcesInv, ServerOf
<1>3. ASSUME UNCHANGED External!channelVars, ~ OnChannel(c), ~ OnChannel(c)' PROVE ChannelsInv'
  <2>1. \A d \in Clients : OnChannel(d)' <=> OnChannel(d)
    BY <1>1, <1>3 DEF OnChannel
  <2> QED BY <1>3, <2>1 DEF ExternalInv, ChannelsInv, External!channelVars
<1>4. ASSUME UNCHANGED External!downstreamVars, ~ OnTarget(c), ~ OnTarget(c)' PROVE TargetsInv'
  <2>1. \A d \in Clients : (OnTarget(d)' <=> OnTarget(d)) /\ (OnTarget(d) => client'[d] = client[d])
    BY <1>1, <1>4 DEF OnTarget
  <2> QED BY <1>4, <2>1 DEF ExternalInv, TargetsInv, External!downstreamVars, TargetMatches, OnTarget
<1> QED BY <1>1, <1>2, <1>3, <1>4

\* What is left to show of a step on the source: that nobody else is on it, and
\* where the request that took it stands.
LEMMA SourceStep ==
  ASSUME ExternalInv, NEW c \in Clients, NEW r \in ClientType, client' = [client EXCEPT ![c] = r],
         ~ OnChannel(c), ~ OnTarget(c), r.pc \notin {"cleared", "set", "applied"},
         UNCHANGED <<External!channelVars, External!downstreamVars>>,
         source' \in SourceType, connects' \in Nat, mixed' \in BOOLEAN,
         ~ mixed' => /\ ~ mixed
                     /\ \A d \in Clients \ {c} : ~ OnSource(d)
                     /\ OnTrack(c)'
                     /\ ~ OnSource(c)' => server' = ServerOf(source')
  PROVE  ExternalInv'
<1>1. /\ client' \in [Clients -> ClientType] /\ client'[c] = r /\ \A d \in Clients \ {c} : client'[d] = client[d]
  BY OthersRestOf
<1>2. ChannelsInv' /\ TargetsInv'
  <2>1. ~ OnChannel(c)' /\ ~ OnTarget(c)'
    BY <1>1 DEF OnChannel, OnTarget
  <2> QED BY <2>1, OthersRestOf
<1>3. ExternalTyped'
  BY <1>1 DEF ExternalInv, ExternalTyped, External!channelVars, External!downstreamVars
<1>4. SourcesInv'
  <2> SUFFICES ASSUME ~ mixed' PROVE SourcesInv'
    BY DEF SourcesInv
  <2>1. \A d \in Clients \ {c} : ~ OnSource(d)'
    BY <1>1 DEF OnSource
  <2>2. \A d \in Clients \ {c} : OnTrack(d)'
    BY <2>1 DEF OnTrack, OnSource
  <2>3. \A d, e \in Clients : OnSource(d)' /\ OnSource(e)' => d = e
    BY <2>1
  <2>4. \A d \in Clients : OnTrack(d)'
    BY <2>2
  <2>5. (\A d \in Clients : ~ OnSource(d)') => server' = ServerOf(source')
    OBVIOUS
  <2> QED BY <2>3, <2>4, <2>5 DEF SourcesInv, ServerOf
<1> QED BY <1>2, <1>3, <1>4 DEF ExternalInv

\* Nobody else is on the source while it is not mixed up.
LEMMA AloneOnSource ==
  ASSUME ExternalInv, NEW c \in Clients, OnSource(c), ~ mixed
  PROVE  OnTrack(c) /\ \A d \in Clients \ {c} : ~ OnSource(d)
BY DEF ExternalInv, SourcesInv

LEMMA NobodyOnSource ==
  ASSUME ExternalInv, NEW c \in Clients, client[c] = External!Idle, mixed' = (mixed \/ External!Busy(External!OnSource) # {})
  PROVE  /\ mixed' \in BOOLEAN
         /\ ~ mixed' => ~ mixed /\ (\A d \in Clients : ~ OnSource(d)) /\ server = ServerOf(source)
<1>1. External!Busy(External!OnSource) = {d \in Clients : OnSource(d)}
  BY DEF External!Busy, External!OnSource, OnSource
<1> QED BY <1>1 DEF ExternalInv, ExternalTyped, SourcesInv

LEMMA TestConnectionStep ==
  ASSUME ExternalInv, NEW c \in Clients, NEW engine \in External!Engines, NEW sync \in External!SyncTypes,
         External!TestConnection(c, engine, sync)
  PROVE  ExternalInv'
<1>1. connects \in Nat /\ connects + 1 \in Nat \ {0} /\ source \in SourceType
  BY DEF ExternalInv, ExternalTyped
<1>2. PICK r : r = [pc |-> "tested", engine |-> engine, sync |-> sync, by |-> connects + 1]
  OBVIOUS
<1>3. r \in TestedType /\ r \in ClientType /\ r.pc = "tested"
  BY <1>1, <1>2 DEF TestedType, ClientType
<1>4. /\ client[c] = External!Idle /\ connects' = connects + 1 /\ client' = [client EXCEPT ![c] = r]
      /\ mixed' = (mixed \/ External!Busy(External!OnSource) # {})
      /\ UNCHANGED <<source, server, External!channelVars, External!downstreamVars>>
  BY <1>2 DEF External!TestConnection
<1>5. ~ OnChannel(c) /\ ~ OnTarget(c)
  BY <1>4 DEF External!Idle, OnChannel, OnTarget
<1>6. client'[c] = r
  BY <1>3, <1>4, OthersRestOf
<1>7. server = ServerOf(source) => OnTrack(c)'
  BY <1>3, <1>4, <1>6 DEF OnTrack, ServerOf
<1>8. OnSource(c)'
  BY <1>3, <1>6 DEF OnSource
<1>9. /\ mixed' \in BOOLEAN
      /\ ~ mixed' => ~ mixed /\ (\A d \in Clients : ~ OnSource(d)) /\ server = ServerOf(source)
  BY <1>4, NobodyOnSource
<1> QED BY <1>1, <1>3, <1>4, <1>5, <1>7, <1>8, <1>9, SourceStep

LEMMA ReadSourceStep ==
  ASSUME ExternalInv, NEW c \in Clients, External!ReadSource(c)
  PROVE  ExternalInv'
<1>1. connects \in Nat /\ source \in SourceType \ {External!NoSource}
  BY DEF ExternalInv, ExternalTyped, External!ReadSource
<1>2. PICK r : r = [pc |-> "removing", row |-> source]
  OBVIOUS
<1>3. r \in RemovingType /\ r \in ClientType /\ r.pc = "removing" /\ r.row = source
  BY <1>1, <1>2 DEF RemovingType, ClientType
<1>4. /\ client[c] = External!Idle /\ client' = [client EXCEPT ![c] = r]
      /\ mixed' = (mixed \/ External!Busy(External!OnSource) # {})
      /\ UNCHANGED <<source, server, connects, External!channelVars, External!downstreamVars>>
  BY <1>2 DEF External!ReadSource
<1>5. ~ OnChannel(c) /\ ~ OnTarget(c)
  BY <1>4 DEF External!Idle, OnChannel, OnTarget
<1>6. client'[c] = r
  BY <1>3, <1>4, OthersRestOf
<1>7. server = ServerOf(source) => OnTrack(c)'
  BY <1>3, <1>4, <1>6 DEF OnTrack, ServerOf
<1>8. OnSource(c)'
  BY <1>3, <1>6 DEF OnSource
<1>9. /\ mixed' \in BOOLEAN
      /\ ~ mixed' => ~ mixed /\ (\A d \in Clients : ~ OnSource(d)) /\ server = ServerOf(source)
  BY <1>4, NobodyOnSource
<1> QED BY <1>1, <1>3, <1>4, <1>5, <1>7, <1>8, <1>9, SourceStep

\* A request on the source that ends leaves it with its server.
LEMMA SourceEnds ==
  ASSUME ExternalInv, NEW c \in Clients, OnSource(c), External!Done(c),
         UNCHANGED <<External!channelVars, External!downstreamVars>>,
         source' \in SourceType, connects' \in Nat, mixed' \in BOOLEAN, mixed => mixed',
         ~ mixed' => server' = ServerOf(source')
  PROVE  ExternalInv'
<1>1. External!Idle \in ClientType /\ External!Idle.pc = "idle"
  BY DEF ClientType, External!Idle
<1>2. client' = [client EXCEPT ![c] = External!Idle]
  BY DEF External!Done
<1>3. client'[c] = External!Idle
  BY <1>1, <1>2, OthersRestOf
<1>4. OnTrack(c)' /\ ~ OnChannel(c) /\ ~ OnTarget(c)
  BY <1>1, <1>3 DEF OnTrack, OnSource, OnChannel, OnTarget
<1>5. mixed \in BOOLEAN
  BY DEF ExternalInv, ExternalTyped
<1>6. ~ mixed' => ~ mixed /\ \A d \in Clients \ {c} : ~ OnSource(d)
  BY <1>5, AloneOnSource
<1> QED BY <1>1, <1>2, <1>4, <1>6, SourceStep

\* A request that found its source goes on.
LEMMA SourceGoesOn ==
  ASSUME ExternalInv, NEW c \in Clients, client[c].pc \in {"found", "stored", "crawl"},
         NEW pc \in {"stored", "crawl"}, External!Goto(c, pc),
         UNCHANGED <<External!channelVars, External!downstreamVars>>,
         source' \in SourceType, connects' \in Nat, mixed' \in BOOLEAN, mixed => mixed',
         ~ mixed' /\ pc = "crawl" => server' = ServerOf(source'),
         ~ mixed' /\ pc = "stored" => /\ source'.id # 0 /\ source'.type = client[c].engine
                                      /\ source'.sync = client[c].sync /\ source'.by = client[c].by
                                      /\ client[c].engine # "postgres" \/ client[c].sync # "VIRTUAL" => server' = 0
  PROVE  ExternalInv'
<1>1. PICK p : p = client[c]
  OBVIOUS
<1>0. p \in FoundType
  BY <1>1, ClientFields DEF ExternalInv
<1>2. PICK r : r = [pc |-> pc, engine |-> p.engine, sync |-> p.sync, by |-> p.by, id |-> p.id]
  OBVIOUS
<1>3. r = [p EXCEPT !.pc = pc]
  BY <1>0, <1>2 DEF FoundType
<1>4. client' = [client EXCEPT ![c] = r]
  BY <1>1, <1>3 DEF External!Goto
<1>5. r \in FoundType /\ r.pc = pc
  BY <1>0, <1>2 DEF FoundType
<1>6. r \in ClientType /\ r.pc \notin {"cleared", "set", "applied"}
  BY <1>5 DEF ClientType
<1>7. client'[c] = r
  BY <1>4, <1>6, OthersRestOf
<1>8. ~ mixed' => OnTrack(c)'
  BY <1>1, <1>2, <1>5, <1>7 DEF OnTrack, ServerOf
<1>9. OnSource(c)' /\ OnSource(c) /\ ~ OnChannel(c) /\ ~ OnTarget(c)
  BY <1>5, <1>7 DEF OnSource, OnChannel, OnTarget
<1>10. mixed \in BOOLEAN
  BY DEF ExternalInv, ExternalTyped
<1>11. ~ mixed' => ~ mixed /\ \A d \in Clients \ {c} : ~ OnSource(d)
  BY <1>9, <1>10, AloneOnSource
<1> QED BY <1>4, <1>6, <1>8, <1>9, <1>11, SourceStep

LEMMA FindSourceStep ==
  ASSUME ExternalInv, NEW c \in Clients, External!FindSource(c)
  PROVE  ExternalInv'
<1>1. PICK p : p = client[c]
  OBVIOUS
<1>0. p \in TestedType
  BY <1>1, ClientFields DEF ExternalInv, External!FindSource
<1>2. source \in SourceType /\ source.id \in Nat /\ connects \in Nat /\ mixed \in BOOLEAN
  BY DEF ExternalInv, ExternalTyped, SourceType, External!NoSource
<1>3. PICK r : r = [pc |-> "found", engine |-> p.engine, sync |-> p.sync, by |-> p.by, id |-> source.id]
  OBVIOUS
<1>4. /\ client' = [client EXCEPT ![c] = r]
      /\ UNCHANGED <<source, server, connects, mixed, External!channelVars, External!downstreamVars>>
  BY <1>1, <1>3 DEF External!FindSource, External!sourceVars
<1>5. r \in FoundType /\ r.pc = "found" /\ r.id = source.id
  BY <1>0, <1>2, <1>3 DEF FoundType, TestedType
<1>6. r \in ClientType
  BY <1>5 DEF ClientType
<1>7. client'[c] = r
  BY <1>4, <1>6, OthersRestOf
<1>8. p.pc = "tested"
  BY <1>0 DEF TestedType
<1>9. OnSource(c) /\ OnSource(c)' /\ ~ OnChannel(c) /\ ~ OnTarget(c)
  BY <1>1, <1>5, <1>7, <1>8 DEF OnSource, OnChannel, OnTarget
<1>10. ~ mixed => OnTrack(c) /\ \A d \in Clients \ {c} : ~ OnSource(d)
  BY <1>9, AloneOnSource
<1>11. ~ mixed => server = ServerOf(source)
  BY <1>1, <1>8, <1>10 DEF OnTrack
<1>12. ~ mixed => OnTrack(c)'
  BY <1>4, <1>5, <1>7, <1>11 DEF OnTrack, ServerOf
<1> QED BY <1>2, <1>4, <1>5, <1>6, <1>9, <1>10, <1>12, SourceStep

LEMMA StoreSourceStep ==
  ASSUME ExternalInv, NEW c \in Clients, External!StoreSource(c)
  PROVE  ExternalInv'
<1> DEFINE new == client[c].id = 0
           added == [id |-> client[c].by, type |-> client[c].engine, sync |-> client[c].sync, by |-> client[c].by]
<1>1. /\ client[c].pc = "found"
      /\ source' = IF ~ new THEN External!Updated(source, c) ELSE IF source = External!NoSource THEN added ELSE source
      /\ IF new /\ source # External!NoSource THEN External!Done(c) ELSE External!Goto(c, "stored")
      /\ mixed' = (mixed \/ (~ new /\ External!Switches(c)))
      /\ UNCHANGED <<server, connects, External!channelVars, External!downstreamVars>>
  BY DEF External!StoreSource
<1>2. PICK p : p = client[c]
  OBVIOUS
<1>0. p \in FoundType
  BY <1>1, <1>2, ClientFields DEF ExternalInv
<1>3. /\ p.id \in Nat /\ p.by \in Nat \ {0} /\ p.engine \in External!Engines /\ p.sync \in External!SyncTypes
      /\ source \in SourceType /\ connects \in Nat /\ mixed \in BOOLEAN
  BY <1>0 DEF FoundType, ExternalInv, ExternalTyped
<1>4. source = External!NoSource <=> source.id = 0
  BY <1>3 DEF SourceType, External!NoSource
<1>5. added \in SourceType
  BY <1>2, <1>3 DEF SourceType
<1>6. PICK u : u = External!Updated(source, c)
  OBVIOUS
<1>7. u = IF source.id = p.id THEN [id |-> source.id, type |-> source.type, sync |-> p.sync, by |-> p.by] ELSE source
  BY <1>2, <1>6 DEF External!Updated
<1>8. p.id # 0 => u \in SourceType
  BY <1>3, <1>4, <1>7 DEF SourceType
<1>9. source' \in SourceType
  BY <1>1, <1>2, <1>3, <1>5, <1>6, <1>8
<1>10. mixed' \in BOOLEAN /\ (mixed => mixed') /\ connects' \in Nat /\ OnSource(c)
  BY <1>1, <1>3 DEF OnSource
<1>11. ~ mixed' => /\ ~ mixed /\ server = ServerOf(source) /\ p.id = source.id
                   /\ source.id = 0 \/ ~ External!Switches(c)
  <2> SUFFICES ASSUME ~ mixed' PROVE ~ mixed /\ OnTrack(c) /\ (new \/ ~ External!Switches(c))
    BY <1>1, <1>2 DEF OnTrack
  <2>1. ~ mixed /\ (new \/ ~ External!Switches(c))
    BY <1>1
  <2> QED BY <1>10, <2>1, AloneOnSource
<1>12. CASE new /\ source # External!NoSource
  <2>1. mixed
    BY <1>2, <1>4, <1>10, <1>11, <1>12, <1>1
  <2>2. mixed'
    BY <1>10, <2>1
  <2> QED BY <1>1, <1>9, <1>10, <1>12, <2>2, SourceEnds
<1>13. CASE ~ (new /\ source # External!NoSource)
  <2>1. ASSUME ~ mixed'
        PROVE  /\ source'.id # 0 /\ source'.type = client[c].engine
               /\ source'.sync = client[c].sync /\ source'.by = client[c].by
               /\ client[c].engine # "postgres" \/ client[c].sync # "VIRTUAL" => server' = 0
    <3>1. CASE new
      <4>1. source = External!NoSource /\ source' = added
        BY <1>1, <1>13, <3>1
      <4>2. ServerOf(source) = 0
        BY <4>1 DEF ServerOf, External!NoSource
      <4> QED BY <1>1, <1>2, <1>3, <1>11, <2>1, <4>1, <4>2
    <3>2. CASE ~ new
      <4>1. /\ source' = [id |-> source.id, type |-> source.type, sync |-> p.sync, by |-> p.by]
            /\ source.id # 0 /\ source.type = p.engine /\ ~ (source.sync = "VIRTUAL" /\ p.sync # "VIRTUAL")
        BY <1>1, <1>2, <1>6, <1>7, <1>11, <2>1, <3>2 DEF External!Switches
      <4>2. p.engine # "postgres" \/ p.sync # "VIRTUAL" => ServerOf(source) = 0
        BY <4>1 DEF ServerOf
      <4> QED BY <1>1, <1>2, <1>11, <2>1, <4>1, <4>2
    <3> QED BY <3>1, <3>2
  <2> QED BY <1>1, <1>9, <1>10, <1>13, <2>1, SourceGoesOn
<1> QED BY <1>12, <1>13

LEMMA RegisterServerStep ==
  ASSUME ExternalInv, NEW c \in Clients, External!RegisterServer(c)
  PROVE  ExternalInv'
<1>1. /\ client[c].pc = "stored" /\ External!Goto(c, "crawl")
      /\ server' = IF client[c].engine = "postgres" /\ client[c].sync = "VIRTUAL" THEN client[c].by ELSE server
      /\ UNCHANGED <<source, connects, mixed, External!channelVars, External!downstreamVars>>
  BY DEF External!RegisterServer
<1>2. source \in SourceType /\ connects \in Nat /\ mixed \in BOOLEAN /\ OnSource(c)
  BY <1>1 DEF ExternalInv, ExternalTyped, OnSource
<1>3. ~ mixed => OnTrack(c)
  BY <1>2, AloneOnSource
<1>4. ~ mixed => server' = ServerOf(source)
  BY <1>1, <1>3 DEF OnTrack, ServerOf
<1>5. ServerOf(source)' = ServerOf(source)
  BY <1>1
<1> QED BY <1>1, <1>2, <1>4, <1>5, SourceGoesOn

LEMMA InitializeSyncStep ==
  ASSUME ExternalInv, NEW c \in Clients, External!InitializeSync(c)
  PROVE  ExternalInv'
<1>1. /\ client[c].pc = "stored" /\ client[c].sync = "SYNC" /\ External!Goto(c, "crawl")
      /\ UNCHANGED <<source, server, connects, mixed, External!channelVars, External!downstreamVars>>
  BY DEF External!InitializeSync
<1>2. source \in SourceType /\ connects \in Nat /\ mixed \in BOOLEAN /\ OnSource(c)
  BY <1>1 DEF ExternalInv, ExternalTyped, OnSource
<1>3. ~ mixed => OnTrack(c)
  BY <1>2, AloneOnSource
<1>4. ~ mixed => server' = ServerOf(source')
  BY <1>1, <1>3 DEF OnTrack, ServerOf
<1> QED BY <1>1, <1>2, <1>4, SourceGoesOn

LEMMA OrchestrationFailsStep ==
  ASSUME ExternalInv, NEW c \in Clients, External!OrchestrationFails(c)
  PROVE  ExternalInv'
<1>1. /\ OnSource(c) /\ External!Done(c) /\ mixed' = TRUE
      /\ UNCHANGED <<source, server, connects, External!channelVars, External!downstreamVars>>
  BY DEF External!OrchestrationFails, OnSource
<1>2. source \in SourceType /\ connects \in Nat
  BY DEF ExternalInv, ExternalTyped
<1> QED BY <1>1, <1>2, SourceEnds

\* The end of a crawl, or of a removal that fails.
LEMMA SourceStays ==
  ASSUME ExternalInv, NEW c \in Clients, External!CrawlSource(c) \/ External!RemoveFails(c)
  PROVE  ExternalInv'
<1>1. /\ client[c].pc \in {"crawl", "removing"} /\ External!Done(c)
      /\ UNCHANGED <<source, server, connects, mixed, External!channelVars, External!downstreamVars>>
  BY DEF External!CrawlSource, External!RemoveFails, External!sourceVars
<1>2. source \in SourceType /\ connects \in Nat /\ mixed \in BOOLEAN /\ OnSource(c)
  BY <1>1 DEF ExternalInv, ExternalTyped, OnSource
<1>3. ~ mixed => server = ServerOf(source)
  BY <1>1, <1>2, AloneOnSource DEF OnTrack
<1> QED BY <1>1, <1>2, <1>3, SourceEnds

LEMMA RemoveSourceStep ==
  ASSUME ExternalInv, NEW c \in Clients, External!RemoveSource(c)
  PROVE  ExternalInv'
<1>1. PICK removed : removed = client[c].row
  OBVIOUS
<1>2. /\ client[c].pc = "removing" /\ External!Done(c)
      /\ server' = IF External!Virtual(removed.sync) /\ removed.type = "postgres" THEN 0 ELSE server
      /\ source' = IF source.id = removed.id THEN External!NoSource ELSE source
      /\ UNCHANGED <<connects, mixed, External!channelVars, External!downstreamVars>>
  BY <1>1 DEF External!RemoveSource
<1>3. source \in SourceType /\ connects \in Nat /\ mixed \in BOOLEAN /\ OnSource(c)
  BY <1>2 DEF ExternalInv, ExternalTyped, OnSource
<1>4. source' \in SourceType
  BY <1>2, <1>3 DEF SourceType
<1>5. ~ mixed => server = ServerOf(source) /\ removed = source
  BY <1>1, <1>2, <1>3, AloneOnSource DEF OnTrack
<1>6. ServerOf(External!NoSource) = 0
  BY DEF ServerOf, External!NoSource
<1>7. ~ mixed => server' = 0 /\ source' = External!NoSource
  BY <1>2, <1>5 DEF ServerOf, External!Virtual
<1> QED BY <1>2, <1>3, <1>4, <1>6, <1>7, SourceEnds

\* What is left to show of a step on the channels.
LEMMA ChannelStep ==
  ASSUME ExternalInv, NEW c \in Clients, NEW r \in ClientType, client' = [client EXCEPT ![c] = r],
         ~ OnSource(c), ~ OnTarget(c), r.pc \in {"idle", "cleared"},
         UNCHANGED <<External!sourceVars, External!downstreamVars>>,
         upserted' \in BOOLEAN, defaults' \subseteq existing',
         ~ upserted' => /\ ~ upserted
                        /\ OnChannel(c) \/ OnChannel(c)' => \A d \in Clients \ {c} : ~ OnChannel(d)
                        /\ (\E d \in Clients : OnChannel(d)') => defaults' = {}
                        /\ defaults' = {} \/ \E x : defaults' = {x}
  PROVE  ExternalInv'
<1>1. /\ client' \in [Clients -> ClientType] /\ client'[c] = r /\ \A d \in Clients \ {c} : client'[d] = client[d]
  BY OthersRestOf
<1>2. SourcesInv' /\ TargetsInv'
  <2>1. ~ OnSource(c)' /\ ~ OnTarget(c)'
    BY <1>1 DEF OnSource, OnTarget
  <2> QED BY <2>1, OthersRestOf DEF External!sourceVars
<1>3. ExternalTyped'
  BY <1>1 DEF ExternalInv, ExternalTyped, External!sourceVars, External!downstreamVars
<1>4. ASSUME ~ upserted', NEW d \in Clients, NEW e \in Clients, OnChannel(d)', OnChannel(e)' PROVE d = e
  <2>1. \A f \in Clients \ {c} : OnChannel(f)' <=> OnChannel(f)
    BY <1>1 DEF OnChannel
  <2> QED BY <1>4, <2>1 DEF ExternalInv, ChannelsInv
<1>5. ChannelsInv'
  BY <1>4 DEF ChannelsInv
<1> QED BY <1>2, <1>3, <1>5 DEF ExternalInv

\* A channel that starts to become the default of its type.
LEMMA ClearDefaultStep ==
  ASSUME ExternalInv, NEW c \in Clients, NEW channel \in Channels, External!ClearDefault(c, channel)
  PROVE  ExternalInv'
<1>1. PICK r : r = [pc |-> "cleared", channel |-> channel]
  OBVIOUS
<1>2. /\ client[c] = External!Idle /\ defaults' = {} /\ client' = [client EXCEPT ![c] = r]
      /\ upserted' = (upserted \/ External!Busy({"cleared"}) # {})
      /\ UNCHANGED <<existing, External!sourceVars, External!downstreamVars>>
  BY <1>1 DEF External!ClearDefault
<1>3. r \in ClearedType /\ r \in ClientType /\ r.pc = "cleared"
  BY <1>1 DEF ClearedType, ClientType
<1>4. ~ OnSource(c) /\ ~ OnTarget(c)
  BY <1>2 DEF External!Idle, OnSource, OnTarget
<1>5. External!Busy({"cleared"}) = {d \in Clients : OnChannel(d)}
  BY DEF External!Busy, OnChannel
<1>6. upserted \in BOOLEAN
  BY DEF ExternalInv, ExternalTyped
<1>7. upserted' \in BOOLEAN /\ (~ upserted' => ~ upserted /\ \A d \in Clients : ~ OnChannel(d))
  BY <1>2, <1>5, <1>6
<1> QED BY <1>2, <1>3, <1>4, <1>7, ChannelStep

\* It becomes the default, or its upsert fails.
LEMMA EndUpsertStep ==
  ASSUME ExternalInv, NEW c \in Clients, External!StoreDefault(c) \/ External!StoreFails(c)
  PROVE  ExternalInv'
<1>1. PICK x : x = client[c].channel
  OBVIOUS
<1>2. External!Idle \in ClientType /\ External!Idle.pc = "idle"
  BY DEF ClientType, External!Idle
<1>3. /\ client[c].pc = "cleared" /\ client' = [client EXCEPT ![c] = External!Idle]
      /\ \/ defaults' = defaults \cup {x} /\ existing' = existing \cup {x}
         \/ UNCHANGED <<defaults, existing>>
      /\ UNCHANGED <<upserted, External!sourceVars, External!downstreamVars>>
  BY <1>1 DEF External!StoreDefault, External!StoreFails, External!Done, External!channelVars
<1>4. OnChannel(c) /\ ~ OnSource(c) /\ ~ OnTarget(c)
  BY <1>3 DEF OnChannel, OnSource, OnTarget
<1>5. /\ upserted \in BOOLEAN /\ defaults \subseteq existing
      /\ ~ upserted => defaults = {} /\ \A d \in Clients \ {c} : ~ OnChannel(d)
  BY <1>4 DEF ExternalInv, ExternalTyped, ChannelsInv
<1>6. ~ upserted => \A d \in Clients : ~ OnChannel(d)'
  BY <1>2, <1>3, <1>5, OthersRestOf DEF OnChannel
<1>7. defaults' \subseteq existing'
  BY <1>3, <1>5
<1>8. ~ upserted => defaults' = {} \/ defaults' = {x}
  BY <1>3, <1>5
<1> QED BY <1>2, <1>3, <1>4, <1>5, <1>6, <1>7, <1>8, ChannelStep

\* Channels that lose the flag.
LEMMA LoseDefaultStep ==
  ASSUME ExternalInv, NEW c \in Clients, NEW channel \in Channels,
         External!StoreChannel(c, channel) \/ External!DeleteChannel(c, channel)
  PROVE  ExternalInv'
<1>1. /\ defaults' = defaults \ {channel} /\ existing' \in {existing \cup {channel}, existing \ {channel}}
      /\ UNCHANGED <<client, upserted, External!sourceVars, External!downstreamVars>>
  BY DEF External!StoreChannel, External!DeleteChannel
<1>2. SourcesInv' /\ TargetsInv' /\ ExternalTyped'
  BY <1>1 DEF ExternalInv, ExternalTyped, SourcesInv, TargetsInv, TargetMatches, OnTrack, OnSource, OnTarget,
              ServerOf, External!sourceVars, External!downstreamVars
<1>3. ChannelsInv'
  <2>1. defaults \subseteq existing
    BY DEF ExternalInv, ChannelsInv
  <2>2. defaults' \subseteq existing'
    BY <1>1, <2>1
  <2>3. ASSUME ~ upserted
        PROVE  /\ \A d, e \in Clients : OnChannel(d)' /\ OnChannel(e)' => d = e
               /\ (\E d \in Clients : OnChannel(d)') => defaults' = {}
               /\ defaults' = {} \/ \E x : defaults' = {x}
    BY <1>1, <2>3 DEF ExternalInv, ChannelsInv, OnChannel
  <2> QED BY <1>1, <2>2, <2>3 DEF ChannelsInv
<1> QED BY <1>2, <1>3 DEF ExternalInv

\* What is left to show of a step on the target.
LEMMA TargetStep ==
  ASSUME ExternalInv, NEW c \in Clients, NEW r \in ClientType, client' = [client EXCEPT ![c] = r],
         ~ OnSource(c), ~ OnChannel(c), r.pc \in {"idle", "set", "applied"},
         UNCHANGED <<External!sourceVars, External!channelVars>>,
         clashed' \in BOOLEAN,
         ~ clashed' => /\ ~ clashed
                       /\ \A d \in Clients \ {c} : ~ OnTarget(d)
                       /\ r.pc = "applied" => wanted' = IF r.on THEN "on" ELSE "off"
                       /\ r.pc = "set" => registry' \in {"ACTIVE", "DISABLED"}
                       /\ r.pc = "idle" => TargetMatches'
  PROVE  ExternalInv'
<1>1. /\ client' \in [Clients -> ClientType] /\ client'[c] = r /\ \A d \in Clients \ {c} : client'[d] = client[d]
  BY OthersRestOf
<1>2. SourcesInv' /\ ChannelsInv'
  <2>1. ~ OnSource(c)' /\ ~ OnChannel(c)'
    BY <1>1 DEF OnSource, OnChannel
  <2> QED BY <2>1, OthersRestOf DEF External!sourceVars
<1>3. ExternalTyped'
  BY <1>1 DEF ExternalInv, ExternalTyped, External!sourceVars, External!channelVars
<1>4. TargetsInv'
  <2> SUFFICES ASSUME ~ clashed' PROVE TargetsInv'
    BY DEF TargetsInv
  <2>1. \A d \in Clients \ {c} : ~ OnTarget(d)'
    BY <1>1 DEF OnTarget
  <2>2. \A d, e \in Clients : OnTarget(d)' /\ OnTarget(e)' => d = e
    BY <2>1
  <2>3. \A d \in Clients : client'[d].pc = "applied" => wanted' = IF client'[d].on THEN "on" ELSE "off"
    BY <1>1, <2>1 DEF OnTarget
  <2>4. \A d \in Clients : client'[d].pc = "set" => registry' \in {"ACTIVE", "DISABLED"}
    BY <1>1, <2>1 DEF OnTarget
  <2>5. (\A d \in Clients : ~ OnTarget(d)') => TargetMatches'
    BY <1>1 DEF OnTarget
  <2> QED BY <2>2, <2>3, <2>4, <2>5 DEF TargetsInv
<1> QED BY <1>2, <1>3, <1>4 DEF ExternalInv

\* A toggle, or an apply of another manifest, starts.
LEMMA StartTargetStep ==
  ASSUME ExternalInv, NEW c \in Clients, NEW on \in BOOLEAN, External!SetStatus(c, on) \/ External!ApplyManifest(c, on)
  PROVE  ExternalInv'
<1>1. /\ client[c] = External!Idle
      /\ clashed' = (clashed \/ External!Busy({"set", "applied"}) # {})
      /\ UNCHANGED <<External!sourceVars, External!channelVars>>
  BY DEF External!SetStatus, External!ApplyManifest
<1>2. ~ OnSource(c) /\ ~ OnChannel(c)
  BY <1>1 DEF External!Idle, OnSource, OnChannel
<1>3. External!Busy({"set", "applied"}) = {d \in Clients : OnTarget(d)}
  BY DEF External!Busy, OnTarget
<1>4. clashed \in BOOLEAN
  BY DEF ExternalInv, ExternalTyped
<1>5. clashed' \in BOOLEAN /\ (~ clashed' => ~ clashed /\ \A d \in Clients : ~ OnTarget(d))
  BY <1>1, <1>3, <1>4
<1>6. CASE External!SetStatus(c, on)
  <2>1. PICK r : r = [pc |-> "set", on |-> on]
    OBVIOUS
  <2>2. r \in TargetType /\ r \in ClientType /\ r.pc = "set"
    BY <2>1 DEF TargetType, ClientType
  <2>3. client' = [client EXCEPT ![c] = r] /\ registry' \in {"ACTIVE", "DISABLED"}
    BY <1>6, <2>1 DEF External!SetStatus
  <2> QED BY <1>1, <1>2, <1>5, <2>2, <2>3, TargetStep
<1>7. CASE External!ApplyManifest(c, on)
  <2>1. PICK r : r = [pc |-> "applied", on |-> on]
    OBVIOUS
  <2>2. r \in TargetType /\ r \in ClientType /\ r.pc = "applied" /\ r.on = on
    BY <2>1 DEF TargetType, ClientType
  <2>3. client' = [client EXCEPT ![c] = r] /\ wanted' = IF on THEN "on" ELSE "off"
    BY <1>7, <2>1 DEF External!ApplyManifest
  <2> QED BY <1>1, <1>2, <1>5, <2>2, <2>3, TargetStep
<1> QED BY <1>6, <1>7

\* A request on the target is alone on it, unless requests clashed.
LEMMA AloneOnTarget ==
  ASSUME ExternalInv, NEW c \in Clients, OnTarget(c)
  PROVE  /\ clashed \in BOOLEAN /\ ~ OnSource(c) /\ ~ OnChannel(c)
         /\ ~ clashed => \A d \in Clients \ {c} : ~ OnTarget(d)
BY DEF ExternalInv, ExternalTyped, TargetsInv, OnTarget, OnSource, OnChannel

LEMMA ReapplyManifestStep ==
  ASSUME ExternalInv, NEW c \in Clients, External!ReapplyManifest(c)
  PROVE  ExternalInv'
<1>1. PICK p : p = client[c]
  OBVIOUS
<1>2. p \in TargetType
  BY <1>1, ClientFields DEF ExternalInv, External!ReapplyManifest
<1>3. p.pc = "set" /\ UNCHANGED <<registry, clashed, External!sourceVars, External!channelVars>> /\ OnTarget(c)
  BY <1>1 DEF External!ReapplyManifest, OnTarget
<1>4. CASE wanted = "none"
  <2>1. client' = [client EXCEPT ![c] = External!Idle] /\ wanted' = "none"
    BY <1>4 DEF External!ReapplyManifest, External!Done
  <2>2. External!Idle \in ClientType /\ External!Idle.pc = "idle"
    BY DEF ClientType, External!Idle
  <2>3. ~ clashed => registry \in {"ACTIVE", "DISABLED"}
    BY <1>1, <1>3 DEF ExternalInv, TargetsInv
  <2>4. ~ clashed => TargetMatches'
    BY <1>3, <2>1, <2>3 DEF TargetMatches
  <2> QED BY <1>3, <2>1, <2>2, <2>4, AloneOnTarget, TargetStep
<1>5. CASE wanted # "none"
  <2>1. PICK r : r = [pc |-> "applied", on |-> p.on]
    OBVIOUS
  <2>2. r \in TargetType /\ r \in ClientType /\ r.pc = "applied" /\ r.on = p.on
    BY <1>2, <2>1 DEF TargetType, ClientType
  <2>3. r = [p EXCEPT !.pc = "applied"]
    BY <1>2, <2>1 DEF TargetType
  <2>4. client' = [client EXCEPT ![c] = r] /\ wanted' = IF p.on THEN "on" ELSE "off"
    BY <1>1, <1>5, <2>3 DEF External!ReapplyManifest, External!Goto
  <2> QED BY <1>3, <2>2, <2>4, AloneOnTarget, TargetStep
<1> QED BY <1>4, <1>5

\* An apply that fails or records what became of the target.
LEMMA EndTargetStep ==
  ASSUME ExternalInv, NEW c \in Clients,
         External!ReapplyFails(c) \/ \E outcome \in External!Outcomes : External!Provision(c, outcome)
  PROVE  ExternalInv'
<1>1. External!Idle \in ClientType /\ External!Idle.pc = "idle"
  BY DEF ClientType, External!Idle
<1>2. /\ client[c].pc \in {"set", "applied"} /\ client' = [client EXCEPT ![c] = External!Idle]
      /\ UNCHANGED <<wanted, External!sourceVars, External!channelVars>> /\ OnTarget(c)
      /\ \/ clashed' = TRUE
         \/ /\ clashed' = clashed /\ client[c].pc = "applied"
            /\ IF client[c].on THEN registry' \in External!Outcomes ELSE registry' = "DISABLED"
  BY DEF External!ReapplyFails, External!Provision, External!Done, OnTarget
<1>3. ~ clashed' => TargetMatches'
  BY <1>2 DEF ExternalInv, TargetsInv, TargetMatches
<1>4. clashed' \in BOOLEAN
  BY <1>2 DEF ExternalInv, ExternalTyped
<1>5. ~ OnSource(c) /\ ~ OnChannel(c) /\ (~ clashed' => ~ clashed /\ \A d \in Clients \ {c} : ~ OnTarget(d))
  BY <1>2, <1>4, AloneOnTarget
<1> QED BY <1>1, <1>2, <1>3, <1>4, <1>5, TargetStep

\* Foreign servers, channel defaults and downstream targets follow what was stored of them.
LEMMA ConnectionsAreHeld == Spec => [](service = "external" => External!Connected)
<1> DEFINE I == service = "external" => ExternalInv
<1>1. Init => I
  <2> SUFFICES ASSUME Init PROVE ExternalInv
    OBVIOUS
  <2>1. /\ source = External!NoSource /\ server = 0 /\ connects = 0 /\ mixed = FALSE
        /\ client = [c \in Clients |-> External!Idle]
        /\ defaults = {} /\ existing = {} /\ upserted = FALSE
        /\ registry = "none" /\ wanted = "none" /\ clashed = FALSE
    BY DEF Init, External!Init
  <2>2. External!Idle \in ClientType /\ \A c \in Clients : client[c] = External!Idle /\ client[c].pc = "idle"
    BY <2>1 DEF ClientType, External!Idle
  <2>3. ExternalTyped
    BY <2>1, <2>2 DEF ExternalTyped, SourceType
  <2>4. SourcesInv
    BY <2>1, <2>2 DEF SourcesInv, OnTrack, OnSource, ServerOf, External!NoSource
  <2>5. ChannelsInv /\ TargetsInv
    BY <2>1, <2>2 DEF ChannelsInv, OnChannel, TargetsInv, OnTarget, TargetMatches
  <2> QED BY <2>3, <2>4, <2>5 DEF ExternalInv
<1>2. I /\ [Next]_vars => I'
  <2> SUFFICES ASSUME ExternalInv, service = "external", [Next]_vars PROVE ExternalInv'
    BY Frame
  <2>1. [External!Next]_externalVars
    BY Frame
  <2>2. CASE UNCHANGED externalVars
    BY <2>2 DEF externalVars, ExternalInv, ExternalTyped, SourcesInv, ChannelsInv, TargetsInv, TargetMatches,
                OnTrack, OnSource, OnChannel, OnTarget, ServerOf
  <2>3. ASSUME NEW c \in Clients, External!SourceSteps(c) PROVE ExternalInv'
    BY <2>3, TestConnectionStep, FindSourceStep, StoreSourceStep, RegisterServerStep, InitializeSyncStep,
       OrchestrationFailsStep, SourceStays, ReadSourceStep, RemoveSourceStep DEF External!SourceSteps
  <2>4. ASSUME NEW c \in Clients, External!ChannelSteps(c) PROVE ExternalInv'
    BY <2>4, ClearDefaultStep, LoseDefaultStep, EndUpsertStep DEF External!ChannelSteps
  <2>5. ASSUME NEW c \in Clients, External!DownstreamSteps(c) PROVE ExternalInv'
    BY <2>5, StartTargetStep, ReapplyManifestStep, EndTargetStep DEF External!DownstreamSteps
  <2>6. CASE External!Next
    <3>1. \E c \in Clients : External!SourceSteps(c) \/ External!ChannelSteps(c) \/ External!DownstreamSteps(c)
      BY <2>6 DEF External!Next
    <3> QED BY <3>1, <2>3, <2>4, <2>5
  <2>7. External!Next \/ UNCHANGED externalVars
    BY <2>1
  <2> QED BY <2>2, <2>6, <2>7
<1>3. I => (service = "external" => External!Connected)
  <2> SUFFICES ASSUME ExternalInv PROVE External!Connected
    OBVIOUS
  <2>1. /\ External!Busy(External!OnSource) = {d \in Clients : OnSource(d)}
        /\ External!Busy({"set", "applied"}) = {d \in Clients : OnTarget(d)}
    BY DEF External!Busy, External!OnSource, OnSource, OnTarget
  <2>2. External!ServersFollowSources
    BY <2>1 DEF External!ServersFollowSources, ExternalInv, SourcesInv, ServerOf
  <2>3. ~ upserted => Cardinality(defaults) <= 1
    <3>1. ~ upserted => Cardinality(defaults) = 0 \/ Cardinality(defaults) = 1
      BY FS_EmptySet, FS_Singleton DEF ExternalInv, ChannelsInv
    <3> QED BY <3>1
  <2>4. External!OneDefault
    BY <2>3 DEF External!OneDefault, External!Cardinality, Cardinality, ExternalInv, ChannelsInv
  <2>5. External!RegistryFollowsManifest
    BY <2>1 DEF External!RegistryFollowsManifest, ExternalInv, TargetsInv, TargetMatches
  <2> QED BY <2>2, <2>4, <2>5 DEF External!Connected
<1> QED BY <1>1, <1>2, <1>3, PTL DEF Spec

\* What the platform is connected to follows what was stored of it, and users are in
\* their own workspaces (integration.service.ts, downstream_service.ts,
\* adminController.ts, ssoController.ts).
THEOREM ConnectionsAreKept == Spec => []ConnectionsHold
<1>1. (service = "external" => External!Connected) /\ (service = "accounts" => Account!AccountsHold) <=> ConnectionsHold
  BY DEF ConnectionsHold
<1> QED BY <1>1, ConnectionsAreHeld, AccountsAreKept, PTL

-----------------------------------------------------------------------------
(* CDC over Kafka                                                            *)

RunPcs == {"idle", "snapshot", "position", "baseline", "read", "send", "offset", "prune"}
RunType == [pc : RunPcs, seq : Nat, batch : Seq(Nat), published : BOOLEAN]

\* A run past its snapshot has saved the position, and nothing is ahead of the source.
KafkaTyped ==
    /\ captured \in Nat /\ pruned \in Nat /\ offset \in 0 .. captured
    /\ topic \in Seq(Nat) /\ \A i \in 1 .. Len(topic) : topic[i] <= captured
    /\ snapshot \in [KafkaJobs -> BOOLEAN] /\ run \in [KafkaJobs -> RunType]
    /\ committed \in [KafkaJobs -> Nat] /\ consumed \in [KafkaJobs -> Nat] /\ doc \in [KafkaJobs -> Nat]
RunKept(j) ==
    /\ run[j].pc \in {"snapshot", "position"} => ~ snapshot[j]
    /\ run[j].pc \in {"baseline", "read", "send", "offset", "prune"} => snapshot[j]
    /\ run[j].pc = "send" => run[j].batch # << >>
    /\ run[j].seq <= captured /\ \A i \in 1 .. Len(run[j].batch) : run[j].batch[i] <= captured
    /\ committed[j] <= consumed[j] /\ consumed[j] <= Len(topic) /\ doc[j] <= captured

\* While only j has got as far as a snapshot, the producer offset is j's: below it lies
\* what the snapshot held or the topic holds, the newest message last, and the run
\* under way knows it.
Followed(j) ==
    /\ ~ snapshot[j] => topic = << >> /\ offset = 0
    /\ run[j].pc = "baseline" => topic = << >>
    /\ run[j].pc \in {"position", "baseline"} => run[j].seq <= doc[j]
    /\ snapshot[j] /\ topic = << >> => offset <= doc[j]
    /\ run[j].pc \in {"read", "send", "prune"} => run[j].seq = offset
    /\ run[j].pc = "send" => offset < run[j].batch[Len(run[j].batch)]
    /\ run[j].pc = "offset" => topic # << >> /\ run[j].seq = topic[Len(topic)]
    /\ topic # << >> => offset <= topic[Len(topic)]
    /\ topic # << >> /\ consumed[j] = Len(topic) => doc[j] = topic[Len(topic)]

KafkaInv == KafkaTyped /\ \A j \in KafkaJobs : RunKept(j) /\ (Kafka!Sole(j) => Followed(j))

\* What a step of one run leaves to show: the other runs keep what they know.
LEMMA RunFields ==
  ASSUME KafkaInv, NEW j \in KafkaJobs
  PROVE  /\ run[j] \in RunType /\ run[j].pc \in RunPcs /\ run[j].seq \in 0 .. captured /\ run[j].batch \in Seq(Nat)
         /\ run[j].published \in BOOLEAN
         /\ snapshot[j] \in BOOLEAN /\ committed[j] \in Nat /\ consumed[j] \in Nat /\ doc[j] \in 0 .. captured
         /\ RunKept(j)
<1>1. run[j] \in RunType /\ RunKept(j) /\ captured \in Nat
  BY DEF KafkaInv, KafkaTyped
<1> QED BY <1>1 DEF KafkaInv, KafkaTyped, RunType, RunKept

\* A run that goes on to r, with snapshot, offset, topic and index untouched.
LEMMA RunGoesOn ==
  ASSUME KafkaInv, NEW j \in KafkaJobs, NEW r \in RunType, run' = [run EXCEPT ![j] = r],
         UNCHANGED <<captured, offset, topic, snapshot, committed, consumed, doc>>, pruned' \in Nat,
         r.pc \in {"snapshot", "position"} => ~ snapshot[j],
         r.pc \in {"baseline", "read", "send", "offset", "prune"} => snapshot[j],
         r.pc = "send" => r.batch # << >>,
         r.seq <= captured, \A i \in 1 .. Len(r.batch) : r.batch[i] <= captured,
         Kafka!Sole(j) =>
            /\ r.pc = "baseline" => topic = << >>
            /\ r.pc \in {"position", "baseline"} => r.seq <= doc[j]
            /\ r.pc \in {"read", "send", "prune"} => r.seq = offset
            /\ r.pc = "send" => offset < r.batch[Len(r.batch)]
            /\ r.pc = "offset" => topic # << >> /\ r.seq = topic[Len(topic)]
  PROVE  KafkaInv'
<1>1. run' \in [KafkaJobs -> RunType] /\ run'[j] = r /\ \A i \in KafkaJobs \ {j} : run'[i] = run[i]
  BY DEF KafkaInv, KafkaTyped
<1>2. KafkaTyped'
  BY <1>1 DEF KafkaInv, KafkaTyped
<1>3. ASSUME NEW i \in KafkaJobs PROVE RunKept(i)' /\ (Kafka!Sole(i)' => Followed(i)')
  <2>1. RunKept(i) /\ (Kafka!Sole(i) => Followed(i)) /\ (Kafka!Sole(i)' <=> Kafka!Sole(i))
    BY DEF KafkaInv, Kafka!Sole
  <2>2. CASE i # j
    BY <1>1, <2>1, <2>2 DEF RunKept, Followed
  <2>3. CASE i = j
    BY <1>1, <2>1, <2>3 DEF RunKept, Followed
  <2> QED BY <2>2, <2>3
<1> QED BY <1>2, <1>3 DEF KafkaInv

LEMMA StartRunStep ==
  ASSUME KafkaInv, NEW j \in KafkaJobs, Kafka!StartSnapshot(j) \/ Kafka!StartProduce(j)
  PROVE  KafkaInv'
<1>0. captured \in Nat /\ offset \in 0 .. captured /\ pruned \in Nat
  BY DEF KafkaInv, KafkaTyped
<1>1. CASE Kafka!StartSnapshot(j)
  <2>1. PICK r : r = [pc |-> "snapshot", seq |-> captured, batch |-> << >>, published |-> FALSE]
    OBVIOUS
  <2>2. r \in RunType /\ r.pc = "snapshot" /\ r.seq = captured /\ r.batch = << >> /\ Len(r.batch) = 0
    BY <1>0, <2>1 DEF RunType, RunPcs
  <2>3. /\ run' = [run EXCEPT ![j] = r] /\ ~ snapshot[j] /\ pruned' \in Nat
        /\ UNCHANGED <<captured, offset, topic, snapshot, committed, consumed, doc>>
    BY <1>0, <1>1, <2>1 DEF Kafka!StartSnapshot
  <2>4. \A i \in 1 .. Len(r.batch) : r.batch[i] <= captured
    BY <2>2
  <2>5. /\ r.pc \in {"snapshot", "position"} => ~ snapshot[j]
        /\ r.pc \notin {"baseline", "read", "send", "offset", "prune"} /\ r.seq <= captured /\ r.pc # "position"
    BY <1>0, <2>2, <2>3
  <2> QED BY <2>2, <2>3, <2>4, <2>5, RunGoesOn
<1>2. CASE Kafka!StartProduce(j)
  <2>1. PICK r : r = [pc |-> "read", seq |-> offset, batch |-> << >>, published |-> FALSE]
    OBVIOUS
  <2>2. r \in RunType /\ r.pc = "read" /\ r.seq = offset /\ r.batch = << >> /\ Len(r.batch) = 0
    BY <1>0, <2>1 DEF RunType, RunPcs
  <2>3. /\ run' = [run EXCEPT ![j] = r] /\ snapshot[j] /\ pruned' \in Nat
        /\ UNCHANGED <<captured, offset, topic, snapshot, committed, consumed, doc>>
    BY <1>0, <1>2, <2>1 DEF Kafka!StartProduce
  <2>4. \A i \in 1 .. Len(r.batch) : r.batch[i] <= captured
    BY <2>2
  <2>5. r.pc \notin {"snapshot", "position", "baseline", "send", "offset"} /\ r.seq <= captured /\ snapshot[j]
    BY <1>0, <2>2, <2>3
  <2> QED BY <2>2, <2>3, <2>4, <2>5, RunGoesOn
<1> QED BY <1>1, <1>2

\* A run that ends, or dies.
LEMMA RunEndsStep ==
  ASSUME KafkaInv, NEW j \in KafkaJobs, Kafka!PruneOutbox(j) \/ Kafka!RunDies(j)
  PROVE  KafkaInv'
<1>1. PICK r : r = [pc |-> "idle", seq |-> 0, batch |-> << >>, published |-> FALSE]
  OBVIOUS
<1>2. r \in RunType /\ r.pc = "idle" /\ r.seq = 0 /\ r.batch = << >> /\ Len(r.batch) = 0
  BY <1>1 DEF RunType, RunPcs
<1>3. run' = [run EXCEPT ![j] = r] /\ UNCHANGED <<captured, offset, topic, snapshot, committed, consumed, doc>>
  BY <1>1 DEF Kafka!PruneOutbox, Kafka!RunDies, Kafka!NoRun
<1>4. pruned \in Nat /\ captured \in Nat /\ run[j].seq \in Nat
  BY RunFields DEF KafkaInv, KafkaTyped
<1>5. Kafka!Max({pruned, run[j].seq}) \in {pruned, run[j].seq}
  BY <1>4 DEF Kafka!Max
<1>6. pruned' \in Nat
  BY <1>4, <1>5 DEF Kafka!PruneOutbox, Kafka!RunDies
<1>7. r.seq <= captured /\ \A i \in 1 .. Len(r.batch) : r.batch[i] <= captured
  BY <1>2, <1>4
<1> QED BY <1>2, <1>3, <1>6, <1>7, RunGoesOn

\* The outbox is read above the offset and above what was pruned.
LEMMA UnreadIs ==
  ASSUME NEW seq \in Nat, captured \in Nat, pruned \in Nat
  PROVE  /\ Kafka!Unread(seq) \in Seq(Nat)
         /\ \A i \in 1 .. Len(Kafka!Unread(seq)) : seq < Kafka!Unread(seq)[i] /\ Kafka!Unread(seq)[i] <= captured
<1>1. PICK first, top : first = Kafka!Max({seq, pruned}) + 1 /\ top = Kafka!Min({captured, first + SendBatch - 1})
  OBVIOUS
<1>2. first \in Nat /\ seq < first
  <2>1. \E m \in {seq, pruned} : \A n \in {seq, pruned} : m >= n
    OBVIOUS
  <2>2. Kafka!Max({seq, pruned}) \in {seq, pruned} /\ Kafka!Max({seq, pruned}) >= seq
    BY <2>1 DEF Kafka!Max
  <2> QED BY <1>1, <2>2
<1>3. top \in Int /\ top <= captured
  <2>1. first + SendBatch - 1 \in Nat
    BY <1>2, KafkaAssumption
  <2>2. PICK b : b = first + SendBatch - 1
    OBVIOUS
  <2>3. \E m \in {captured, b} : \A n \in {captured, b} : m =< n
    BY <2>1, <2>2
  <2>4. Kafka!Min({captured, b}) \in {captured, b} /\ Kafka!Min({captured, b}) <= captured
    BY <2>3 DEF Kafka!Min
  <2> QED BY <1>1, <2>1, <2>2, <2>4
<1>4. Kafka!Unread(seq) = [i \in 1 .. top - first + 1 |-> first + i - 1]
  BY <1>1 DEF Kafka!Unread
<1>5. PICK n \in Nat : n = IF top - first + 1 < 0 THEN 0 ELSE top - first + 1
  <2>1. top - first + 1 \in Int
    BY <1>2, <1>3
  <2>2. PICK count \in Int : count = top - first + 1
    BY <2>1
  <2>3. (IF count < 0 THEN 0 ELSE count) \in Nat
    OBVIOUS
  <2> QED BY <2>2, <2>3
<1>6. 1 .. top - first + 1 = 1 .. n
  BY <1>2, <1>3, <1>5
<1>7. \A i \in 1 .. n : first + i - 1 \in Nat /\ seq < first + i - 1 /\ first + i - 1 <= captured
  BY <1>2, <1>3, <1>5
<1>8. Kafka!Unread(seq) = [i \in 1 .. n |-> first + i - 1]
  BY <1>4, <1>6
<1>9. Kafka!Unread(seq) \in Seq(Nat) /\ Len(Kafka!Unread(seq)) = n
  BY <1>7, <1>8
<1> QED BY <1>7, <1>8, <1>9

\* The run has a batch, or nothing is left.
LEMMA ReadOutboxStep ==
  ASSUME KafkaInv, NEW j \in KafkaJobs, Kafka!ReadOutbox(j)
  PROVE  KafkaInv'
<1>1. PICK batch : batch = Kafka!Unread(run[j].seq)
  OBVIOUS
<1>2. /\ run[j].seq \in Nat /\ run[j].published \in BOOLEAN /\ captured \in Nat /\ pruned \in Nat /\ RunKept(j)
      /\ offset \in 0 .. captured
  BY RunFields DEF KafkaInv, KafkaTyped
<1>3. /\ batch \in Seq(Nat)
      /\ \A i \in 1 .. Len(batch) : run[j].seq < batch[i] /\ batch[i] <= captured
  BY <1>1, <1>2, UnreadIs
<1>4. PICK r : r = [pc |-> IF batch = << >> THEN "prune" ELSE "send", seq |-> run[j].seq, batch |-> batch,
                    published |-> run[j].published]
  OBVIOUS
<1>5. r \in RunType /\ r.pc = (IF batch = << >> THEN "prune" ELSE "send") /\ r.seq = run[j].seq /\ r.batch = batch
  BY <1>2, <1>3, <1>4 DEF RunType, RunPcs
<1>6. /\ run[j].pc = "read" /\ run' = [run EXCEPT ![j] = r] /\ pruned' \in Nat
      /\ UNCHANGED <<captured, offset, topic, snapshot, committed, consumed, doc>>
  BY <1>1, <1>2, <1>4 DEF Kafka!ReadOutbox
<1>7. snapshot[j] /\ (r.pc = "send" => r.batch # << >>) /\ r.seq <= captured /\ \A i \in 1 .. Len(r.batch) : r.batch[i] <= captured
  BY <1>2, <1>3, <1>5, <1>6 DEF RunKept
<1>8. ASSUME Kafka!Sole(j)
      PROVE  /\ r.pc \in {"read", "send", "prune"} => r.seq = offset
             /\ r.pc = "send" => offset < r.batch[Len(r.batch)]
  <2>1. r.seq = offset
    BY <1>5, <1>6, <1>8 DEF KafkaInv, Followed
  <2>2. batch # << >> => Len(batch) \in 1 .. Len(batch)
    BY <1>3
  <2> QED BY <1>3, <1>5, <2>1, <2>2
<1> QED BY <1>5, <1>6, <1>7, <1>8, RunGoesOn

\* A batch is sent: it ends the topic.
LEMMA SendStep ==
  ASSUME KafkaInv, NEW j \in KafkaJobs, Kafka!Send(j)
  PROVE  KafkaInv'
<1>1. PICK b, n, r : /\ b = run[j].batch /\ n = b[Len(b)]
                     /\ r = [pc |-> "offset", seq |-> n, batch |-> b, published |-> TRUE]
  OBVIOUS
<1>2. /\ run[j].pc = "send" /\ topic' = topic \o b /\ run' = [run EXCEPT ![j] = r]
      /\ UNCHANGED <<captured, pruned, offset, snapshot, committed, consumed, doc>>
  BY <1>1 DEF Kafka!Send, Kafka!Sent, Kafka!Last
<1>3. /\ b \in Seq(Nat) /\ topic \in Seq(Nat) /\ captured \in Nat /\ snapshot[j]
      /\ \A i \in 1 .. Len(b) : b[i] <= captured
      /\ \A i \in 1 .. Len(topic) : topic[i] <= captured
  BY <1>1, <1>2, RunFields DEF KafkaInv, KafkaTyped, RunKept
<1>4. /\ topic' \in Seq(Nat) /\ Len(topic') = Len(topic) + Len(b)
      /\ \A i \in 1 .. Len(topic') : topic'[i] = IF i <= Len(topic) THEN topic[i] ELSE b[i - Len(topic)]
  BY <1>2, <1>3
<1>5. b # << >> /\ n \in Nat /\ n <= captured /\ topic' # << >> /\ topic'[Len(topic')] = n /\ Len(topic') > Len(topic)
  <2>1. b # << >>
    BY <1>1, <1>2 DEF KafkaInv, RunKept
  <2>2. Len(b) \in 1 .. Len(b) /\ Len(topic) \in Nat
    BY <1>3, <2>1
  <2>3. n \in Nat /\ n <= captured
    BY <1>1, <1>3, <2>2
  <2>4. Len(topic') \in 1 .. Len(topic') /\ ~ (Len(topic') <= Len(topic)) /\ Len(topic') - Len(topic) = Len(b)
    BY <1>4, <2>2
  <2>5. topic' # << >> /\ topic'[Len(topic')] = n
    BY <1>1, <1>4, <2>4
  <2> QED BY <2>1, <2>3, <2>4, <2>5
<1>6. r \in RunType /\ r.pc = "offset" /\ r.seq = n /\ r.batch = b
  BY <1>1, <1>3, <1>5 DEF RunType, RunPcs
<1>7. run' \in [KafkaJobs -> RunType] /\ run'[j] = r /\ \A i \in KafkaJobs \ {j} : run'[i] = run[i]
  BY <1>2, <1>6 DEF KafkaInv, KafkaTyped
<1>8. \A i \in 1 .. Len(topic') : topic'[i] <= captured
  <2>1. Len(topic) \in Nat /\ Len(b) \in Nat
    BY <1>3
  <2>2. \A i \in 1 .. Len(topic') : i <= Len(topic) => i \in 1 .. Len(topic)
    BY <1>4, <2>1
  <2>3. \A i \in 1 .. Len(topic') : ~ (i <= Len(topic)) => i - Len(topic) \in 1 .. Len(b)
    BY <1>4, <2>1
  <2> QED BY <1>3, <1>4, <2>2, <2>3
<1>9. KafkaTyped'
  BY <1>2, <1>4, <1>7, <1>8 DEF KafkaInv, KafkaTyped
<1>10. ASSUME NEW i \in KafkaJobs PROVE RunKept(i)' /\ (Kafka!Sole(i)' => Followed(i)')
  <2>1. RunKept(i) /\ (Kafka!Sole(i) => Followed(i)) /\ (Kafka!Sole(i)' <=> Kafka!Sole(i))
    BY <1>2 DEF KafkaInv, Kafka!Sole
  <2>2. committed[i] <= consumed[i] /\ consumed[i] \in Nat /\ consumed[i] <= Len(topic) /\ Len(topic) \in Nat
    BY <1>3, <2>1, RunFields DEF RunKept
  <2>3. consumed'[i] <= Len(topic') /\ consumed'[i] # Len(topic')
    BY <1>2, <1>4, <1>5, <2>2
  <2>4. CASE i # j
    <3>1. RunKept(i)'
      BY <1>2, <1>7, <2>1, <2>3, <2>4 DEF RunKept
    <3>2. ~ Kafka!Sole(i)
      BY <1>3, <2>4 DEF Kafka!Sole
    <3> QED BY <2>1, <3>1, <3>2
  <2>5. CASE i = j
    <3>1. RunKept(i)'
      BY <1>2, <1>3, <1>5, <1>6, <1>7, <2>1, <2>3, <2>5 DEF RunKept
    <3>2. ASSUME Kafka!Sole(i) PROVE Followed(i)'
      <4>1. offset < n
        BY <1>1, <1>2, <2>1, <2>5, <3>2 DEF Followed
      <4>2. offset <= topic'[Len(topic')] /\ snapshot'[i]
        BY <1>2, <1>3, <1>5, <2>5, <4>1 DEF KafkaInv, KafkaTyped
      <4> QED BY <1>2, <1>5, <1>6, <1>7, <2>3, <2>5, <4>2 DEF Followed
    <3> QED BY <2>1, <3>1, <3>2
  <2> QED BY <2>4, <2>5
<1> QED BY <1>9, <1>10 DEF KafkaInv

\* The producer offset follows what was sent.
LEMMA AdvanceOffsetStep ==
  ASSUME KafkaInv, NEW j \in KafkaJobs, Kafka!AdvanceOffset(j) \/ Kafka!Baseline(j)
  PROVE  KafkaInv'
<1>1. PICK n : n = run[j].seq
  OBVIOUS
<1>2. PICK pc, seq, p : /\ run' = [run EXCEPT ![j] = [pc |-> pc, seq |-> seq, batch |-> << >>, published |-> p]]
                        /\ offset' = n /\ UNCHANGED <<captured, pruned, topic, snapshot, committed, consumed, doc>>
                        /\ \/ run[j].pc = "offset" /\ pc \in {"prune", "read"} /\ seq = n /\ p = run[j].published
                           \/ run[j].pc = "baseline" /\ pc = "idle" /\ seq = 0 /\ p = FALSE
  <2>1. CASE Kafka!AdvanceOffset(j)
    <3>1. PICK pc : pc = IF Len(run[j].batch) < SendBatch THEN "prune" ELSE "read"
      OBVIOUS
    <3>2. run' = [run EXCEPT ![j] = [pc |-> pc, seq |-> n, batch |-> << >>, published |-> run[j].published]]
      BY <1>1, <2>1, <3>1 DEF Kafka!AdvanceOffset
    <3> QED BY <1>1, <2>1, <3>1, <3>2 DEF Kafka!AdvanceOffset
  <2>2. CASE Kafka!Baseline(j)
    BY <1>1, <2>2 DEF Kafka!Baseline, Kafka!NoRun
  <2> QED BY <2>1, <2>2
<1>3. PICK r : r = [pc |-> pc, seq |-> seq, batch |-> << >>, published |-> p]
  OBVIOUS
<1>4. /\ run' = [run EXCEPT ![j] = r] /\ r.pc = pc /\ r.seq = seq /\ r.batch = << >>
  BY <1>2, <1>3
<1>5. n \in 0 .. captured /\ run[j].published \in BOOLEAN /\ captured \in Nat /\ RunKept(j)
  BY <1>1, RunFields DEF KafkaInv, KafkaTyped
<1>6. r \in RunType /\ Len(r.batch) = 0 /\ r.seq <= captured
  <2>1. pc \in RunPcs
    BY <1>2 DEF RunPcs
  <2>2. seq \in Nat /\ seq <= captured
    BY <1>2, <1>5
  <2>4. p \in BOOLEAN
    BY <1>2, <1>5
  <2>3. << >> \in Seq(Nat) /\ Len(<< >>) = 0
    OBVIOUS
  <2> QED BY <1>3, <2>1, <2>2, <2>3, <2>4 DEF RunType
<1>7. run' \in [KafkaJobs -> RunType] /\ run'[j] = r /\ \A i \in KafkaJobs \ {j} : run'[i] = run[i]
  BY <1>4, <1>6 DEF KafkaInv, KafkaTyped
<1>8. KafkaTyped'
  BY <1>2, <1>5, <1>7 DEF KafkaInv, KafkaTyped
<1>9. snapshot[j]
  BY <1>2, <1>5 DEF RunKept
<1>10. ASSUME NEW i \in KafkaJobs PROVE RunKept(i)' /\ (Kafka!Sole(i)' => Followed(i)')
  <2>1. RunKept(i) /\ (Kafka!Sole(i) => Followed(i)) /\ (Kafka!Sole(i)' <=> Kafka!Sole(i))
    BY <1>2 DEF KafkaInv, Kafka!Sole
  <2>2. CASE i # j
    <3>1. RunKept(i)'
      BY <1>2, <1>7, <2>1, <2>2 DEF RunKept
    <3>2. ~ Kafka!Sole(i)
      BY <1>9, <2>2 DEF Kafka!Sole
    <3> QED BY <2>1, <3>1, <3>2
  <2>3. CASE i = j
    <3>1. RunKept(i)'
      BY <1>2, <1>4, <1>6, <1>7, <1>9, <2>1, <2>3 DEF RunKept
    <3>2. ASSUME Kafka!Sole(i) PROVE Followed(i)'
      <4>1. CASE run[j].pc = "offset"
        <5>1. topic # << >> /\ n = topic[Len(topic)] /\ (consumed[j] = Len(topic) => doc[j] = topic[Len(topic)])
          BY <1>1, <2>1, <2>3, <3>2, <4>1 DEF Followed
        <5>2. n <= n
          BY <1>5
        <5> QED BY <1>2, <1>4, <1>7, <1>9, <2>3, <4>1, <5>1, <5>2 DEF Followed
      <4>2. CASE run[j].pc = "baseline"
        <5>1. topic = << >> /\ n <= doc[j]
          BY <1>1, <2>1, <2>3, <3>2, <4>2 DEF Followed
        <5> QED BY <1>2, <1>4, <1>7, <1>9, <2>3, <4>2, <5>1 DEF Followed
      <4> QED BY <1>2, <4>1, <4>2
    <3> QED BY <2>1, <3>1, <3>2
  <2> QED BY <2>2, <2>3
<1> QED BY <1>8, <1>10 DEF KafkaInv

\* The snapshot is read while the topic is empty, and its position saved.
LEMMA SnapshotStep ==
  ASSUME KafkaInv, NEW j \in KafkaJobs, Kafka!ReadSnapshot(j) \/ Kafka!SaveSnapshotPosition(j)
  PROVE  KafkaInv'
<1> DEFINE q(x) == [pc |-> x, seq |-> run[j].seq, batch |-> run[j].batch, published |-> run[j].published]
           To(x) == /\ x \in {"position", "baseline"} /\ run' = [run EXCEPT ![j] = q(x)]
                    /\ UNCHANGED <<captured, pruned, offset, topic, committed, consumed>>
                    /\ x = "position" => run[j].pc = "snapshot" /\ snapshot' = snapshot /\ doc' = [doc EXCEPT ![j] = captured]
                    /\ x = "baseline" => run[j].pc = "position" /\ doc' = doc /\ snapshot' = [snapshot EXCEPT ![j] = TRUE]
<1>0. PICK x : To(x)
  <2>1. CASE Kafka!ReadSnapshot(j)
    <3>1. To("position")
      BY <2>1 DEF Kafka!ReadSnapshot, Kafka!Goto
    <3> QED BY <3>1
  <2>2. CASE Kafka!SaveSnapshotPosition(j)
    <3>1. To("baseline")
      BY <2>2 DEF Kafka!SaveSnapshotPosition, Kafka!Goto
    <3> QED BY <3>1
  <2> QED BY <2>1, <2>2
<1>1. PICK r : /\ r = [pc |-> x, seq |-> run[j].seq, batch |-> run[j].batch, published |-> run[j].published]
               /\ run' = [run EXCEPT ![j] = r] /\ x \in {"position", "baseline"}
               /\ UNCHANGED <<captured, pruned, offset, topic, committed, consumed>>
               /\ \/ x = "position" /\ run[j].pc = "snapshot" /\ snapshot' = snapshot /\ doc' = [doc EXCEPT ![j] = captured]
                  \/ x = "baseline" /\ run[j].pc = "position" /\ doc' = doc /\ snapshot' = [snapshot EXCEPT ![j] = TRUE]
  BY <1>0
<1>2. captured \in Nat /\ run[j] \in RunType /\ RunKept(j) /\ doc[j] \in 0 .. captured
  BY RunFields DEF KafkaInv, KafkaTyped
<1>3. r \in RunType /\ r.pc = x /\ r.seq = run[j].seq /\ r.batch = run[j].batch
  BY <1>1, <1>2 DEF RunType, RunPcs
<1>4. run' \in [KafkaJobs -> RunType] /\ run'[j] = r /\ \A i \in KafkaJobs \ {j} : run'[i] = run[i]
  BY <1>1, <1>3 DEF KafkaInv, KafkaTyped
<1>5. /\ doc' \in [KafkaJobs -> Nat] /\ snapshot' \in [KafkaJobs -> BOOLEAN]
      /\ \A i \in KafkaJobs \ {j} : doc'[i] = doc[i] /\ snapshot'[i] = snapshot[i]
      /\ \A i \in KafkaJobs : snapshot[i] => snapshot'[i]
      /\ x = "position" => doc'[j] = captured /\ snapshot'[j] = snapshot[j]
      /\ x = "baseline" => doc'[j] = doc[j] /\ snapshot'[j]
  BY <1>1, <1>2 DEF KafkaInv, KafkaTyped
<1>6. KafkaTyped'
  BY <1>1, <1>4, <1>5 DEF KafkaInv, KafkaTyped
<1>7. ~ snapshot[j] /\ run[j].seq <= captured
  BY <1>1, <1>2 DEF RunKept
<1>8. ASSUME NEW i \in KafkaJobs PROVE RunKept(i)' /\ (Kafka!Sole(i)' => Followed(i)')
  <2>1. RunKept(i) /\ (Kafka!Sole(i) => Followed(i)) /\ (Kafka!Sole(i)' => Kafka!Sole(i))
    BY <1>5 DEF KafkaInv, Kafka!Sole
  <2>2. CASE i # j
    BY <1>1, <1>4, <1>5, <2>1, <2>2 DEF RunKept, Followed
  <2>3. CASE i = j
    <3>1. RunKept(i)'
      BY <1>1, <1>2, <1>3, <1>4, <1>5, <1>7, <2>1, <2>3 DEF RunKept
    <3>2. ASSUME Kafka!Sole(i) PROVE Followed(i)'
      <4>1. topic = << >> /\ offset = 0
        BY <1>7, <2>1, <2>3, <3>2 DEF Followed
      <4>2. x = "baseline" => run[j].seq <= doc[j]
        BY <1>1, <2>1, <2>3, <3>2 DEF Followed
      <4>3. 0 <= doc'[j] /\ (x = "position" => run[j].seq <= doc'[j])
        BY <1>1, <1>2, <1>5, <1>7
      <4> QED BY <1>1, <1>3, <1>4, <1>5, <1>7, <2>3, <4>1, <4>2, <4>3 DEF Followed
    <3> QED BY <2>1, <3>1, <3>2
  <2> QED BY <2>2, <2>3
<1> QED BY <1>6, <1>8 DEF KafkaInv

\* The source goes on.
LEMMA ChangeStep == ASSUME KafkaInv, Kafka!Change PROVE KafkaInv'
<1>1. captured' = captured + 1 /\ UNCHANGED <<pruned, offset, topic, snapshot, run, committed, consumed, doc>>
  BY DEF Kafka!Change
<1>2. KafkaTyped'
  BY <1>1 DEF KafkaInv, KafkaTyped
<1>3. ASSUME NEW i \in KafkaJobs PROVE RunKept(i)' /\ (Kafka!Sole(i)' => Followed(i)')
  <2>1. /\ run[i].seq \in 0 .. captured /\ doc[i] \in 0 .. captured /\ captured \in Nat /\ run[i].batch \in Seq(Nat)
        /\ RunKept(i) /\ (Kafka!Sole(i) => Followed(i)) /\ (Kafka!Sole(i)' <=> Kafka!Sole(i))
    BY <1>1, RunFields DEF KafkaInv, KafkaTyped, Kafka!Sole
  <2>2. \A k \in 1 .. Len(run[i].batch) : run[i].batch[k] \in Nat /\ run[i].batch[k] <= captured + 1
    BY <2>1 DEF RunKept
  <2>3. run[i].seq <= captured + 1 /\ doc[i] <= captured + 1
    BY <2>1
  <2>4. RunKept(i)'
    BY <1>1, <2>1, <2>2, <2>3 DEF RunKept
  <2>5. Followed(i) => Followed(i)'
    BY <1>1 DEF Followed
  <2> QED BY <2>1, <2>4, <2>5
<1> QED BY <1>2, <1>3 DEF KafkaInv

\* The consumer applies, commits or starts over from what it committed.
LEMMA ConsumerStep ==
  ASSUME KafkaInv, NEW j \in KafkaJobs, Kafka!Apply(j) \/ Kafka!CommitOffsets(j) \/ Kafka!ConsumerDies(j)
  PROVE  KafkaInv'
<1>1. UNCHANGED <<captured, pruned, offset, topic, snapshot, run>>
  BY DEF Kafka!Apply, Kafka!CommitOffsets, Kafka!ConsumerDies
<1>2. /\ committed[j] \in Nat /\ consumed[j] \in Nat /\ doc[j] \in 0 .. captured /\ captured \in Nat
      /\ committed[j] <= consumed[j] /\ consumed[j] <= Len(topic) /\ Len(topic) \in Nat /\ topic \in Seq(Nat)
  BY RunFields DEF KafkaInv, KafkaTyped, RunKept
<1> DEFINE To(d, n, m) ==
                     /\ doc' = [doc EXCEPT ![j] = d] /\ consumed' = [consumed EXCEPT ![j] = n]
                     /\ committed' = [committed EXCEPT ![j] = m]
                     /\ d \in 0 .. captured /\ n \in Nat /\ m \in Nat /\ m <= n /\ n <= Len(topic)
                     /\ \/ topic # << >> /\ d = topic[n]
                        \/ d = doc[j] /\ (n = consumed[j] \/ n < Len(topic))
<1>3. PICK d, n, m : To(d, n, m)
  <2>1. CASE Kafka!Apply(j)
    <3>1. PICK n : n = consumed[j] + 1
      OBVIOUS
    <3>2. /\ doc' = [doc EXCEPT ![j] = topic[n]] /\ consumed' = [consumed EXCEPT ![j] = n] /\ committed' = committed
          /\ consumed[j] < Len(topic)
      BY <2>1, <3>1 DEF Kafka!Apply
    <3>3. n \in 1 .. Len(topic) /\ committed[j] <= n
      BY <1>2, <3>1, <3>2
    <3>4. topic[n] \in 0 .. captured /\ topic # << >>
      BY <1>2, <3>3 DEF KafkaInv, KafkaTyped
    <3>5. committed' = [committed EXCEPT ![j] = committed[j]]
      BY <3>2 DEF KafkaInv, KafkaTyped
    <3>6. PICK d : d = topic[n]
      OBVIOUS
    <3>7. d \in 0 .. captured /\ n \in Nat /\ n <= Len(topic)
      BY <1>2, <3>3, <3>4, <3>6
    <3>8. To(d, n, committed[j])
      BY <1>2, <3>2, <3>3, <3>4, <3>5, <3>6, <3>7
    <3> QED BY <3>8
  <2>2. CASE Kafka!CommitOffsets(j)
    <3>1. /\ doc' = [doc EXCEPT ![j] = doc[j]] /\ consumed' = [consumed EXCEPT ![j] = consumed[j]]
          /\ committed' = [committed EXCEPT ![j] = consumed[j]]
      BY <2>2 DEF Kafka!CommitOffsets, KafkaInv, KafkaTyped
    <3>2. To(doc[j], consumed[j], consumed[j])
      BY <1>2, <3>1
    <3> QED BY <3>2
  <2>3. CASE Kafka!ConsumerDies(j)
    <3>1. /\ doc' = [doc EXCEPT ![j] = doc[j]] /\ consumed' = [consumed EXCEPT ![j] = committed[j]]
          /\ committed' = [committed EXCEPT ![j] = committed[j]] /\ consumed[j] # committed[j]
      BY <2>3 DEF Kafka!ConsumerDies, KafkaInv, KafkaTyped
    <3>2. committed[j] < Len(topic) /\ committed[j] <= committed[j]
      BY <1>2, <3>1
    <3>3. To(doc[j], committed[j], committed[j])
      BY <1>2, <3>1, <3>2
    <3> QED BY <3>3
  <2> QED BY <2>1, <2>2, <2>3
<1>4. /\ doc' \in [KafkaJobs -> Nat] /\ consumed' \in [KafkaJobs -> Nat] /\ committed' \in [KafkaJobs -> Nat]
      /\ doc'[j] = d /\ consumed'[j] = n /\ committed'[j] = m
      /\ \A i \in KafkaJobs \ {j} : doc'[i] = doc[i] /\ consumed'[i] = consumed[i] /\ committed'[i] = committed[i]
  BY <1>2, <1>3 DEF KafkaInv, KafkaTyped
<1>5. KafkaTyped'
  BY <1>1, <1>4 DEF KafkaInv, KafkaTyped
<1>6. ASSUME NEW i \in KafkaJobs PROVE RunKept(i)' /\ (Kafka!Sole(i)' => Followed(i)')
  <2>1. RunKept(i) /\ (Kafka!Sole(i) => Followed(i)) /\ (Kafka!Sole(i)' <=> Kafka!Sole(i))
    BY <1>1 DEF KafkaInv, Kafka!Sole
  <2>2. CASE i # j
    BY <1>1, <1>4, <2>1, <2>2 DEF RunKept, Followed
  <2>3. CASE i = j
    <3>1. RunKept(i)'
      BY <1>1, <1>2, <1>3, <1>4, <2>1, <2>3 DEF RunKept
    <3>2. ASSUME Kafka!Sole(i) PROVE Followed(i)'
      <4>1. topic # << >> /\ n = Len(topic) => d = topic[Len(topic)]
        BY <1>2, <1>3, <2>1, <2>3, <3>2 DEF Followed
      <4>2. topic = << >> => d = doc[j]
        BY <1>3
      <4>3. run[j].pc \in {"position", "baseline"} => topic = << >>
        BY <2>1, <2>3, <3>2 DEF Followed, RunKept
      <4> QED BY <1>1, <1>4, <2>1, <2>3, <3>2, <4>1, <4>2, <4>3 DEF Followed
    <3> QED BY <2>1, <3>1, <3>2
  <2> QED BY <2>2, <2>3
<1> QED BY <1>5, <1>6 DEF KafkaInv

\* An index is current once all that its table captured was sent and applied, as long
\* as no other job of the table has moved the producer offset.
THEOREM DrainedIsAlwaysCurrent == Spec => []DrainedIsCurrent
<1> DEFINE I == service = "kafka" => KafkaInv
<1>1. Init => I
  <2> SUFFICES ASSUME Init PROVE KafkaInv
    OBVIOUS
  <2>1. /\ captured = 1 /\ pruned = 0 /\ offset = 0 /\ topic = << >>
        /\ snapshot = [j \in KafkaJobs |-> FALSE] /\ run = [j \in KafkaJobs |-> Kafka!NoRun]
        /\ committed = [j \in KafkaJobs |-> 0] /\ consumed = [j \in KafkaJobs |-> 0]
        /\ doc = [j \in KafkaJobs |-> 0]
    BY DEF Init, Kafka!Init
  <2>2. Kafka!NoRun \in RunType /\ Kafka!NoRun.pc = "idle" /\ Kafka!NoRun.seq = 0 /\ Len(Kafka!NoRun.batch) = 0
    BY DEF Kafka!NoRun, RunType, RunPcs
  <2>3. topic \in Seq(Nat) /\ Len(topic) = 0
    BY <2>1
  <2>4. KafkaTyped
    BY <2>1, <2>2, <2>3 DEF KafkaTyped
  <2> QED BY <2>1, <2>2, <2>3, <2>4 DEF KafkaInv, RunKept, Followed
<1>2. I /\ [Next]_vars => I'
  <2> SUFFICES ASSUME KafkaInv, service = "kafka", [Next]_vars PROVE KafkaInv'
    BY Frame
  <2>1. [Kafka!Next]_kafkaVars
    BY Frame
  <2>2. CASE UNCHANGED kafkaVars
    BY <2>2 DEF kafkaVars, KafkaInv, KafkaTyped, RunKept, Followed, Kafka!Sole
  <2>3. ASSUME NEW j \in KafkaJobs, Kafka!RunStep(j) PROVE KafkaInv'
    BY <2>3, StartRunStep, SnapshotStep, AdvanceOffsetStep, ReadOutboxStep, SendStep, RunEndsStep DEF Kafka!RunStep
  <2>4. CASE Kafka!Next
    <3>1. Kafka!Change \/ \E j \in KafkaJobs : Kafka!RunStep(j) \/ Kafka!Apply(j) \/ Kafka!CommitOffsets(j) \/ Kafka!ConsumerDies(j)
      BY <2>4 DEF Kafka!Next
    <3> QED BY <3>1, <2>3, ChangeStep, ConsumerStep
  <2> QED BY <2>1, <2>2, <2>4
<1>3. I => DrainedIsCurrent
  <2> SUFFICES ASSUME KafkaInv, NEW j \in KafkaJobs, Kafka!Drained(j), Kafka!Sole(j) PROVE doc[j] = captured
    BY DEF DrainedIsCurrent, Kafka!DrainedIsCurrent
  <2>1. Followed(j) /\ snapshot[j] /\ offset >= captured /\ offset \in 0 .. captured /\ consumed[j] = Len(topic)
    BY DEF KafkaInv, KafkaTyped, Kafka!Drained
  <2>2. doc[j] \in 0 .. captured /\ captured \in Nat /\ topic \in Seq(Nat)
    BY RunFields DEF KafkaInv, KafkaTyped
  <2>3. CASE topic = << >>
    BY <2>1, <2>2, <2>3 DEF Followed
  <2>4. CASE topic # << >>
    <3>1. Len(topic) \in 1 .. Len(topic)
      BY <2>2, <2>4
    <3>2. topic[Len(topic)] \in 0 .. captured
      BY <2>2, <3>1 DEF KafkaInv, KafkaTyped
    <3> QED BY <2>1, <2>2, <2>4, <3>2 DEF Followed
  <2> QED BY <2>3, <2>4
<1> QED BY <1>1, <1>2, <1>3, PTL DEF Spec

-----------------------------------------------------------------------------
(* Replication by watermark                                                  *)

RowType == [mark : Nat \ {0}, version : Nat \ {0}]
NoRow == Watermark!Absent
LoadType == [on : BOOLEAN, next : Nat \ {0}, resumed : BOOLEAN]

\* The keys that the incremental run has read.
ReadKeys == DOMAIN delta.batch

\* A row that the source has held.
Held(r) == r.mark <= time /\ r.version <= versions

MarkTyped ==
    /\ time \in Nat \ {0} /\ versions \in Nat \ {0} /\ mark \in 0 .. time
    /\ table \in [Rows -> {NoRow} \cup RowType] /\ \A k \in Rows : Held(table[k])
    /\ copy \in [Rows -> {NoRow} \cup RowType] /\ \A k \in Rows : Held(copy[k])
    /\ open = Watermark!NoTx \/ (open.key \in Rows /\ open.mark \in 1 .. time)
    /\ load \in {Watermark!NoLoad} \cup LoadType /\ (load.on => partial) /\ (partial => load \in LoadType)
    /\ partial \in BOOLEAN /\ exposed \subseteq Rows
    /\ delta = Watermark!NoDelta \/
         (delta.on /\ ReadKeys \subseteq Rows /\ delta.batch \in [ReadKeys -> RowType] /\ \A k \in ReadKeys : Held(delta.batch[k]))

\* A replication run has its job for itself, and only replicas start from a mark.
RunsAreAlone == /\ job.dest = "replica" => ~ load.on \/ ~ delta.on
                /\ job.initial = "NONE" => job.dest = "replica"

Live == Watermark!Live(table)
Covered(k) == copy[k] # NoRow /\ (job.updates => copy[k] = table[k])

\* What was read of a row is what the source holds, or older.
ReadBefore ==
    \A k \in ReadKeys \cap Live : /\ delta.batch[k].version <= table[k].version
                                  /\ delta.batch[k].version = table[k].version => delta.batch[k] = table[k]

\* The rows that a full load has passed are in the replica.
LoadCovers == partial => \A k \in Live \ exposed : k < load.next => Covered(k)

\* The rows up to the highest mark that was read will be in the replica: they were
\* read, they are there, or the full load has yet to come to them.
DeltaCovers ==
    \A k \in Live \ exposed, i \in ReadKeys : table[k].mark <= delta.batch[i].mark =>
        \/ partial /\ ~ (k < load.next)
        \/ k \in ReadKeys /\ (job.updates => delta.batch[k] = table[k] \/ copy[k].version > delta.batch[k].version)
        \/ k \notin ReadKeys /\ Covered(k)

MarkInv == MarkTyped /\ RunsAreAlone /\ ReadBefore /\ LoadCovers /\ DeltaCovers /\ Watermark!MarkIsCovered

\* The keys are numbered from 1.
LEMMA RowsNumbered == \E n \in Nat : Rows = 1 .. n
BY WatermarkAssumption, FS_CardinalityType

\* The highest of some marks is one of them.
LEMMA HighestMark ==
  ASSUME NEW n \in Nat, NEW T \in SUBSET (0 .. n)
  PROVE  /\ Watermark!MaxMark(T) \in 0 .. n /\ \A y \in T : y <= Watermark!MaxMark(T)
         /\ T # {} => Watermark!MaxMark(T) \in T
<1>1. CASE T = {}
  BY <1>1 DEF Watermark!MaxMark
<1>2. CASE T # {}
  <2>1. \E x \in T : \A y \in T : y <= x
    BY <1>2, Greatest
  <2>2. \A x, y \in T : y <= x <=> x >= y
    OBVIOUS
  <2>3. \E x \in T : \A y \in T : x >= y
    BY <2>1, <2>2
  <2>4. Watermark!Max(T) \in T /\ \A y \in T : Watermark!Max(T) >= y
    BY <2>3 DEF Watermark!Max
  <2> QED BY <1>2, <2>2, <2>4 DEF Watermark!MaxMark
<1> QED BY <1>1, <1>2

\* The fields of a row.
LEMMA RowFields ==
  ASSUME MarkTyped
  PROVE  /\ NoRow.mark = 0 /\ NoRow.version = 0
         /\ \A k \in Rows : /\ table[k].mark \in 0 .. time /\ table[k].version \in 0 .. versions
                            /\ copy[k].mark \in 0 .. time /\ copy[k].version \in 0 .. versions
         /\ \A k \in ReadKeys : k \in Rows /\ delta.batch[k].mark \in 1 .. time /\ delta.batch[k].version \in 1 .. versions
                                /\ delta.batch[k] # NoRow
         /\ Live \subseteq Rows /\ \A k \in Live : k \in Rows /\ table[k] \in RowType /\ table[k] # NoRow
<1>1. NoRow.mark = 0 /\ NoRow.version = 0
  BY DEF NoRow, Watermark!Absent
<1>2. \A r \in {NoRow} \cup RowType : r.mark \in Nat /\ r.version \in Nat
  BY <1>1 DEF RowType
<1>3. \A k \in Rows : table[k] \in {NoRow} \cup RowType /\ copy[k] \in {NoRow} \cup RowType
  BY DEF MarkTyped
<1>4. time \in Nat /\ versions \in Nat
  BY DEF MarkTyped
<1>5. ASSUME NEW k \in Rows
      PROVE  /\ table[k].mark \in 0 .. time /\ table[k].version \in 0 .. versions
             /\ copy[k].mark \in 0 .. time /\ copy[k].version \in 0 .. versions
  BY <1>2, <1>3, <1>4 DEF MarkTyped, Held
<1>6. ASSUME NEW k \in ReadKeys
      PROVE  k \in Rows /\ delta.batch[k].mark \in 1 .. time /\ delta.batch[k].version \in 1 .. versions /\ delta.batch[k] # NoRow
  <2>1. delta # Watermark!NoDelta
    BY DEF ReadKeys, Watermark!NoDelta
  <2>2. delta.batch[k] \in RowType /\ Held(delta.batch[k]) /\ k \in Rows
    BY <2>1 DEF MarkTyped
  <2> QED BY <1>1, <1>4, <2>2 DEF RowType, Held
<1>7. Live \subseteq Rows /\ \A k \in Live : k \in Rows /\ table[k] \in RowType /\ table[k] # NoRow
  BY <1>3 DEF Live, Watermark!Live, NoRow
<1> QED BY <1>1, <1>5, <1>6, <1>7

\* The marks of rows that were read, or the mark itself, are below the highest of them.
LEMMA ReadMarks ==
  ASSUME MarkTyped
  PROVE  /\ {mark} \cup {delta.batch[i].mark : i \in ReadKeys} \in SUBSET (0 .. time)
         /\ {delta.batch[i].mark : i \in ReadKeys} \in SUBSET (0 .. time)
         /\ {table[k].mark : k \in Rows} \in SUBSET (0 .. time) /\ {copy[k].mark : k \in Rows} \in SUBSET (0 .. time)
         /\ time \in Nat
<1>1. mark \in 0 .. time /\ time \in Nat
  BY DEF MarkTyped
<1>2. \A i \in ReadKeys : delta.batch[i].mark \in 0 .. time
  BY <1>1, RowFields
<1>3. \A k \in Rows : table[k].mark \in 0 .. time /\ copy[k].mark \in 0 .. time
  BY RowFields
<1> QED BY <1>1, <1>2, <1>3

\* The clock runs, and a transaction begins.
LEMMA TickStep ==
  ASSUME MarkInv, Watermark!Tick \/ \E k \in Rows : Watermark!BeginWrite(k)
  PROVE  MarkInv'
<1>1. /\ UNCHANGED <<job, table, versions, copy, mark, load, delta, partial, exposed>>
      /\ \/ time' = time + 1 /\ open' = open
         \/ \E k \in Rows : time' = time /\ open' = [key |-> k, mark |-> time]
  BY DEF Watermark!Tick, Watermark!BeginWrite
<1>2. time \in Nat \ {0} /\ \A x : x \in 0 .. time => x \in 0 .. time' /\ (x \in 1 .. time => x \in 1 .. time')
  BY <1>1 DEF MarkInv, MarkTyped
<1>3. /\ \A k \in Rows : table[k].mark \in 0 .. time /\ table[k].version \in 0 .. versions
                         /\ copy[k].mark \in 0 .. time /\ copy[k].version \in 0 .. versions
      /\ \A k \in ReadKeys : delta.batch[k].mark \in 0 .. time /\ delta.batch[k].version \in 0 .. versions
  BY RowFields DEF MarkInv, MarkTyped
<1>4. /\ \A k \in Rows : Held(table[k])' /\ Held(copy[k])'
      /\ \A k \in ReadKeys : Held(delta.batch[k])'
  <2>1. \A x : x \in 0 .. time => x <= time'
    BY <1>1, <1>2
  <2>2. \A x : x \in 0 .. versions => x <= versions
    OBVIOUS
  <2> QED BY <1>1, <1>3, <2>1, <2>2 DEF Held
<1>5. (open = Watermark!NoTx \/ (open.key \in Rows /\ open.mark \in 1 .. time))'
  BY <1>1, <1>2 DEF MarkInv, MarkTyped, Watermark!NoTx
<1>6. MarkTyped'
  <2>1. time' \in Nat \ {0} /\ mark' \in 0 .. time'
    BY <1>1, <1>2 DEF MarkInv, MarkTyped
  <2> QED BY <1>1, <1>4, <1>5, <2>1 DEF MarkInv, MarkTyped, ReadKeys
<1> QED BY <1>1, <1>6 DEF MarkInv, RunsAreAlone, ReadBefore, LoadCovers, DeltaCovers, Live, Covered, ReadKeys, Watermark!MarkIsCovered

\* A row goes.
LEMMA DeleteRowStep ==
  ASSUME MarkInv, NEW k \in Rows, Watermark!Delete(k)
  PROVE  MarkInv'
<1>1. /\ UNCHANGED <<job, open, time, versions, copy, mark, load, delta, partial, exposed>>
      /\ table' = [table EXCEPT ![k] = NoRow]
  BY DEF Watermark!Delete, NoRow
<1>2. /\ table' \in [Rows -> {NoRow} \cup RowType] /\ table'[k] = NoRow
      /\ \A i \in Rows \ {k} : table'[i] = table[i]
  BY <1>1 DEF MarkInv, MarkTyped
<1>3. Held(NoRow)
  BY DEF Held, NoRow, Watermark!Absent, MarkInv, MarkTyped
<1>4. MarkTyped'
  BY <1>1, <1>2, <1>3 DEF MarkInv, MarkTyped, Held, ReadKeys
<1>5. \A i \in Live' : i \in Live /\ i # k /\ table'[i] = table[i] /\ i \in Rows
  BY <1>2 DEF Live, Watermark!Live, NoRow
<1>6. \A i \in Live' : Covered(i)' <=> Covered(i)
  BY <1>1, <1>5 DEF Covered
<1>7. Live = Watermark!Live(table) /\ Live' = Watermark!Live(table')
  BY DEF Live
<1>8. ReadBefore' /\ LoadCovers' /\ DeltaCovers'
  BY <1>1, <1>5, <1>6 DEF MarkInv, ReadBefore, LoadCovers, DeltaCovers, ReadKeys
<1>9. Watermark!MarkIsCovered'
  BY <1>1, <1>5, <1>6, <1>7 DEF MarkInv, Watermark!MarkIsCovered, Covered
<1> QED BY <1>1, <1>4, <1>8, <1>9 DEF MarkInv, RunsAreAlone

\* A transaction commits: its row is exposed, or its mark is above every other.
LEMMA CommitWriteStep ==
  ASSUME MarkInv, Watermark!CommitWrite
  PROVE  MarkInv'
<1> DEFINE m(k) == IF Watermark!Moves(k) THEN open.mark ELSE table[k].mark
           To(k, r) == /\ open.key = k /\ k \in Rows /\ r.mark = m(k) /\ r.version = versions + 1 /\ r \in RowType /\ r.mark <= time
                       /\ table' = [table EXCEPT ![k] = r]
                       /\ exposed' = IF ~Watermark!Moves(k) THEN exposed
                                     ELSE IF Watermark!Hidden(m(k)) THEN exposed \cup {k} ELSE exposed \ {k}
<1>1. /\ UNCHANGED <<job, time, copy, mark, load, delta, partial>>
      /\ versions' = versions + 1 /\ open' = Watermark!NoTx /\ open # Watermark!NoTx
  BY DEF Watermark!CommitWrite
<1>2. PICK k, r : To(k, r)
  <2>1. PICK k : k = open.key
    OBVIOUS
  <2>2. k \in Rows /\ open.mark \in 1 .. time /\ time \in Nat \ {0} /\ versions \in Nat \ {0}
    BY <1>1, <2>1 DEF MarkInv, MarkTyped
  <2>3. table[k] # NoRow => table[k] \in RowType /\ table[k].mark \in 0 .. time
    BY <2>2, RowFields DEF MarkInv, MarkTyped
  <2>4. Watermark!Moves(k) \/ table[k] # NoRow
    BY DEF Watermark!Moves, NoRow
  <2>5. m(k) \in Nat \ {0} /\ m(k) <= time
    BY <2>2, <2>3, <2>4 DEF RowType
  <2>6. PICK r : r = [mark |-> m(k), version |-> versions + 1]
    OBVIOUS
  <2>7. versions + 1 \in Nat \ {0}
    BY <2>2
  <2>8. r.mark = m(k) /\ r.version = versions + 1 /\ r \in RowType
    BY <2>5, <2>6, <2>7 DEF RowType
  <2>9. /\ table' = [table EXCEPT ![k] = r]
        /\ exposed' = IF ~Watermark!Moves(k) THEN exposed
                      ELSE IF Watermark!Hidden(m(k)) THEN exposed \cup {k} ELSE exposed \ {k}
    BY <2>1, <2>6 DEF Watermark!CommitWrite
  <2>10. To(k, r)
    BY <2>1, <2>2, <2>5, <2>8, <2>9
  <2> QED BY <2>10
<1>3. /\ table' \in [Rows -> {NoRow} \cup RowType] /\ table'[k] = r /\ k \in Rows
      /\ \A i \in Rows \ {k} : table'[i] = table[i]
  BY <1>2 DEF MarkInv, MarkTyped
<1>4. /\ \A i \in Rows : table[i].version \in 0 .. versions /\ copy[i].version \in 0 .. versions
                         /\ table[i].mark \in 0 .. time /\ copy[i].mark \in 0 .. time
      /\ \A i \in ReadKeys : delta.batch[i].version \in 0 .. versions /\ delta.batch[i].mark \in 0 .. time /\ i \in Rows
      /\ versions \in Nat /\ time \in Nat
  BY RowFields DEF MarkInv, MarkTyped
<1>5. /\ \A i \in Rows : Held(table[i])' /\ Held(copy[i])'
      /\ \A i \in ReadKeys : Held(delta.batch[i])'
  <2>1. \A x : x \in 0 .. versions => x <= versions + 1
    BY <1>4
  <2>2. \A x : x \in 0 .. time => x <= time
    OBVIOUS
  <2>3. r.mark <= time /\ r.version <= versions + 1
    BY <1>2, <1>4
  <2>4. \A i \in Rows : Held(copy[i])'
    BY <1>1, <1>4, <2>1, <2>2 DEF Held
  <2>5. \A i \in ReadKeys : Held(delta.batch[i])'
    BY <1>1, <1>4, <2>1, <2>2 DEF Held
  <2>6. ASSUME NEW i \in Rows PROVE Held(table[i])'
    <3>1. CASE i = k
      BY <1>1, <1>3, <2>3, <3>1 DEF Held
    <3>2. CASE i # k
      BY <1>1, <1>3, <1>4, <2>1, <2>2, <3>2 DEF Held
    <3> QED BY <3>1, <3>2
  <2> QED BY <2>4, <2>5, <2>6
<1>6. MarkTyped'
  <2>1. exposed' \subseteq Rows /\ versions' \in Nat \ {0}
    BY <1>1, <1>2, <1>4 DEF MarkInv, MarkTyped
  <2> QED BY <1>1, <1>3, <1>5, <2>1 DEF MarkInv, MarkTyped, ReadKeys
<1>7. Live' = Live \cup {k} /\ \A i \in Live' \ {k} : i \in Live /\ table'[i] = table[i] /\ i \in Rows /\ (i \in exposed' <=> i \in exposed)
  <2>1. r # NoRow
    BY <1>2 DEF RowType, NoRow, Watermark!Absent
  <2> QED BY <1>2, <1>3, <2>1 DEF Live, Watermark!Live, NoRow
<1>8. \A i \in Live' \ {k} : Covered(i)' <=> Covered(i)
  BY <1>1, <1>7 DEF Covered
<1>9. ReadBefore'
  <2>1. \A i \in ReadKeys : delta.batch[i].version <= versions + 1 /\ delta.batch[i].version # versions + 1
    BY <1>4
  <2> QED BY <1>1, <1>2, <1>3, <1>7, <2>1 DEF MarkInv, ReadBefore, ReadKeys
<1>10. CASE ~ Watermark!Moves(k)
  <2>1. ~ job.updates /\ k \in Live /\ table'[k].mark = table[k].mark /\ exposed' = exposed
    BY <1>2, <1>3, <1>10 DEF Watermark!Moves, Live, Watermark!Live, NoRow
  <2>2. Covered(k)' <=> Covered(k)
    BY <1>1, <2>1 DEF Covered
  <2>3. Live' = Live /\ \A i \in Live : table'[i].mark = table[i].mark /\ (Covered(i)' <=> Covered(i))
    BY <1>7, <1>8, <2>1, <2>2
  <2>4. LoadCovers' /\ DeltaCovers'
    BY <1>1, <2>1, <2>3 DEF MarkInv, LoadCovers, DeltaCovers, ReadKeys
  <2>5. Watermark!MarkIsCovered'
    BY <1>1, <2>1, <2>3 DEF MarkInv, Watermark!MarkIsCovered, Covered, Live, NoRow
  <2> QED BY <1>1, <1>6, <1>9, <2>4, <2>5 DEF MarkInv, RunsAreAlone
<1>11. CASE Watermark!Moves(k)
  <2>1. k \notin exposed' => ~ partial /\ ~ (r.mark <= mark) /\ \A i \in ReadKeys : ~ (r.mark <= delta.batch[i].mark)
    <3> SUFFICES ASSUME ~ Watermark!Hidden(r.mark)
                 PROVE  ~ partial /\ ~ (r.mark <= mark) /\ \A i \in ReadKeys : ~ (r.mark <= delta.batch[i].mark)
      BY <1>2, <1>11
    <3> DEFINE T == {mark} \cup {delta.batch[i].mark : i \in ReadKeys}
               top == Watermark!MaxMark(T)
    <3>1. ~ partial /\ ~ (r.mark <= top)
      BY DEF Watermark!Hidden, ReadKeys
    <3>2. T \in SUBSET (0 .. time) /\ time \in Nat
      BY ReadMarks DEF MarkInv
    <3>3. top \in 0 .. time /\ \A y \in T : y <= top /\ y \in 0 .. time
      <4> HIDE DEF T
      <4> QED BY <3>2, HighestMark
    <3>4. r.mark \in Nat
      BY <1>2 DEF RowType
    <3> HIDE DEF top
    <3>5. \A y \in T : ~ (r.mark <= y)
      BY <3>1, <3>2, <3>3, <3>4
    <3> QED BY <3>1, <3>5
  <2>2. LoadCovers' /\ DeltaCovers'
    BY <1>1, <1>3, <1>7, <1>8, <2>1 DEF MarkInv, LoadCovers, DeltaCovers, ReadKeys
  <2>3. Watermark!MarkIsCovered'
    BY <1>1, <1>3, <1>7, <1>8, <2>1 DEF MarkInv, Watermark!MarkIsCovered, Covered, Live, NoRow
  <2> QED BY <1>1, <1>6, <1>9, <2>2, <2>3 DEF MarkInv, RunsAreAlone
<1> QED BY <1>10, <1>11

\* A full load begins or goes on.
LEMMA BeginLoadStep ==
  ASSUME MarkInv, Watermark!StartLoad \/ Watermark!ResumeLoad
  PROVE  MarkInv'
<1>1. UNCHANGED <<job, table, open, time, versions, mark, delta>> /\ partial' = TRUE
  BY DEF Watermark!StartLoad, Watermark!ResumeLoad, MarkInv, MarkTyped
<1>2. ~ load.on /\ (job.dest = "replica" => ~ delta.on)
  BY DEF Watermark!StartLoad, Watermark!ResumeLoad, Watermark!LoadMayRun
<1>3. CASE Watermark!StartLoad
  <2>1. copy' = [k \in Rows |-> NoRow] /\ exposed' = {} /\ load' = [on |-> TRUE, next |-> 1, resumed |-> FALSE]
    BY <1>3 DEF Watermark!StartLoad, NoRow
  <2>2. load' \in LoadType /\ load'.next = 1
    BY <2>1 DEF LoadType
  <2>3. Held(NoRow)
    BY DEF Held, NoRow, Watermark!Absent, MarkInv, MarkTyped
  <2>4. MarkTyped'
    BY <1>1, <2>1, <2>2, <2>3 DEF MarkInv, MarkTyped, Held, ReadKeys
  <2>5. \A k \in Live : ~ (k < 1)
    <3>1. \A k \in Live : k \in Rows
      BY RowFields DEF MarkInv
    <3> QED BY <3>1, RowsNumbered
  <2> QED BY <1>1, <1>2, <2>2, <2>4, <2>5
        DEF MarkInv, RunsAreAlone, ReadBefore, LoadCovers, DeltaCovers, Live, ReadKeys, Watermark!MarkIsCovered
<1>4. CASE Watermark!ResumeLoad
  <2>1. /\ UNCHANGED <<copy, exposed, partial>> /\ partial /\ load' = [on |-> TRUE, next |-> load.next, resumed |-> TRUE]
    BY <1>4 DEF Watermark!ResumeLoad
  <2>2. load' \in LoadType /\ load'.next = load.next
    BY <2>1 DEF LoadType, MarkInv, MarkTyped
  <2>4. MarkTyped'
    BY <1>1, <2>1, <2>2 DEF MarkInv, MarkTyped, Held, ReadKeys
  <2> QED BY <1>1, <1>2, <2>1, <2>2, <2>4
        DEF MarkInv, RunsAreAlone, ReadBefore, LoadCovers, DeltaCovers, Live, Covered, ReadKeys, Watermark!MarkIsCovered
<1> QED BY <1>3, <1>4

\* It copies the next row.
LEMMA LoadRowStep ==
  ASSUME MarkInv, Watermark!LoadRow
  PROVE  MarkInv'
<1>1. UNCHANGED <<job, table, open, time, versions, mark, delta, partial, exposed>> /\ load.on /\ partial
  BY DEF Watermark!LoadRow, MarkInv, MarkTyped
<1>2. PICK k : /\ k = load.next /\ k \in Rows
               /\ copy' = IF table[k] = NoRow THEN copy ELSE [copy EXCEPT ![k] = table[k]]
               /\ load' = [load EXCEPT !.next = @ + 1]
  BY DEF Watermark!LoadRow, NoRow
<1>3. load \in LoadType /\ load' \in LoadType /\ load'.next = load.next + 1 /\ load'.on
  <2>1. load \in LoadType
    BY <1>1 DEF MarkInv, MarkTyped
  <2> QED BY <1>1, <1>2, <2>1 DEF LoadType
<1>4. /\ \A i \in Rows : copy'[i] \in {NoRow} \cup RowType /\ (i # k => copy'[i] = copy[i])
      /\ table[k] # NoRow => copy'[k] = table[k]
      /\ table[k] = NoRow => copy'[k] = copy[k]
      /\ copy' \in [Rows -> {NoRow} \cup RowType]
  BY <1>2 DEF MarkInv, MarkTyped
<1>5. \A i \in Rows : Held(copy'[i])
  BY <1>2, <1>4 DEF MarkInv, MarkTyped
<1>6. MarkTyped'
  BY <1>1, <1>3, <1>4, <1>5 DEF MarkInv, MarkTyped, Held, ReadKeys
<1>7. /\ \A i \in Live : i # k => (Covered(i)' <=> Covered(i)) /\ copy'[i] = copy[i]
      /\ k \in Live => Covered(k)' /\ copy'[k] = table[k]
      /\ Live' = Live /\ \A i \in Live : i \in Rows
  BY <1>1, <1>2, <1>4 DEF Covered, Live, Watermark!Live, NoRow
<1>8. \A i \in Live : i # k => (i < load'.next <=> i < load.next)
  <2>1. \A i \in Rows : i \in Nat
    BY RowsNumbered
  <2> QED BY <1>2, <1>3, <1>7, <2>1 DEF LoadType
<1>9. LoadCovers'
  BY <1>1, <1>7, <1>8 DEF MarkInv, LoadCovers
<1>10. DeltaCovers'
  <2> SUFFICES ASSUME NEW i \in Live \ exposed, NEW l \in ReadKeys, table[i].mark <= delta.batch[l].mark
               PROVE  \/ ~ (i < load'.next)
                      \/ i \in ReadKeys /\ (job.updates => delta.batch[i] = table[i] \/ copy'[i].version > delta.batch[i].version)
                      \/ i \notin ReadKeys /\ Covered(i)'
    BY <1>1, <1>7 DEF DeltaCovers, ReadKeys
  <2>1. CASE i # k
    BY <1>1, <1>7, <1>8, <2>1 DEF MarkInv, DeltaCovers
  <2>2. CASE i = k /\ i \notin ReadKeys
    BY <1>7, <2>2
  <2>3. CASE i = k /\ i \in ReadKeys
    <3>1. delta.batch[i].version <= table[i].version /\ (delta.batch[i].version = table[i].version => delta.batch[i] = table[i])
      BY <2>3 DEF MarkInv, ReadBefore
    <3>2. delta.batch[i].version \in 1 .. versions /\ table[i].version \in 0 .. versions /\ versions \in Nat
      BY <1>7, <2>3, RowFields DEF MarkInv, MarkTyped
    <3>3. delta.batch[i] = table[i] \/ table[i].version > delta.batch[i].version
      BY <3>1, <3>2
    <3> QED BY <1>7, <2>3, <3>3
  <2> QED BY <2>1, <2>2, <2>3
<1> QED BY <1>1, <1>3, <1>6, <1>7, <1>9, <1>10 DEF MarkInv, RunsAreAlone, ReadBefore, ReadKeys, Watermark!MarkIsCovered

\* It fails.
LEMMA LoadFailsStep ==
  ASSUME MarkInv, Watermark!LoadFails
  PROVE  MarkInv'
<1>1. UNCHANGED <<job, table, open, time, versions, copy, mark, delta, partial, exposed>> /\ load.on /\ partial
  BY DEF Watermark!LoadFails, MarkInv, MarkTyped
<1>2. load \in LoadType
  BY <1>1 DEF MarkInv, MarkTyped
<1>3. load' \in LoadType /\ load'.next = load.next /\ ~ load'.on
  BY <1>2 DEF Watermark!LoadFails, LoadType
<1>4. MarkTyped'
  BY <1>1, <1>3 DEF MarkInv, MarkTyped, Held, ReadKeys
<1> QED BY <1>1, <1>3, <1>4
      DEF MarkInv, RunsAreAlone, ReadBefore, LoadCovers, DeltaCovers, Live, Covered, ReadKeys, Watermark!MarkIsCovered

\* The highest mark is recorded after every row was copied, or instead of copying any.
LEMMA NewMarkStep ==
  ASSUME MarkInv, Watermark!RecordMark \/ Watermark!Baseline
  PROVE  MarkInv'
<1>1. UNCHANGED <<job, table, open, time, versions, copy, delta>>
  BY DEF Watermark!RecordMark, Watermark!Baseline
<1>2. mark' \in 0 .. time
  <2>1. /\ Watermark!MaxMark({table[k].mark : k \in Rows}) \in 0 .. time
        /\ Watermark!MaxMark({copy[k].mark : k \in Rows}) \in 0 .. time
    <3> DEFINE T == {table[k].mark : k \in Rows}
               C == {copy[k].mark : k \in Rows}
    <3>1. T \in SUBSET (0 .. time) /\ C \in SUBSET (0 .. time) /\ time \in Nat
      BY ReadMarks DEF MarkInv
    <3> HIDE DEF T, C
    <3>2. Watermark!MaxMark(T) \in 0 .. time /\ Watermark!MaxMark(C) \in 0 .. time
      BY <3>1, HighestMark
    <3> QED BY <3>2 DEF T, C
  <2>2. mark \in 0 .. time
    BY DEF MarkInv, MarkTyped
  <2> QED BY <2>1, <2>2 DEF Watermark!RecordMark, Watermark!Baseline
<1>3. CASE Watermark!RecordMark
  <2>1. load.on /\ load.next \notin Rows /\ load' = Watermark!NoLoad /\ partial' = FALSE /\ exposed' = exposed
    BY <1>3 DEF Watermark!RecordMark
  <2>2. load \in LoadType /\ partial /\ ~ load'.on
    BY <2>1 DEF MarkInv, MarkTyped, Watermark!NoLoad
  <2>3. \A k \in Rows : k < load.next
    BY <2>1, <2>2, RowsNumbered DEF LoadType
  <2>4. MarkTyped'
    BY <1>1, <1>2, <2>1, <2>2 DEF MarkInv, MarkTyped, Held, ReadKeys
  <2>5. Live' = Live /\ \A k \in Live : k \in Rows /\ (Covered(k)' <=> Covered(k))
    BY <1>1, RowFields DEF Covered, Live, MarkInv
  <2>6. \A k \in Live \ exposed : Covered(k)
    BY <2>2, <2>3, <2>5 DEF MarkInv, LoadCovers
  <2>7. LoadCovers' /\ DeltaCovers'
    BY <1>1, <2>1, <2>2, <2>3, <2>5 DEF MarkInv, LoadCovers, DeltaCovers, ReadKeys
  <2>8. Watermark!MarkIsCovered'
    BY <1>1, <2>1, <2>5, <2>6 DEF Watermark!MarkIsCovered, Covered, Live, NoRow
  <2> QED BY <1>1, <2>2, <2>4, <2>5, <2>7, <2>8 DEF MarkInv, RunsAreAlone, ReadBefore, ReadKeys
<1>4. CASE Watermark!Baseline
  <2>1. /\ job.initial = "NONE" /\ ~ load.on /\ (job.dest = "replica" => ~ delta.on)
        /\ UNCHANGED <<load, partial>> /\ exposed' = exposed \cup {k \in Rows : copy[k] # table[k]}
    BY <1>4 DEF Watermark!Baseline, Watermark!LoadMayRun
  <2>2. delta = Watermark!NoDelta /\ ReadKeys = {}
    <3>1. ~ delta.on
      BY <2>1 DEF MarkInv, RunsAreAlone
    <3>2. delta = Watermark!NoDelta
      BY <3>1 DEF MarkInv, MarkTyped
    <3>3. DOMAIN << >> = {}
      OBVIOUS
    <3> QED BY <3>2, <3>3 DEF ReadKeys, Watermark!NoDelta
  <2>3. MarkTyped'
    BY <1>1, <1>2, <2>1 DEF MarkInv, MarkTyped, Held, ReadKeys
  <2>4. Live' = Live /\ ReadKeys' = ReadKeys /\ \A k \in Live : k \in Rows /\ table[k] # NoRow /\ (Covered(k)' <=> Covered(k))
    BY <1>1, RowFields DEF Covered, Live, MarkInv, ReadKeys
  <2>5. ReadBefore' /\ DeltaCovers'
    BY <2>2, <2>4 DEF ReadBefore, DeltaCovers
  <2>6. LoadCovers'
    BY <2>1, <2>4 DEF MarkInv, LoadCovers
  <2>7. Watermark!MarkIsCovered'
    BY <1>1, <2>1, <2>4 DEF Watermark!MarkIsCovered, Live, NoRow
  <2> QED BY <1>1, <2>1, <2>3, <2>5, <2>6, <2>7 DEF MarkInv, RunsAreAlone
<1> QED BY <1>3, <1>4

\* An incremental run reads the lowest rows above the mark, and of those that tie with
\* the last one some may be cut off.
LEMMA StartDeltaStep ==
  ASSUME MarkInv, Watermark!StartDelta
  PROVE  MarkInv'
<1>1. UNCHANGED <<job, table, open, time, versions, copy, mark, load, partial>>
  BY DEF Watermark!StartDelta
<1>2. PICK b \in SUBSET Watermark!Above(mark) :
         /\ b # {} /\ Watermark!IsBatch(b)
         /\ delta' = [on |-> TRUE, batch |-> [k \in b |-> table[k]]] /\ exposed' = exposed \cup Watermark!Cut(b)
  BY DEF Watermark!StartDelta
<1>3. ~ delta.on /\ (job.dest = "replica" => ~ load.on)
  BY DEF Watermark!StartDelta, Watermark!DeltaMayRun
<1>4. \A k \in b : k \in Rows /\ table[k] \in RowType /\ table[k].mark \in 1 .. time /\ Held(table[k])
  <2>1. \A k \in b : k \in Rows /\ table[k].mark > mark
    BY DEF Watermark!Above
  <2>2. mark \in Nat /\ NoRow.mark = 0 /\ time \in Nat
    BY RowFields DEF MarkInv, MarkTyped
  <2>3. \A k \in b : table[k] # NoRow /\ table[k].mark \in 0 .. time /\ table[k].mark # 0
    BY <2>1, <2>2, RowFields DEF MarkInv
  <2> QED BY <2>1, <2>3 DEF MarkInv, MarkTyped
<1>5. delta'.on /\ ReadKeys' = b /\ delta'.batch \in [b -> RowType] /\ \A k \in b : delta'.batch[k] = table[k]
  BY <1>2, <1>4 DEF ReadKeys
<1>6. MarkTyped'
  <2>1. exposed' \subseteq Rows
    BY <1>2 DEF Watermark!Cut, Watermark!Above, MarkInv, MarkTyped
  <2>2. ReadKeys' \subseteq Rows /\ \A k \in ReadKeys' : Held(delta.batch[k])'
    <3>1. \A k \in b : table[k].mark <= time' /\ table[k].version <= versions'
      BY <1>1, <1>4 DEF Held
    <3>2. \A k \in b : (delta')["batch"][k] = table[k]
      BY <1>5
    <3> QED BY <1>4, <1>5, <3>1, <3>2 DEF Held
  <2> QED BY <1>1, <1>5, <2>1, <2>2 DEF MarkInv, MarkTyped, Held
<1>7. Live' = Live /\ \A k \in Live : k \in Rows /\ (Covered(k)' <=> Covered(k)) /\ table[k] # NoRow
  BY <1>1, RowFields DEF Covered, Live, MarkInv
<1>8. ReadBefore'
  <2>1. \A k \in b : table[k].version <= table[k].version
    BY <1>4 DEF RowType
  <2> QED BY <1>1, <1>5, <1>7, <2>1 DEF ReadBefore
<1>9. ASSUME NEW k \in Live \ exposed', NEW i \in b, table[k].mark <= table[i].mark
      PROVE  k \in b \/ (partial /\ ~ (k < load.next)) \/ Covered(k)
  <2>1. k \in Rows /\ k \notin exposed /\ table[k].mark \in 0 .. time /\ mark \in 0 .. time /\ time \in Nat
    BY <1>2, <1>7, RowFields DEF MarkInv, MarkTyped
  <2>2. CASE table[k].mark <= mark
    BY <1>7, <2>1, <2>2 DEF MarkInv, Watermark!MarkIsCovered, LoadCovers, Covered, Live, NoRow
  <2>3. CASE ~ (table[k].mark <= mark) /\ k \notin b
    <3> DEFINE T == {table[j].mark : j \in b}
               top == Watermark!MaxMark(T)
    <3>1. k \in Watermark!Above(mark) \ b
      BY <2>1, <2>3 DEF Watermark!Above
    <3>2. \A j \in b : table[j].mark <= table[k].mark /\ table[j].mark \in 0 .. time
      BY <1>2, <1>4, <3>1 DEF Watermark!IsBatch
    <3>3. T \in SUBSET (0 .. time) /\ T # {} /\ table[i].mark \in T
      BY <3>2
    <3>4. top \in T /\ \A y \in T : y <= top
      <4> HIDE DEF T
      <4> QED BY <2>1, <3>3, HighestMark
    <3>5. \A y \in T : y <= table[k].mark /\ y \in 0 .. time
      BY <3>2
    <3> HIDE DEF top
    <3>6. top <= table[k].mark /\ table[i].mark <= top /\ top \in 0 .. time /\ table[i].mark \in 0 .. time
      BY <3>3, <3>4, <3>5
    <3>7. table[k].mark = top
      BY <1>9, <2>1, <3>6
    <3>8. k \in Watermark!Cut(b)
      BY <3>1, <3>7 DEF Watermark!Cut, top
    <3> QED BY <1>2, <3>8
  <2>4. CASE k \in b
    BY <2>4
  <2> QED BY <2>2, <2>3, <2>4
<1>10. DeltaCovers'
  <2> SUFFICES ASSUME NEW k \in Live \ exposed', NEW i \in b, table[k].mark <= table[i].mark
               PROVE  \/ partial /\ ~ (k < load.next)
                      \/ k \in b /\ (job.updates => delta'.batch[k] = table[k] \/ copy[k].version > delta'.batch[k].version)
                      \/ k \notin b /\ Covered(k)
    BY <1>1, <1>5, <1>7 DEF DeltaCovers
  <2> QED BY <1>5, <1>9
<1>11. \A k \in Live \ exposed' : k \in Live \ exposed
  BY <1>2
<1>12. LoadCovers'
  BY <1>1, <1>7, <1>11 DEF MarkInv, LoadCovers
<1>13. Watermark!MarkIsCovered'
  BY <1>1, <1>7, <1>11 DEF MarkInv, Watermark!MarkIsCovered, Live
<1> QED BY <1>1, <1>3, <1>6, <1>8, <1>10, <1>12, <1>13 DEF MarkInv, RunsAreAlone

\* It writes what it read, or some of it, and saves the mark, or does not.
LEMMA EndDeltaStep ==
  ASSUME MarkInv, Watermark!ApplyAndMark \/ Watermark!DeltaDies
  PROVE  MarkInv'
<1>1. UNCHANGED <<job, table, open, time, versions, load, partial>> /\ delta.on /\ delta' = Watermark!NoDelta
  BY DEF Watermark!ApplyAndMark, Watermark!DeltaDies
<1>2. PICK b \in SUBSET ReadKeys :
         /\ copy' = Watermark!Upserted(b) /\ exposed' = exposed \cup Watermark!Overwritten(b)
         /\ \/ mark' = mark
            \/ b = ReadKeys /\ mark' = Watermark!MaxMark({delta.batch[k].mark : k \in b})
  <2>1. CASE Watermark!ApplyAndMark
    BY <2>1 DEF Watermark!ApplyAndMark, ReadKeys
  <2>2. CASE Watermark!DeltaDies
    BY <2>2 DEF Watermark!DeltaDies, ReadKeys
  <2> QED BY <2>1, <2>2
<1>3. ~ delta'.on /\ ReadKeys' = {}
  <2>1. DOMAIN << >> = {}
    OBVIOUS
  <2> QED BY <1>1, <2>1 DEF ReadKeys, Watermark!NoDelta
<1>4. delta.batch \in [ReadKeys -> RowType] /\ ReadKeys \subseteq Rows /\ \A k \in ReadKeys : Held(delta.batch[k])
  BY <1>1 DEF MarkInv, MarkTyped, Watermark!NoDelta
<1>5. copy' = [k \in Rows |-> IF k \in b THEN delta.batch[k] ELSE copy[k]]
  BY <1>2 DEF Watermark!Upserted
<1>6. /\ copy' \in [Rows -> {NoRow} \cup RowType] /\ \A k \in Rows : Held(copy'[k])
      /\ \A k \in b : copy'[k] = delta.batch[k]
      /\ \A k \in Rows \ b : copy'[k] = copy[k]
  BY <1>4, <1>5 DEF MarkInv, MarkTyped
<1>7. Live' = Live /\ \A k \in Live : k \in Rows /\ table[k] # NoRow
  BY <1>1, RowFields DEF Live, MarkInv
<1>8. \A k \in b : k \notin exposed' => ~ (copy[k].version > delta.batch[k].version)
  BY <1>2 DEF Watermark!Overwritten
<1>9. ASSUME NEW k \in Live \ exposed', Covered(k) PROVE Covered(k)'
  <2>1. CASE k \notin b
    BY <1>1, <1>6, <1>7, <1>9, <2>1 DEF Covered
  <2>2. CASE k \in b
    <3>1. copy'[k] = delta.batch[k] /\ delta.batch[k] # NoRow
      BY <1>2, <1>6, <2>2, RowFields DEF MarkInv
    <3>2. job.updates => copy[k] = table[k]
      BY <1>9 DEF Covered
    <3>3. /\ delta.batch[k].version \in 1 .. versions /\ table[k].version \in 0 .. versions /\ versions \in Nat
          /\ delta.batch[k].version <= table[k].version
          /\ delta.batch[k].version = table[k].version => delta.batch[k] = table[k]
      BY <1>2, <1>7, <2>2, RowFields DEF MarkInv, MarkTyped, ReadBefore
    <3>4. job.updates => delta.batch[k] = table[k]
      BY <1>8, <2>2, <3>2, <3>3
    <3> QED BY <1>1, <3>1, <3>4 DEF Covered
  <2> QED BY <2>1, <2>2
<1>10. \A k \in Live \ exposed' : k \in Live \ exposed
  BY <1>2
<1>11. LoadCovers'
  BY <1>1, <1>7, <1>9, <1>10 DEF MarkInv, LoadCovers
<1>12. mark' \in 0 .. time /\ (mark' # mark => b = ReadKeys /\ (b # {} => \E i \in ReadKeys : mark' = delta.batch[i].mark) /\ (b = {} => mark' = 0))
  <2> DEFINE T == {delta.batch[k].mark : k \in b}
  <2>1. T \in SUBSET (0 .. time) /\ time \in Nat /\ mark \in 0 .. time
    <3>1. \A k \in b : delta.batch[k].mark \in 0 .. time
      BY <1>2, RowFields DEF MarkInv, MarkTyped
    <3> QED BY <3>1 DEF MarkInv, MarkTyped
  <2>2. T # {} => Watermark!MaxMark(T) \in T
    <3> HIDE DEF T
    <3> QED BY <2>1, HighestMark
  <2>3. Watermark!MaxMark(T) \in 0 .. time
    <3> HIDE DEF T
    <3> QED BY <2>1, HighestMark
  <2>4. T = {} => Watermark!MaxMark(T) = 0
    BY DEF Watermark!MaxMark
  <2>5. PICK x : x = Watermark!MaxMark(T)
    OBVIOUS
  <2> QED BY <1>2, <2>1, <2>2, <2>3, <2>4, <2>5
<1>13. MarkTyped'
  <2>1. \A k \in Rows : Held(copy[k])'
    BY <1>1, <1>6 DEF Held
  <2>2. \A k \in Rows : Held(table[k])'
    BY <1>1 DEF Held, MarkInv, MarkTyped
  <2>3. exposed' \subseteq Rows
    BY <1>2, <1>4 DEF Watermark!Overwritten, MarkInv, MarkTyped
  <2> QED BY <1>1, <1>6, <1>12, <2>1, <2>2, <2>3 DEF MarkInv, MarkTyped
<1>14. Watermark!MarkIsCovered'
  <2> SUFFICES ASSUME ~ partial, NEW k \in Live \ exposed', table[k].mark <= mark' PROVE Covered(k)'
    BY <1>1, <1>7 DEF Watermark!MarkIsCovered, Covered, Live, NoRow
  <2>1. CASE mark' = mark
    <3>1. Covered(k)
      BY <1>10, <2>1 DEF MarkInv, Watermark!MarkIsCovered, Covered, Live, NoRow
    <3> QED BY <1>9, <3>1
  <2>2. CASE mark' # mark
    <3>1. table[k] \in RowType /\ table[k].mark \in Nat \ {0}
      BY <1>7, RowFields DEF MarkInv, RowType
    <3>2. b = ReadKeys /\ \E i \in ReadKeys : table[k].mark <= delta.batch[i].mark
      BY <1>12, <2>2, <3>1
    <3>3. \/ k \in b /\ (job.updates => delta.batch[k] = table[k] \/ copy[k].version > delta.batch[k].version)
          \/ k \notin b /\ Covered(k)
      BY <1>10, <3>2 DEF MarkInv, DeltaCovers
    <3>4. CASE k \in b
      <4>1. copy'[k] = delta.batch[k] /\ delta.batch[k] # NoRow
        BY <1>2, <1>6, <3>4, RowFields DEF MarkInv
      <4> QED BY <1>1, <1>8, <3>3, <3>4, <4>1 DEF Covered
    <3>5. CASE k \notin b
      BY <1>9, <3>3, <3>5
    <3> QED BY <3>4, <3>5
  <2> QED BY <2>1, <2>2
<1> QED BY <1>1, <1>3, <1>11, <1>13, <1>14 DEF MarkInv, RunsAreAlone, ReadBefore, DeltaCovers

\* What lies at or below the saved watermark is in the replica, current where the
\* column shows updates, but for the writes that the scheme cannot see.
THEOREM MarkIsAlwaysCovered == Spec => []MarkIsCovered
<1> DEFINE I == service = "watermark" => MarkInv
<1>1. Init => I
  <2> SUFFICES ASSUME Init PROVE MarkInv
    OBVIOUS
  <2>1. /\ job \in Watermark!Jobs /\ open = Watermark!NoTx /\ time = 1 /\ versions = 1 /\ mark = 0
        /\ table = [k \in Rows |-> IF k = 1 THEN [mark |-> 1, version |-> 1] ELSE NoRow]
        /\ copy = [k \in Rows |-> NoRow] /\ load = Watermark!NoLoad /\ delta = Watermark!NoDelta
        /\ partial = FALSE /\ exposed = {}
    BY DEF Init, Watermark!Init, NoRow
  <2>2. Held(NoRow) /\ NoRow.mark = 0 /\ ~ Watermark!NoLoad.on
    BY <2>1 DEF Held, NoRow, Watermark!Absent, Watermark!NoLoad
  <2>3. PICK r : r = [mark |-> 1, version |-> 1]
    OBVIOUS
  <2>4. r \in RowType /\ Held(r) /\ r.mark = 1
    BY <2>1, <2>3 DEF RowType, Held
  <2>5. table \in [Rows -> {NoRow} \cup RowType] /\ \A k \in Rows : Held(table[k]) /\ table[k] \in {NoRow, r}
    BY <2>1, <2>2, <2>3, <2>4
  <2>6. MarkTyped
    <3>1. copy \in [Rows -> {NoRow} \cup RowType] /\ \A k \in Rows : Held(copy[k])
      BY <2>1, <2>2
    <3>2. load \in {Watermark!NoLoad} \cup LoadType /\ ~ load.on
      BY <2>1, <2>2
    <3>3. time \in Nat \ {0} /\ versions \in Nat \ {0} /\ mark \in 0 .. time /\ partial = FALSE /\ exposed \subseteq Rows
      BY <2>1
    <3> QED BY <2>1, <2>5, <3>1, <3>2, <3>3 DEF MarkTyped
  <2>7. RunsAreAlone
    <3>1. \A j \in Watermark!Jobs : j.initial = "NONE" => j.dest = "replica"
      BY DEF Watermark!Jobs
    <3> QED BY <2>1, <2>2, <3>1 DEF RunsAreAlone
  <2>8. ReadKeys = {}
    <3>1. DOMAIN << >> = {}
      OBVIOUS
    <3> QED BY <2>1, <3>1 DEF ReadKeys, Watermark!NoDelta
  <2>9. Watermark!MarkIsCovered
    <3>1. \A k \in Watermark!Live(table) : table[k].mark = 1
      BY <2>4, <2>5 DEF Watermark!Live, NoRow
    <3>2. ~ (1 <= 0)
      OBVIOUS
    <3> QED BY <2>1, <3>1, <3>2 DEF Watermark!MarkIsCovered
  <2> QED BY <2>1, <2>6, <2>7, <2>8, <2>9 DEF MarkInv, ReadBefore, LoadCovers, DeltaCovers
<1>2. I /\ [Next]_vars => I'
  <2> SUFFICES ASSUME MarkInv, service = "watermark", [Next]_vars PROVE MarkInv'
    BY Frame
  <2>1. [Watermark!Next]_watermarkVars
    BY Frame
  <2>2. CASE UNCHANGED watermarkVars
    BY <2>2 DEF watermarkVars, MarkInv, MarkTyped, RunsAreAlone, ReadBefore, LoadCovers, DeltaCovers, Live, Covered,
                ReadKeys, Held, Watermark!MarkIsCovered
  <2>3. CASE Watermark!Next
    BY <2>3, TickStep, DeleteRowStep, CommitWriteStep, BeginLoadStep, LoadRowStep, LoadFailsStep, NewMarkStep,
       StartDeltaStep, EndDeltaStep DEF Watermark!Next
  <2> QED BY <2>1, <2>2, <2>3
<1>3. I => MarkIsCovered
  BY DEF MarkInv, MarkIsCovered
<1> QED BY <1>1, <1>2, <1>3, PTL DEF Spec

-----------------------------------------------------------------------------
(* The search index                                                          *)

MutationType == [n : Nat, status : {"PENDING", "RUNNING", "COMPLETED"}, attempts : Nat, due : BOOLEAN]
HubRequestType == [pc : {"new", "written", "done"}, n : Nat]
ClaimType == [id : Nat, attempts : Nat]
TickType == [todo : Seq(ClaimType), pc : {"mark", "apply", "finish"}]
NoTick == SearchIndex!IdleTick

IndexTyped ==
    /\ hub \in Nat /\ index \in Nat /\ request \in [Requests -> HubRequestType]
    /\ jobs \in Seq(MutationType) /\ tick \in [EsTicks -> TickType]

\* The jobs are in the order of the writes, and a write has its job unless its request
\* is still to queue it, or died before.
WritesQueued ==
    /\ \A r \in Requests : request[r].pc = "written" => request[r].n <= hub
    /\ \A i \in 1 .. Len(jobs) : jobs[i].n <= hub
    /\ \A i, j \in 1 .. Len(jobs) : i < j => jobs[i].n <= jobs[j].n
    /\ \A n \in 1 .. hub : \/ \E i \in 1 .. Len(jobs) : jobs[i].n = n
                           \/ \E r \in Requests : request[r].pc = "written" /\ request[r].n = n
                           \/ n \in unseen

\* One tick works at a time.
OneTick == \A t, u \in EsTicks : tick[t] # NoTick /\ tick[u] # NoTick => t = u

\* The write that the i-th job shows in the index.
Shows(i) == IF i = 0 THEN 0 ELSE jobs[i].n

\* The index shows the write of the i-th job, or was not given it.
Shown(i) == index = Shows(i) \/ Shows(i) \in unseen

\* The first c jobs are done and the tick goes on from there; a job that was put back is
\* the last one, and no tick works meanwhile.  The index shows the last job that is done,
\* or the next, which the tick has just applied, or applied before it was put back.
PutBack(c, i) ==
    i = c + 1 /\ i = Len(jobs) /\ jobs[i].status = "PENDING" /\ \A t \in EsTicks : tick[t] = NoTick

DoneTo(c) ==
    /\ \A i \in 1 .. c : jobs[i].status = "COMPLETED"
    /\ \A i \in c + 1 .. Len(jobs) :
         jobs[i].status = "PENDING" \/ (i = c + 1 /\ jobs[i].status = "RUNNING" /\ \E t \in EsTicks : tick[t].pc # "mark")
    /\ \A i \in c + 1 .. Len(jobs) : jobs[i].due \/ PutBack(c, i)
    /\ \A t \in EsTicks : /\ c + Len(tick[t].todo) <= Len(jobs) /\ (tick[t].pc # "mark" => tick[t].todo # << >>)
                          /\ \A i \in 1 .. Len(tick[t].todo) : tick[t].todo[i].id = c + i
                          /\ tick[t].pc = "finish" => Shown(c + 1)
    /\ (\A t \in EsTicks : tick[t].pc # "finish") => Shown(c) \/ (c + 1 <= Len(jobs) /\ Shown(c + 1))

IndexInOrder == IndexTyped /\ WritesQueued /\ OneTick /\ \E c \in 0 .. Len(jobs) : DoneTo(c)
IndexInv == disturbed \in BOOLEAN /\ (disturbed \/ IndexInOrder)

\* The numbers above c are claimed in their order.
LEMMA ClaimsInOrder ==
  ASSUME NEW c \in Nat, NEW n \in Nat, c <= n
  PROVE  SearchIndex!ClaimOrder(c + 1 .. n) = [p \in 1 .. n - c |-> c + p]
<1> DEFINE ids == c + 1 .. n
           upto(i) == {j \in ids : j <= i}
<1>1. \A a, b \in Int : Cardinality(a .. b) = IF a > b THEN 0 ELSE b - a + 1
  BY FS_Interval
<1>2. Cardinality(ids) = n - c
  <2>1. c + 1 \in Int /\ n \in Int
    OBVIOUS
  <2>2. Cardinality(c + 1 .. n) = IF c + 1 > n THEN 0 ELSE n - (c + 1) + 1
    BY <1>1, <2>1
  <2> QED BY <2>2
<1>3. ASSUME NEW i \in ids PROVE Cardinality(upto(i)) = i - c
  <2>1. upto(i) = c + 1 .. i /\ c + 1 \in Int /\ i \in Int /\ ~ (c + 1 > i)
    OBVIOUS
  <2>2. Cardinality(c + 1 .. i) = i - (c + 1) + 1
    BY <1>1, <2>1
  <2>3. Cardinality(upto(i)) = i - (c + 1) + 1 /\ i \in Int
    <3> HIDE DEF upto, ids
    <3> QED BY <2>1, <2>2
  <2> QED BY <2>3
<1>4. ASSUME NEW p \in 1 .. n - c PROVE (CHOOSE i \in ids : Cardinality(upto(i)) = p) = c + p
  <2>1. c + p \in ids /\ c + p - c = p /\ \A i \in ids : i - c = p => i = c + p
    OBVIOUS
  <2> DEFINE P(i) == Cardinality(upto(i)) = p
  <2>2. P(c + p) /\ \A i \in ids : P(i) => i = c + p
    BY <1>3, <2>1
  <2> HIDE DEF P, ids
  <2>3. (CHOOSE i \in ids : P(i)) = c + p
    BY <2>1, <2>2
  <2> QED BY <2>3 DEF P, ids
<1>5. SearchIndex!Cardinality(ids) = Cardinality(ids) /\ \A i \in ids : SearchIndex!Cardinality(upto(i)) = Cardinality(upto(i))
  BY DEF SearchIndex!Cardinality, Cardinality
<1>6. SearchIndex!ClaimOrder(ids) = [p \in 1 .. SearchIndex!Cardinality(ids) |->
                                       CHOOSE i \in ids : SearchIndex!Cardinality(upto(i)) = p]
  BY DEF SearchIndex!ClaimOrder
<1>7. \A p : (CHOOSE i \in ids : SearchIndex!Cardinality(upto(i)) = p) = (CHOOSE i \in ids : Cardinality(upto(i)) = p)
  BY <1>5
<1>8. \A p \in 1 .. n - c : (CHOOSE i \in ids : SearchIndex!Cardinality(upto(i)) = p) = c + p
  BY <1>4, <1>7
<1>9. SearchIndex!Cardinality(ids) = n - c
  BY <1>2, <1>5
<1> QED
  <2> HIDE DEF upto
  <2>1. SearchIndex!ClaimOrder(ids) = [p \in 1 .. n - c |-> CHOOSE i \in ids : SearchIndex!Cardinality(upto(i)) = p]
    BY <1>6, <1>9
  <2> QED BY <1>8, <2>1

\* What a tick holds, and where it stands.
LEMMA TickFields ==
  ASSUME IndexTyped, NEW t \in EsTicks
  PROVE  /\ tick[t] \in TickType /\ tick[t].todo \in Seq(ClaimType) /\ tick[t].pc \in {"mark", "apply", "finish"}
         /\ Len(tick[t].todo) \in Nat /\ Len(jobs) \in Nat /\ tick[t] = [todo |-> tick[t].todo, pc |-> tick[t].pc]
         /\ tick[t].pc # "mark" => tick[t] # NoTick
         /\ tick[t].todo # << >> => tick[t] # NoTick /\ Head(tick[t].todo) = tick[t].todo[1] /\ 1 \in 1 .. Len(tick[t].todo)
         /\ tick[t].todo = << >> /\ tick[t].pc = "mark" => tick[t] = NoTick
<1>1. tick[t] \in TickType
  BY DEF IndexTyped
<1>2. tick[t].todo \in Seq(ClaimType) /\ tick[t].pc \in {"mark", "apply", "finish"} /\ tick[t] = [todo |-> tick[t].todo, pc |-> tick[t].pc]
  BY <1>1 DEF TickType
<1>3. NoTick = [todo |-> << >>, pc |-> "mark"] /\ NoTick.todo = << >> /\ NoTick.pc = "mark"
  BY DEF NoTick, SearchIndex!IdleTick
<1>4. tick[t].todo # << >> => Head(tick[t].todo) = tick[t].todo[1] /\ 1 \in 1 .. Len(tick[t].todo)
  BY <1>2
<1>5. Len(tick[t].todo) \in Nat /\ Len(jobs) \in Nat
  BY <1>2 DEF IndexTyped
<1> QED BY <1>1, <1>2, <1>3, <1>4, <1>5

\* The fields of jobs and requests.
LEMMA MutationFields ==
  ASSUME IndexTyped
  PROVE  /\ jobs \in Seq(MutationType) /\ Len(jobs) \in Nat /\ hub \in Nat
         /\ \A i \in 1 .. Len(jobs) : jobs[i] \in MutationType /\ jobs[i].n \in Nat /\ jobs[i].attempts \in Nat
         /\ \A r \in Requests : request[r] \in HubRequestType /\ request[r].n \in Nat
<1>1. jobs \in Seq(MutationType) /\ Len(jobs) \in Nat /\ hub \in Nat
  BY DEF IndexTyped
<1>2. \A i \in 1 .. Len(jobs) : jobs[i] \in MutationType
  BY <1>1
<1>3. \A r \in Requests : request[r] \in HubRequestType
  BY DEF IndexTyped
<1>4. \A m \in MutationType : m.n \in Nat /\ m.attempts \in Nat
  BY DEF MutationType
<1>5. \A q \in HubRequestType : q.n \in Nat
  BY DEF HubRequestType
<1> QED BY <1>1, <1>2, <1>3, <1>4, <1>5

\* A write commits.
LEMMA HubWriteStep ==
  ASSUME IndexInOrder, NEW r \in Requests, SearchIndex!HubWrite(r)
  PROVE  IndexInOrder'
<1>1. PICK q \in HubRequestType :
         /\ request[r].pc = "new" /\ hub' = hub + 1 /\ request' = [request EXCEPT ![r] = q] /\ q.n = hub + 1 /\ q.pc = "written"
         /\ UNCHANGED <<jobs, tick, index, unseen>>
  <2>1. request' = [request EXCEPT ![r] = [pc |-> "written", n |-> hub + 1]]
    BY DEF SearchIndex!HubWrite
  <2>2. PICK q : q = [pc |-> "written", n |-> hub + 1]
    OBVIOUS
  <2>3. hub + 1 \in Nat
    BY DEF IndexInOrder, IndexTyped
  <2>4. q \in HubRequestType /\ q.n = hub + 1 /\ q.pc = "written"
    BY <2>2, <2>3 DEF HubRequestType
  <2>5. request[r].pc = "new" /\ hub' = hub + 1 /\ UNCHANGED <<jobs, tick, index, unseen>>
    BY DEF SearchIndex!HubWrite, SearchIndex!NoRequest
  <2> QED BY <2>1, <2>2, <2>4, <2>5
<1>2. /\ request' \in [Requests -> HubRequestType] /\ request'[r] = q /\ \A s \in Requests \ {r} : request'[s] = request[s]
      /\ hub \in Nat /\ hub' \in Nat /\ \A s \in Requests : request[s].n \in Nat
      /\ \A i \in 1 .. Len(jobs) : jobs[i].n \in Nat
  BY <1>1, MutationFields DEF IndexInOrder, IndexTyped
<1>3. IndexTyped'
  BY <1>1, <1>2 DEF IndexInOrder, IndexTyped
<1>4. WritesQueued'
  <2>1. \A s \in Requests : request'[s].pc = "written" => request'[s].n <= hub'
    <3>1. \A x \in Nat : x <= hub => x <= hub'
      BY <1>1, <1>2
    <3>2. q.n <= hub'
      BY <1>1, <1>2
    <3>3. \A s \in Requests \ {r} : request[s].pc = "written" => request[s].n <= hub'
      BY <1>2, <3>1 DEF IndexInOrder, WritesQueued
    <3> QED BY <1>2, <3>2, <3>3
  <2>2. \A i \in 1 .. Len(jobs) : jobs[i].n <= hub'
    BY <1>1, <1>2 DEF IndexInOrder, WritesQueued
  <2>3. \A n \in 1 .. hub' : n \in 1 .. hub \/ n = q.n
    BY <1>1, <1>2
  <2>4. ASSUME NEW n \in 1 .. hub'
        PROVE  \/ \E i \in 1 .. Len(jobs) : jobs[i].n = n
               \/ \E s \in Requests : request'[s].pc = "written" /\ request'[s].n = n
               \/ n \in unseen
    <3>1. CASE n = q.n
      BY <1>1, <1>2, <3>1
    <3>2. CASE n \in 1 .. hub
      BY <1>1, <1>2, <3>2 DEF IndexInOrder, WritesQueued
    <3> QED BY <2>3, <3>1, <3>2
  <2> QED BY <1>1, <2>1, <2>2, <2>4 DEF IndexInOrder, WritesQueued
<1>5. OneTick'
  BY <1>1 DEF IndexInOrder, OneTick
<1>6. PICK c \in 0 .. Len(jobs) : DoneTo(c)
  BY DEF IndexInOrder
<1>7. DoneTo(c)'
  BY <1>1, <1>6 DEF DoneTo, PutBack, Shown, Shows
<1> QED BY <1>1, <1>3, <1>4, <1>5, <1>6, <1>7 DEF IndexInOrder

\* The process dies before it queues the job.
LEMMA RequestLost ==
  ASSUME IndexInOrder, NEW r \in Requests, SearchIndex!RequestDies(r)
  PROVE  IndexInOrder'
<1>1. PICK q : q = [pc |-> "done", n |-> request[r].n]
  OBVIOUS
<1>2. /\ request' = [request EXCEPT ![r] = q] /\ unseen' = unseen \cup {request[r].n} /\ UNCHANGED <<hub, jobs, tick, index>>
  BY <1>1 DEF SearchIndex!RequestDies, SearchIndex!Answered
<1>3. q \in HubRequestType /\ q.pc = "done"
  BY <1>1 DEF IndexInOrder, IndexTyped, HubRequestType
<1>4. request' \in [Requests -> HubRequestType] /\ request'[r] = q /\ \A s \in Requests \ {r} : request'[s] = request[s]
  BY <1>2, <1>3 DEF IndexInOrder, IndexTyped
<1>5. IndexTyped' /\ WritesQueued' /\ OneTick'
  <2>1. IndexTyped' /\ OneTick'
    BY <1>2, <1>4 DEF IndexInOrder, IndexTyped, OneTick
  <2>2. \A s \in Requests : request'[s].pc = "written" => request'[s].n <= hub
    BY <1>3, <1>4 DEF IndexInOrder, WritesQueued
  <2>3. ASSUME NEW n \in 1 .. hub
        PROVE  \/ \E i \in 1 .. Len(jobs) : jobs[i].n = n
               \/ \E s \in Requests : request'[s].pc = "written" /\ request'[s].n = n
               \/ n \in unseen'
    BY <1>2, <1>4 DEF IndexInOrder, WritesQueued
  <2>4. WritesQueued'
    BY <1>2, <2>2, <2>3 DEF IndexInOrder, WritesQueued
  <2> QED BY <2>1, <2>4
<1>6. PICK c \in 0 .. Len(jobs) : DoneTo(c)
  BY DEF IndexInOrder
<1>7. \A k : Shown(k) => Shown(k)'
  BY <1>2 DEF Shown, Shows
<1>8. DoneTo(c)'
  BY <1>2, <1>6, <1>7 DEF DoneTo, PutBack
<1> QED BY <1>2, <1>5, <1>6, <1>8 DEF IndexInOrder

\* Its job is queued after those of earlier writes.
LEMMA QueueStep ==
  ASSUME IndexInOrder, NEW r \in Requests, SearchIndex!EnqueueMutation(r),
         \A i \in 1 .. Len(jobs) : ~ (jobs[i].n > request[r].n) /\ ~ SearchIndex!BackedOff(i)
  PROVE  IndexInOrder'
<1> DEFINE q == [pc |-> "done", n |-> request[r].n]
<1>1. /\ request[r].pc = "written" /\ request' = [request EXCEPT ![r] = q]
      /\ UNCHANGED <<hub, tick, index, unseen>>
  BY DEF SearchIndex!EnqueueMutation, SearchIndex!Answered
<1>2. PICK m : m = [n |-> request[r].n, status |-> "PENDING", attempts |-> 0, due |-> TRUE]
  OBVIOUS
<1>3. jobs' = Append(jobs, m)
  BY <1>2 DEF SearchIndex!EnqueueMutation
<1>4. /\ request[r] \in HubRequestType /\ q \in HubRequestType /\ q.n = request[r].n /\ q.pc = "done"
      /\ m \in MutationType /\ m.n = request[r].n /\ m.status = "PENDING" /\ m.due /\ m.n <= hub /\ m.n \in Nat
  BY <1>1, <1>2 DEF IndexInOrder, IndexTyped, HubRequestType, MutationType, WritesQueued
<1> HIDE DEF q
<1>5. /\ jobs' \in Seq(MutationType) /\ Len(jobs') = Len(jobs) + 1 /\ Len(jobs) \in Nat
      /\ jobs'[Len(jobs) + 1] = m /\ \A i \in 1 .. Len(jobs) : jobs'[i] = jobs[i] /\ jobs[i].n \in Nat
  <2>1. /\ jobs \in Seq(MutationType) /\ Len(jobs) \in Nat
        /\ \A i \in 1 .. Len(jobs) : jobs[i] \in MutationType /\ jobs[i].n \in Nat
    BY MutationFields DEF IndexInOrder
  <2> HIDE DEF MutationType
  <2> QED BY <1>3, <1>4, <2>1
<1>6. /\ request' \in [Requests -> HubRequestType] /\ request'[r] = q /\ \A s \in Requests \ {r} : request'[s] = request[s]
  BY <1>1, <1>4 DEF IndexInOrder, IndexTyped
<1>7. IndexTyped'
  BY <1>1, <1>5, <1>6 DEF IndexInOrder, IndexTyped
<1>8. \A i \in 1 .. Len(jobs') : i \in 1 .. Len(jobs) \/ i = Len(jobs) + 1
  BY <1>5
<1>9. WritesQueued'
  <2>1. \A s \in Requests : request'[s].pc = "written" => request'[s].n <= hub'
    BY <1>1, <1>4, <1>6 DEF IndexInOrder, WritesQueued
  <2>2. \A i \in 1 .. Len(jobs') : jobs'[i].n <= hub'
    BY <1>1, <1>4, <1>5, <1>8 DEF IndexInOrder, WritesQueued
  <2>3. ASSUME NEW i \in 1 .. Len(jobs'), NEW j \in 1 .. Len(jobs'), i < j PROVE jobs'[i].n <= jobs'[j].n
    <3>1. i \in 1 .. Len(jobs)
      BY <1>5, <2>3
    <3>2. CASE j \in 1 .. Len(jobs)
      BY <1>5, <2>3, <3>1, <3>2 DEF IndexInOrder, WritesQueued
    <3>3. CASE j = Len(jobs) + 1
      BY <1>4, <1>5, <3>1, <3>3
    <3> QED BY <1>8, <3>2, <3>3
  <2>4. ASSUME NEW n \in 1 .. hub
        PROVE  \/ \E i \in 1 .. Len(jobs') : jobs'[i].n = n
               \/ \E s \in Requests : request'[s].pc = "written" /\ request'[s].n = n
               \/ n \in unseen
    <3>1. CASE \E i \in 1 .. Len(jobs) : jobs[i].n = n
      <4>1. PICK i \in 1 .. Len(jobs) : jobs[i].n = n
        BY <3>1
      <4>2. i \in 1 .. Len(jobs') /\ jobs'[i].n = n
        BY <1>5, <4>1
      <4> QED BY <4>2
    <3>2. CASE \E s \in Requests : request[s].pc = "written" /\ request[s].n = n
      <4>1. PICK s \in Requests : request[s].pc = "written" /\ request[s].n = n
        BY <3>2
      <4>2. CASE s = r
        <5>1. Len(jobs) + 1 \in 1 .. Len(jobs') /\ jobs'[Len(jobs) + 1].n = n
          BY <1>4, <1>5, <4>1, <4>2
        <5> QED BY <5>1
      <4>3. CASE s # r
        BY <1>6, <4>1, <4>3
      <4> QED BY <4>2, <4>3
    <3> QED BY <3>1, <3>2 DEF IndexInOrder, WritesQueued
  <2> QED BY <1>1, <2>1, <2>2, <2>3, <2>4 DEF WritesQueued
<1>10. OneTick'
  BY <1>1 DEF IndexInOrder, OneTick
<1>11. PICK c \in 0 .. Len(jobs) : DoneTo(c)
  BY DEF IndexInOrder
<1>12. DoneTo(c)'
  <2>1. \A i \in 1 .. c : jobs'[i].status = "COMPLETED"
    BY <1>5, <1>11 DEF DoneTo
  <2>2. \A i \in c + 1 .. Len(jobs') :
         jobs'[i].status = "PENDING" \/ (i = c + 1 /\ jobs'[i].status = "RUNNING" /\ \E t \in EsTicks : tick'[t].pc # "mark")
    <3>1. \A i \in c + 1 .. Len(jobs') : i \in 1 .. Len(jobs')
      BY <1>11
    <3>2. \A i \in c + 1 .. Len(jobs') : i \in c + 1 .. Len(jobs) \/ i = Len(jobs) + 1
      BY <1>5, <1>11
    <3>3. \A i \in c + 1 .. Len(jobs) : jobs'[i] = jobs[i]
      BY <1>5, <1>11
    <3> QED BY <1>1, <1>4, <1>5, <1>11, <3>2, <3>3 DEF DoneTo
  <2>3. Shown(c)' <=> Shown(c)
    BY <1>1, <1>5, <1>11 DEF Shown, Shows
  <2>7. ASSUME NEW i \in c + 1 .. Len(jobs') PROVE jobs'[i].due
    <3>1. i \in 1 .. Len(jobs) \/ i = Len(jobs) + 1
      BY <1>8, <1>11
    <3>2. i \in 1 .. Len(jobs) => i \in c + 1 .. Len(jobs) /\ (jobs[i].status = "PENDING" => jobs[i].due)
      BY <1>5, <1>11 DEF SearchIndex!BackedOff
    <3>3. i \in 1 .. Len(jobs) => jobs[i].due
      BY <1>11, <3>2 DEF DoneTo, PutBack
    <3> QED BY <1>4, <1>5, <3>1, <3>3
  <2>4. ASSUME NEW t \in EsTicks
        PROVE  /\ c + Len(tick[t].todo) <= Len(jobs')
               /\ tick[t].pc = "finish" => Shown(c + 1)' = Shown(c + 1)
    <3>1. c + Len(tick[t].todo) <= Len(jobs) /\ (tick[t].pc # "mark" => tick[t].todo # << >>) /\ Len(tick[t].todo) \in Nat
      BY <1>11, TickFields DEF DoneTo, IndexInOrder
    <3>2. tick[t].pc = "finish" => 1 \in 1 .. Len(tick[t].todo)
      BY <3>1, TickFields DEF IndexInOrder
    <3>3. tick[t].pc = "finish" => c + 1 \in 1 .. Len(jobs) /\ c + 1 # 0
      BY <1>5, <1>11, <3>1, <3>2
    <3>4. tick[t].pc = "finish" => Shown(c + 1)' = Shown(c + 1)
      BY <1>1, <1>5, <3>3 DEF Shown, Shows
    <3> QED BY <1>5, <1>11, <3>1, <3>4
  <2>5. \A t \in EsTicks : /\ (tick[t].pc # "mark" => tick[t].todo # << >>) /\ (tick[t].pc = "finish" => Shown(c + 1))
                            /\ \A i \in 1 .. Len(tick[t].todo) : tick[t].todo[i].id = c + i
    BY <1>11 DEF DoneTo
  <2>6. (\A t \in EsTicks : tick[t].pc # "finish") => Shown(c)' \/ (c + 1 <= Len(jobs') /\ Shown(c + 1)')
    <3>1. (\A t \in EsTicks : tick[t].pc # "finish") => Shown(c) \/ (c + 1 <= Len(jobs) /\ Shown(c + 1))
      BY <1>11 DEF DoneTo
    <3>2. c + 1 <= Len(jobs) => Shown(c + 1)' = Shown(c + 1)
      BY <1>1, <1>5, <1>11 DEF Shown, Shows
    <3>3. c + 1 <= Len(jobs) => c + 1 <= Len(jobs')
      BY <1>5, <1>11
    <3> QED BY <2>3, <3>1, <3>2, <3>3
  <2> HIDE DEF Shows
  <2> QED BY <1>1, <2>1, <2>2, <2>3, <2>4, <2>5, <2>6, <2>7 DEF DoneTo
<1>13. c \in 0 .. Len(jobs')
  BY <1>5, <1>11
<1> QED BY <1>7, <1>9, <1>10, <1>12, <1>13 DEF IndexInOrder

\* A tick claims the next jobs while none is working.
LEMMA ClaimStep ==
  ASSUME IndexInOrder, NEW t \in EsTicks, SearchIndex!Tick(t), \A u \in EsTicks \ {t} : tick[u] = NoTick
  PROVE  IndexInOrder'
<1>1. \A u \in EsTicks : tick[u] = NoTick /\ tick[u].pc = "mark" /\ tick[u].todo = << >>
  BY DEF SearchIndex!Tick, NoTick, SearchIndex!IdleTick
<1>2. UNCHANGED <<hub, request, jobs, index, unseen>>
  BY DEF SearchIndex!Tick
<1>3. PICK c \in 0 .. Len(jobs) : DoneTo(c)
  BY DEF IndexInOrder
<1>4. Len(jobs) \in Nat /\ c \in Nat /\ c <= Len(jobs) /\ jobs \in Seq(MutationType) /\ DOMAIN jobs = 1 .. Len(jobs)
  BY <1>3 DEF IndexInOrder, IndexTyped
<1>5. SearchIndex!DueJobs = c + 1 .. Len(jobs)
  <2>1. \A i \in 1 .. c : jobs[i].status # "PENDING"
    BY <1>3 DEF DoneTo
  <2>2. \A i \in c + 1 .. Len(jobs) : i \in 1 .. Len(jobs) /\ jobs[i].status = "PENDING"
    BY <1>1, <1>3, <1>4 DEF DoneTo
  <2>3. \A i \in 1 .. Len(jobs) : i \in 1 .. c \/ i \in c + 1 .. Len(jobs)
    BY <1>4
  <2>4. PICK d \in DOMAIN jobs : jobs[d].status = "PENDING" /\ jobs[d].due
    BY DEF SearchIndex!Tick, SearchIndex!DueJobs
  <2>5. d \in c + 1 .. Len(jobs)
    BY <1>4, <2>1, <2>3, <2>4
  <2>6. ASSUME NEW i \in c + 1 .. Len(jobs) PROVE jobs[i].due
    <3>1. ~ jobs[i].due => i = c + 1 /\ i = Len(jobs)
      BY <1>3 DEF DoneTo, PutBack
    <3>2. ASSUME ~ jobs[i].due PROVE FALSE
      <4>1. d = i
        <5>1. PICK n : n = Len(jobs)
          OBVIOUS
        <5>2. n \in Nat /\ c \in Nat /\ i = c + 1 /\ i = n /\ d \in c + 1 .. n
          BY <1>4, <2>5, <3>1, <3>2, <5>1
        <5> QED BY <5>2
      <4> QED BY <2>4, <3>2, <4>1
    <3> QED BY <3>2
  <2> QED BY <1>4, <2>1, <2>2, <2>3, <2>6 DEF SearchIndex!DueJobs
<1> DEFINE ids == [p \in 1 .. Len(jobs) - c |-> c + p]
           n == IF Len(ids) < ClaimLimit THEN Len(ids) ELSE ClaimLimit
           q == SubSeq(ids, 1, n)
           todo == [i \in DOMAIN q |-> [id |-> q[i], attempts |-> jobs[q[i]].attempts]]
<1>6. tick' = [tick EXCEPT ![t] = [todo |-> todo, pc |-> "mark"]]
  <2>1. SearchIndex!ClaimOrder(SearchIndex!DueJobs) = ids
    BY <1>4, <1>5, ClaimsInOrder
  <2> HIDE DEF ids
  <2> QED BY <2>1 DEF SearchIndex!Tick
<1>7. Len(jobs) - c \in Nat /\ Len(ids) = Len(jobs) - c /\ ids \in Seq(Nat) /\ \A p \in 1 .. Len(jobs) - c : ids[p] = c + p
  BY <1>4
<1>8. n \in 0 .. Len(jobs) - c /\ n \in Nat
  BY <1>7, IndexAssumption
<1> HIDE DEF ids
<1>9. q \in Seq(Nat) /\ Len(q) = n /\ DOMAIN q = 1 .. n /\ \A i \in 1 .. n : q[i] = c + i
  <2>1. \A i \in 1 .. n : i \in 1 .. Len(jobs) - c
    BY <1>7, <1>8
  <2> HIDE DEF n
  <2>2. q = [i \in 1 .. n |-> ids[i]]
    BY <1>7, <1>8
  <2> QED BY <1>7, <1>8, <2>1, <2>2
<1> HIDE DEF q, n
<1>10. \A i \in 1 .. n : q[i] \in 1 .. Len(jobs) /\ jobs[q[i]].attempts \in Nat
  <2>1. \A i \in 1 .. n : q[i] \in 1 .. Len(jobs)
    BY <1>4, <1>8, <1>9
  <2>2. \A k \in 1 .. Len(jobs) : jobs[k].attempts \in Nat
    BY MutationFields DEF IndexInOrder
  <2>3. ASSUME NEW i \in 1 .. n PROVE jobs[q[i]].attempts \in Nat
    <3>1. PICK k \in 1 .. Len(jobs) : k = q[i]
      BY <2>1
    <3> QED BY <2>2, <3>1
  <2> QED BY <2>1, <2>3
<1>11. todo \in Seq(ClaimType) /\ Len(todo) = n /\ \A i \in 1 .. n : todo[i].id = c + i
  <2>1. \A i \in 1 .. n : [id |-> q[i], attempts |-> jobs[q[i]].attempts] \in ClaimType
    BY <1>9, <1>10 DEF ClaimType
  <2>2. todo \in [1 .. n -> ClaimType]
    BY <1>9, <2>1
  <2> QED BY <1>8, <1>9, <2>2
<1> HIDE DEF todo
<1>12. PICK w : w = [todo |-> todo, pc |-> "mark"]
  OBVIOUS
<1>13. w \in TickType /\ w.todo = todo /\ w.pc = "mark"
  BY <1>11, <1>12 DEF TickType
<1>14. tick' \in [EsTicks -> TickType] /\ tick'[t] = w /\ \A u \in EsTicks \ {t} : tick'[u] = tick[u]
  BY <1>6, <1>12, <1>13 DEF IndexInOrder, IndexTyped
<1>15. IndexTyped' /\ WritesQueued' /\ OneTick'
  BY <1>1, <1>2, <1>14 DEF IndexInOrder, IndexTyped, WritesQueued, OneTick
<1>16. ASSUME NEW u \in EsTicks
       PROVE  /\ c + Len(tick'[u].todo) <= Len(jobs) /\ tick'[u].pc = "mark"
              /\ \A i \in 1 .. Len(tick'[u].todo) : tick'[u].todo[i].id = c + i
  <2>1. CASE u = t
    <3>1. c + n <= Len(jobs)
      BY <1>4, <1>8
    <3> QED BY <1>11, <1>13, <1>14, <2>1, <3>1
  <2>2. CASE u # t
    <3>1. tick'[u] = NoTick
      BY <1>1, <1>14, <2>2
    <3>2. tick'[u].todo = << >> /\ tick'[u].pc = "mark"
      BY <3>1 DEF NoTick, SearchIndex!IdleTick
    <3>3. Len(tick'[u].todo) = 0
      BY <3>2
    <3> QED BY <1>4, <3>2, <3>3
  <2> QED BY <2>1, <2>2
<1>17. DoneTo(c)'
  <2>1. Shown(c) \/ (c + 1 <= Len(jobs) /\ Shown(c + 1))
    BY <1>1, <1>3 DEF DoneTo
  <2>2. \A i \in c + 1 .. Len(jobs) : jobs[i].status = "PENDING" /\ jobs[i].due
    BY <1>5, <1>4 DEF SearchIndex!DueJobs
  <2>3. \A i \in 1 .. c : jobs[i].status = "COMPLETED"
    BY <1>3 DEF DoneTo
  <2> QED BY <1>2, <1>16, <2>1, <2>2, <2>3 DEF DoneTo, Shown, Shows
<1> QED BY <1>2, <1>3, <1>15, <1>17 DEF IndexInOrder

\* The step that a job takes leaves its write as it was.
LEMMA BecomesKeeps ==
  ASSUME IndexTyped, NEW i \in 1 .. Len(jobs), NEW status \in {"PENDING", "RUNNING", "COMPLETED"},
         SearchIndex!Becomes(i, status)
  PROVE  /\ jobs' \in Seq(MutationType) /\ Len(jobs') = Len(jobs) /\ Len(jobs) \in Nat /\ jobs'[i].status = status
         /\ \A j \in 1 .. Len(jobs) : jobs'[j].n = jobs[j].n /\ jobs'[j].due = jobs[j].due /\ (j # i => jobs'[j] = jobs[j])
<1>1. jobs \in Seq(MutationType) /\ Len(jobs) \in Nat /\ jobs[i] \in MutationType
  BY MutationFields
<1>2. PICK m : m = [jobs[i] EXCEPT !.status = status]
  OBVIOUS
<1>3. m \in MutationType /\ m.n = jobs[i].n /\ m.due = jobs[i].due /\ m.status = status
  BY <1>1, <1>2 DEF MutationType
<1>4. jobs' = [jobs EXCEPT ![i] = m]
  BY <1>2 DEF SearchIndex!Becomes
<1> HIDE DEF MutationType
<1>5. jobs' \in Seq(MutationType) /\ Len(jobs') = Len(jobs) /\ jobs'[i] = m /\ \A j \in 1 .. Len(jobs) : j # i => jobs'[j] = jobs[j]
  BY <1>1, <1>3, <1>4
<1> QED BY <1>1, <1>3, <1>5

\* A job that is the only one waiting is put back, to be tried again.
AloneIsPutBack(t) ==
    /\ SearchIndex!Defer(t) /\ ~ SearchIndex!Current(t).attempts + 1 >= EsMaxAttempts
    /\ \A i \in DOMAIN jobs \ {SearchIndex!Current(t).id} : jobs[i].status # "PENDING"

DiesBetweenJobs(t) == SearchIndex!TickDies(t) /\ tick[t].pc = "mark"

\* A working tick takes its next step: it marks a job, applies it or misses its error, goes
\* on to the next, puts the only one back, or dies between two.
LEMMA WorkStep ==
  ASSUME IndexInOrder, NEW t \in EsTicks,
         \/ SearchIndex!MarkRunning(t) \/ SearchIndex!ApplyMutation(t) \/ SearchIndex!ErrorUnread(t)
         \/ SearchIndex!Complete(t) \/ AloneIsPutBack(t) \/ DiesBetweenJobs(t)
  PROVE  IndexInOrder'
<1>1. UNCHANGED <<hub, request>> /\ tick[t] # NoTick
  BY TickFields DEF SearchIndex!MarkRunning, SearchIndex!ApplyMutation, SearchIndex!ErrorUnread, SearchIndex!Complete,
       AloneIsPutBack, SearchIndex!Defer, DiesBetweenJobs, SearchIndex!TickDies, NoTick, IndexInOrder
<1>2. PICK c \in 0 .. Len(jobs) : DoneTo(c)
  BY DEF IndexInOrder
<1>3. /\ tick[t].todo # << >> /\ tick[t].todo \in Seq(ClaimType) /\ 1 \in 1 .. Len(tick[t].todo)
      /\ Head(tick[t].todo) = tick[t].todo[1] /\ Len(tick[t].todo) \in Nat /\ Len(jobs) \in Nat
  <2>1. tick[t].todo # << >>
    BY <1>1, <1>2, TickFields DEF DoneTo, IndexInOrder
  <2> QED BY <2>1, TickFields DEF IndexInOrder
<1>4. SearchIndex!Current(t).id = c + 1 /\ c + 1 \in 1 .. Len(jobs) /\ c \in Nat /\ c + 1 # 0
  <2>1. tick[t].todo[1].id = c + 1 /\ c + Len(tick[t].todo) <= Len(jobs)
    BY <1>2, <1>3 DEF DoneTo
  <2> QED BY <1>2, <1>3, <2>1 DEF SearchIndex!Current
<1>5. \A u \in EsTicks \ {t} : tick[u] = NoTick /\ tick[u].pc = "mark" /\ tick[u].todo = << >> /\ Len(tick[u].todo) = 0
  <2>1. \A u \in EsTicks \ {t} : tick[u] = NoTick
    BY <1>1 DEF IndexInOrder, OneTick
  <2>2. NoTick.pc = "mark" /\ NoTick.todo = << >> /\ Len(NoTick.todo) = 0
    BY DEF NoTick, SearchIndex!IdleTick
  <2> QED BY <2>1, <2>2
<1>6. ASSUME NEW w \in TickType, tick' = [tick EXCEPT ![t] = w]
      PROVE  /\ tick' \in [EsTicks -> TickType] /\ tick'[t] = w /\ \A u \in EsTicks \ {t} : tick'[u] = tick[u]
             /\ OneTick'
  <2>1. tick' \in [EsTicks -> TickType] /\ tick'[t] = w /\ \A u \in EsTicks \ {t} : tick'[u] = tick[u]
    BY <1>6 DEF IndexInOrder, IndexTyped
  <2> QED BY <1>5, <2>1 DEF OneTick
<1>7. ASSUME NEW pc \in {"apply", "finish"}
      PROVE  \E w \in TickType : w = [todo |-> tick[t].todo, pc |-> pc] /\ w.todo = tick[t].todo /\ w.pc = pc
  <2>1. PICK w : w = [todo |-> tick[t].todo, pc |-> pc]
    OBVIOUS
  <2>2. w \in TickType /\ w.todo = tick[t].todo /\ w.pc = pc
    BY <1>3, <2>1 DEF TickType
  <2> QED BY <2>1, <2>2
<1>8. /\ \A i \in 1 .. c : jobs[i].status = "COMPLETED" /\ i # c + 1 /\ i \in 1 .. Len(jobs)
      /\ \A i \in c + 1 .. Len(jobs) :
           i \in 1 .. Len(jobs) /\ (jobs[i].status = "PENDING" \/ (i = c + 1 /\ jobs[i].status = "RUNNING" /\ \E u \in EsTicks : tick[u].pc # "mark"))
      /\ c + Len(tick[t].todo) <= Len(jobs) /\ \A i \in 1 .. Len(tick[t].todo) : tick[t].todo[i].id = c + i
      /\ tick[t].pc = "finish" => Shown(c + 1)
      /\ tick[t].pc # "finish" => Shown(c) \/ Shown(c + 1)
      /\ \A i \in c + 1 .. Len(jobs) : jobs[i].due
  <2>1. \A i \in c + 1 .. Len(jobs) : jobs[i].due
    BY <1>1, <1>2 DEF DoneTo, PutBack
  <2> QED BY <1>2, <1>3, <1>4, <1>5, <2>1 DEF DoneTo
<1>9. ASSUME SearchIndex!Becomes(c + 1, "RUNNING") \/ SearchIndex!Becomes(c + 1, "COMPLETED")
      PROVE  /\ jobs' \in Seq(MutationType) /\ Len(jobs') = Len(jobs)
             /\ \A j \in 1 .. Len(jobs) : jobs'[j].n = jobs[j].n /\ jobs'[j].due = jobs[j].due /\ (j # c + 1 => jobs'[j] = jobs[j])
             /\ Shows(c)' = Shows(c) /\ Shows(c + 1)' = Shows(c + 1) /\ (unseen' = unseen => WritesQueued')
  <2>1. /\ jobs' \in Seq(MutationType) /\ Len(jobs') = Len(jobs)
        /\ \A j \in 1 .. Len(jobs) : jobs'[j].n = jobs[j].n /\ jobs'[j].due = jobs[j].due /\ (j # c + 1 => jobs'[j] = jobs[j])
    BY <1>4, <1>9, BecomesKeeps DEF IndexInOrder
  <2>2. unseen' = unseen => WritesQueued'
    BY <1>1, <2>1 DEF IndexInOrder, WritesQueued
  <2>3. Shows(c)' = Shows(c) /\ Shows(c + 1)' = Shows(c + 1)
    <3>1. c = 0 \/ c \in 1 .. Len(jobs)
      BY <1>4
    <3> QED BY <1>4, <2>1, <3>1 DEF Shows
  <2> QED BY <2>1, <2>2, <2>3
<1>10. CASE SearchIndex!MarkRunning(t)
  <2>1. SearchIndex!Becomes(c + 1, "RUNNING") /\ tick[t].pc = "mark" /\ tick' = [tick EXCEPT ![t] = [todo |-> tick[t].todo, pc |-> "apply"]] /\ index' = index /\ unseen' = unseen
    BY <1>4, <1>10 DEF SearchIndex!MarkRunning, SearchIndex!At
  <2>2. PICK w \in TickType : w = [todo |-> tick[t].todo, pc |-> "apply"] /\ w.todo = tick[t].todo /\ w.pc = "apply"
    BY <1>7
  <2>3. tick' \in [EsTicks -> TickType] /\ tick'[t] = w /\ (\A u \in EsTicks \ {t} : tick'[u] = tick[u]) /\ OneTick'
    BY <1>6, <2>1, <2>2
  <2>4. jobs'[c + 1].status = "RUNNING"
    BY <1>4, <2>1, BecomesKeeps DEF IndexInOrder
  <2>5. IndexTyped'
    BY <1>1, <1>9, <2>1, <2>3 DEF IndexInOrder, IndexTyped
  <2>6. \A i \in c + 1 .. Len(jobs) : i # c + 1 => jobs[i].status = "PENDING"
    BY <1>5, <1>8, <2>1
  <2>7. DoneTo(c)'
    <3>1. \A i \in 1 .. c : jobs'[i].status = "COMPLETED"
      BY <1>8, <1>9, <2>1
    <3>2. \A i \in c + 1 .. Len(jobs) : jobs'[i].status = "PENDING" \/ (i = c + 1 /\ jobs'[i].status = "RUNNING" /\ \E u \in EsTicks : tick'[u].pc # "mark")
      BY <1>8, <1>9, <2>1, <2>2, <2>3, <2>4
    <3>3. ASSUME NEW u \in EsTicks
          PROVE  /\ c + Len(tick'[u].todo) <= Len(jobs) /\ (tick'[u].pc # "mark" => tick'[u].todo # << >>) /\ tick'[u].pc # "finish"
                 /\ \A i \in 1 .. Len(tick'[u].todo) : tick'[u].todo[i].id = c + i
      <4>1. CASE u = t
        BY <1>3, <1>8, <2>2, <2>3, <4>1
      <4>2. CASE u # t
        <5>1. tick'[u] = tick[u] /\ tick[u].pc = "mark" /\ Len(tick[u].todo) = 0
          BY <1>5, <2>3, <4>2
        <5>2. c + 0 <= Len(jobs) /\ \A i \in 1 .. 0 : FALSE
          BY <1>4
        <5> QED BY <5>1, <5>2
      <4> QED BY <4>1, <4>2
    <3>4. Len(jobs') = Len(jobs) /\ (Shown(c)' \/ Shown(c + 1)') /\ c + 1 <= Len(jobs)
      BY <1>4, <1>8, <1>9, <2>1 DEF Shown
    <3>5. \A i \in c + 1 .. Len(jobs) : jobs'[i].due
      BY <1>8, <1>9, <2>1
    <3> QED BY <3>1, <3>2, <3>3, <3>4, <3>5 DEF DoneTo
  <2> QED BY <1>2, <1>9, <2>1, <2>3, <2>5, <2>7 DEF IndexInOrder
<1>11. CASE SearchIndex!ApplyMutation(t) \/ SearchIndex!ErrorUnread(t)
  <2>1. /\ jobs' = jobs /\ tick[t].pc = "apply" /\ tick' = [tick EXCEPT ![t] = [todo |-> tick[t].todo, pc |-> "finish"]]
        /\ \/ index' = Shows(c + 1) /\ unseen' = unseen \ {Shows(c + 1)}
           \/ index' = index /\ unseen' = unseen \cup {Shows(c + 1)}
    BY <1>4, <1>11 DEF SearchIndex!ApplyMutation, SearchIndex!ErrorUnread, SearchIndex!At, Shows
  <2>2. PICK w \in TickType : w = [todo |-> tick[t].todo, pc |-> "finish"] /\ w.todo = tick[t].todo /\ w.pc = "finish"
    BY <1>7
  <2>3. tick' \in [EsTicks -> TickType] /\ tick'[t] = w /\ (\A u \in EsTicks \ {t} : tick'[u] = tick[u]) /\ OneTick'
    BY <1>6, <2>1, <2>2
  <2>4. index' \in Nat
    BY <1>4, <2>1, MutationFields DEF Shows, IndexInOrder, IndexTyped
  <2>5. IndexTyped' /\ WritesQueued'
    <3>1. IndexTyped'
      BY <1>1, <2>1, <2>3, <2>4 DEF IndexInOrder, IndexTyped
    <3>2. ASSUME NEW n \in unseen PROVE n \in unseen' \/ \E i \in 1 .. Len(jobs) : jobs[i].n = n
      BY <1>4, <2>1 DEF Shows
    <3>3. WritesQueued'
      BY <1>1, <2>1, <3>2 DEF IndexInOrder, WritesQueued
    <3> QED BY <3>1, <3>3
  <2>6. DoneTo(c)'
    <3>1. Shown(c + 1)'
      BY <2>1 DEF Shown, Shows
    <3>2. ASSUME NEW u \in EsTicks
          PROVE  /\ c + Len(tick'[u].todo) <= Len(jobs) /\ (tick'[u].pc # "mark" => tick'[u].todo # << >>)
                 /\ \A i \in 1 .. Len(tick'[u].todo) : tick'[u].todo[i].id = c + i
      <4>1. CASE u = t
        BY <1>3, <1>8, <2>2, <2>3, <4>1
      <4>2. CASE u # t
        <5>1. tick'[u] = tick[u] /\ tick[u].pc = "mark" /\ Len(tick[u].todo) = 0
          BY <1>5, <2>3, <4>2
        <5>2. c + 0 <= Len(jobs) /\ \A i \in 1 .. 0 : FALSE
          BY <1>4
        <5> QED BY <5>1, <5>2
      <4> QED BY <4>1, <4>2
    <3>3. \E u \in EsTicks : tick[u].pc # "mark"
      BY <2>1
    <3>4. \E u \in EsTicks : tick'[u].pc = "finish"
      BY <2>2, <2>3
    <3>5. \A i \in c + 1 .. Len(jobs) : jobs[i].status = "PENDING" \/ (i = c + 1 /\ jobs[i].status = "RUNNING")
      BY <1>8
    <3>6. \A i \in 1 .. c : jobs[i].status = "COMPLETED"
      BY <1>8
    <3>7. \E u \in EsTicks : tick'[u].pc # "mark"
      BY <3>4
    <3> QED BY <1>8, <2>1, <3>1, <3>2, <3>4, <3>5, <3>6, <3>7 DEF DoneTo
  <2> QED BY <1>2, <2>1, <2>3, <2>5, <2>6 DEF IndexInOrder
<1>12. CASE SearchIndex!Complete(t)
  <2>1. /\ SearchIndex!Becomes(c + 1, "COMPLETED") /\ tick[t].pc = "finish" /\ index' = index /\ unseen' = unseen
        /\ tick' = [tick EXCEPT ![t] = [todo |-> Tail(tick[t].todo), pc |-> "mark"]]
    BY <1>4, <1>12 DEF SearchIndex!Complete, SearchIndex!NextJob
  <2>2. /\ Tail(tick[t].todo) \in Seq(ClaimType) /\ Len(Tail(tick[t].todo)) = Len(tick[t].todo) - 1
        /\ \A i \in 1 .. Len(Tail(tick[t].todo)) : Tail(tick[t].todo)[i] = tick[t].todo[i + 1] /\ i + 1 \in 1 .. Len(tick[t].todo)
    BY <1>3
  <2>3. PICK w : w = [todo |-> Tail(tick[t].todo), pc |-> "mark"]
    OBVIOUS
  <2>4. w \in TickType /\ w.todo = Tail(tick[t].todo) /\ w.pc = "mark"
    BY <2>2, <2>3 DEF TickType
  <2>5. tick' \in [EsTicks -> TickType] /\ tick'[t] = w /\ (\A u \in EsTicks \ {t} : tick'[u] = tick[u]) /\ OneTick'
    BY <1>6, <2>1, <2>3, <2>4
  <2>6. jobs'[c + 1].status = "COMPLETED"
    BY <1>4, <2>1, BecomesKeeps DEF IndexInOrder
  <2>7. IndexTyped'
    BY <1>1, <1>9, <2>1, <2>5 DEF IndexInOrder, IndexTyped
  <2>8. \A i \in 1 .. c + 1 : i \in 1 .. c \/ i = c + 1
    BY <1>4
  <2>9. \A i \in (c + 1) + 1 .. Len(jobs) : i \in c + 1 .. Len(jobs) /\ i # c + 1
    BY <1>4
  <2>10. \A i \in c + 1 .. Len(jobs) : i # c + 1 => jobs[i].status = "PENDING"
    BY <1>8
  <2>11. DoneTo(c + 1)'
    <3>1. \A i \in 1 .. c + 1 : jobs'[i].status = "COMPLETED"
      BY <1>8, <1>9, <2>1, <2>6, <2>8
    <3>2. \A i \in (c + 1) + 1 .. Len(jobs) : jobs'[i].status = "PENDING"
      BY <1>8, <1>9, <2>1, <2>9, <2>10
    <3>3. ASSUME NEW u \in EsTicks
          PROVE  /\ (c + 1) + Len(tick'[u].todo) <= Len(jobs) /\ tick'[u].pc = "mark"
                 /\ \A i \in 1 .. Len(tick'[u].todo) : tick'[u].todo[i].id = (c + 1) + i
      <4>1. CASE u = t
        <5>1. \A i \in 1 .. Len(Tail(tick[t].todo)) : Tail(tick[t].todo)[i].id = c + (i + 1)
          BY <1>8, <2>2
        <5>2. (c + 1) + Len(Tail(tick[t].todo)) <= Len(jobs) /\ \A i \in 1 .. Len(Tail(tick[t].todo)) : c + (i + 1) = (c + 1) + i
          <6>1. PICK k, m, n : k = Len(Tail(tick[t].todo)) /\ m = Len(tick[t].todo) /\ n = Len(jobs)
            OBVIOUS
          <6>2. k = m - 1 /\ m \in Nat /\ n \in Nat /\ c \in Nat /\ c + m <= n
            BY <1>3, <1>4, <1>8, <2>2, <6>1
          <6>3. (c + 1) + k <= n /\ \A i \in 1 .. k : c + (i + 1) = (c + 1) + i
            BY <6>2
          <6> QED BY <6>1, <6>3
        <5> QED BY <2>4, <2>5, <4>1, <5>1, <5>2
      <4>2. CASE u # t
        <5>1. tick'[u] = tick[u] /\ tick[u].pc = "mark" /\ Len(tick[u].todo) = 0
          BY <1>5, <2>5, <4>2
        <5>2. (c + 1) + 0 <= Len(jobs) /\ \A i \in 1 .. 0 : FALSE
          BY <1>4
        <5> QED BY <5>1, <5>2
      <4> QED BY <4>1, <4>2
    <3>4. Shown(c + 1)'
      BY <1>8, <1>9, <2>1 DEF Shown
    <3>5. \A i \in (c + 1) + 1 .. Len(jobs) : jobs'[i].due
      BY <1>8, <1>9, <2>1, <2>9
    <3> QED BY <1>9, <2>1, <3>1, <3>2, <3>3, <3>4, <3>5 DEF DoneTo
  <2>12. c + 1 \in 0 .. Len(jobs')
    BY <1>4, <1>9, <2>1
  <2> QED BY <1>9, <2>1, <2>5, <2>7, <2>11, <2>12 DEF IndexInOrder
<1>13. CASE AloneIsPutBack(t)
  <2>1. /\ jobs' = [jobs EXCEPT ![c + 1] = SearchIndex!Deferred(@, SearchIndex!Current(t).attempts + 1)]
        /\ tick[t].pc \in {"apply", "finish"} /\ index' = index /\ unseen' = unseen
        /\ tick' = [tick EXCEPT ![t] = [todo |-> Tail(tick[t].todo), pc |-> "mark"]]
        /\ \A i \in DOMAIN jobs \ {c + 1} : jobs[i].status # "PENDING"
    BY <1>4, <1>13 DEF AloneIsPutBack, SearchIndex!Defer, SearchIndex!NextJob
  <2>2. PICK m : m = [jobs[c + 1] EXCEPT !.status = "PENDING", !.attempts = SearchIndex!Current(t).attempts + 1, !.due = FALSE]
    OBVIOUS
  <2>3. jobs' = [jobs EXCEPT ![c + 1] = m]
    BY <1>13, <2>1, <2>2 DEF AloneIsPutBack, SearchIndex!Deferred
  <2>4. m \in MutationType /\ m.n = jobs[c + 1].n /\ m.status = "PENDING" /\ jobs \in Seq(MutationType)
    <3>1. jobs[c + 1] \in MutationType /\ jobs \in Seq(MutationType)
      BY <1>4, MutationFields DEF IndexInOrder
    <3>2. SearchIndex!Current(t).attempts + 1 \in Nat
      <4>1. tick[t].todo[1] \in ClaimType
        BY <1>3
      <4> QED BY <1>3, <4>1 DEF SearchIndex!Current, ClaimType
    <3> QED BY <2>2, <3>1, <3>2 DEF MutationType
  <2>5. jobs' \in Seq(MutationType) /\ Len(jobs') = Len(jobs) /\ jobs'[c + 1] = m /\ \A j \in 1 .. Len(jobs) : j # c + 1 => jobs'[j] = jobs[j]
    <3> HIDE DEF MutationType
    <3> QED BY <1>4, <2>3, <2>4
  <2>6. c + 1 = Len(jobs)
    <3>1. ASSUME c + 1 # Len(jobs) PROVE FALSE
      <4>1. DOMAIN jobs = 1 .. Len(jobs)
        BY <2>4
      <4>2. Len(jobs) \in c + 1 .. Len(jobs) /\ Len(jobs) \in DOMAIN jobs
        BY <1>3, <1>4, <4>1
      <4> QED BY <1>8, <2>1, <3>1, <4>2
    <3> QED BY <3>1
  <2>7. Len(tick[t].todo) = 1 /\ Tail(tick[t].todo) = << >>
    <3>1. Len(tick[t].todo) = 1
      <4>1. PICK k, n : k = Len(tick[t].todo) /\ n = Len(jobs)
        OBVIOUS
      <4>2. k \in Nat /\ n \in Nat /\ 1 \in 1 .. k /\ c \in Nat /\ c + k <= n /\ c + 1 = n
        BY <1>3, <1>4, <1>8, <2>6, <4>1
      <4>3. k = 1
        BY <4>2
      <4> QED BY <4>1, <4>3
    <3>2. PICK q \in Seq(ClaimType) : q = Tail(tick[t].todo) /\ Len(q) = 0
      <4>1. \A z \in Seq(ClaimType) : Len(z) = 1 => Tail(z) \in Seq(ClaimType) /\ Len(Tail(z)) = 0
        <5> HIDE DEF ClaimType
        <5> QED OBVIOUS
      <4> QED BY <1>3, <3>1, <4>1
    <3>3. q = << >>
      BY <3>2
    <3> QED BY <3>1, <3>2, <3>3
  <2>8. tick' \in [EsTicks -> TickType] /\ OneTick' /\ \A u \in EsTicks : tick'[u] = NoTick
    <3>1. NoTick \in TickType
      BY <1>3, <2>7 DEF NoTick, SearchIndex!IdleTick, TickType
    <3>2. tick' = [tick EXCEPT ![t] = NoTick]
      BY <2>1, <2>7 DEF NoTick, SearchIndex!IdleTick
    <3> QED BY <1>5, <1>6, <3>1, <3>2
  <2>9. IndexTyped' /\ WritesQueued'
    <3>1. IndexTyped'
      BY <1>1, <2>1, <2>5, <2>8 DEF IndexInOrder, IndexTyped
    <3>2. \A j \in 1 .. Len(jobs) : jobs'[j].n = jobs[j].n
      BY <2>4, <2>5
    <3>3. WritesQueued'
      BY <1>1, <2>1, <2>5, <3>2 DEF IndexInOrder, WritesQueued
    <3> QED BY <3>1, <3>3
  <2>10. DoneTo(c)'
    <3>1. Shown(c + 1)' \/ Shown(c)'
      <4>1. c = 0 \/ (c \in 1 .. Len(jobs) /\ c # c + 1)
        BY <1>4
      <4>2. Shows(c)' = Shows(c) /\ Shows(c + 1)' = Shows(c + 1)
        BY <1>4, <2>4, <2>5, <4>1 DEF Shows
      <4> QED BY <1>8, <2>1, <4>2 DEF Shown
    <3>2. \A i \in 1 .. c : jobs'[i].status = "COMPLETED"
      BY <1>8, <2>5
    <3>3. \A i \in c + 1 .. Len(jobs') : i = c + 1 /\ jobs'[i].status = "PENDING" /\ i = Len(jobs')
      BY <1>4, <2>4, <2>5, <2>6
    <3>4. \A u \in EsTicks : tick'[u].pc = "mark" /\ tick'[u].todo = << >> /\ Len(tick'[u].todo) = 0
      BY <2>8 DEF NoTick, SearchIndex!IdleTick
    <3>5. c + 0 <= Len(jobs') /\ c + 1 <= Len(jobs') /\ \A i \in 1 .. 0 : FALSE
      BY <1>4, <2>5, <2>6
    <3> QED BY <2>8, <3>1, <3>2, <3>3, <3>4, <3>5 DEF DoneTo, PutBack
  <2> QED BY <1>2, <2>5, <2>8, <2>9, <2>10 DEF IndexInOrder
<1>14. CASE DiesBetweenJobs(t)
  <2>1. jobs' = jobs /\ index' = index /\ unseen' = unseen /\ tick' = [tick EXCEPT ![t] = NoTick] /\ tick[t].pc = "mark"
    BY <1>14 DEF DiesBetweenJobs, SearchIndex!TickDies, NoTick
  <2>2. tick' \in [EsTicks -> TickType] /\ OneTick' /\ \A u \in EsTicks : tick'[u] = NoTick
    <3>1. NoTick \in TickType
      <4>1. << >> \in Seq(ClaimType)
        OBVIOUS
      <4> QED BY <4>1 DEF NoTick, SearchIndex!IdleTick, TickType
    <3> QED BY <1>5, <1>6, <2>1, <3>1
  <2>3. IndexTyped' /\ WritesQueued'
    BY <1>1, <2>1, <2>2 DEF IndexInOrder, IndexTyped, WritesQueued
  <2>4. DoneTo(c)'
    <3>1. Shown(c)' \/ (c + 1 <= Len(jobs) /\ Shown(c + 1)')
      BY <1>4, <1>8, <2>1 DEF Shown, Shows
    <3>2. \A i \in c + 1 .. Len(jobs) : jobs[i].status = "PENDING" /\ jobs[i].due
      BY <1>5, <1>8, <2>1
    <3>3. \A u \in EsTicks : tick'[u].pc = "mark" /\ tick'[u].todo = << >> /\ Len(tick'[u].todo) = 0
      BY <2>2 DEF NoTick, SearchIndex!IdleTick
    <3>4. c + 0 <= Len(jobs) /\ \A i \in 1 .. 0 : FALSE
      BY <1>4
    <3> QED BY <1>8, <2>1, <3>1, <3>2, <3>3, <3>4 DEF DoneTo
  <2> QED BY <1>2, <2>1, <2>2, <2>3, <2>4 DEF IndexInOrder
<1> QED BY <1>10, <1>11, <1>12, <1>13, <1>14

\* The back-off of the last job ends.
LEMMA BackoffStep ==
  ASSUME IndexInOrder, NEW i \in DOMAIN jobs, SearchIndex!BackoffEnds(i)
  PROVE  IndexInOrder'
<1>1. PICK c \in 0 .. Len(jobs) : DoneTo(c)
  BY DEF IndexInOrder
<1>2. /\ jobs \in Seq(MutationType) /\ Len(jobs) \in Nat /\ i \in 1 .. Len(jobs) /\ jobs[i] \in MutationType
      /\ jobs[i].status = "PENDING" /\ c \in Nat
  BY <1>1, MutationFields DEF IndexInOrder, SearchIndex!BackoffEnds, SearchIndex!BackedOff
<1>3. PICK m : m = [jobs[i] EXCEPT !.due = TRUE]
  OBVIOUS
<1>4. m \in MutationType /\ m.n = jobs[i].n /\ m.status = jobs[i].status /\ m.due
  BY <1>2, <1>3 DEF MutationType
<1>5. jobs' = [jobs EXCEPT ![i] = m] /\ UNCHANGED <<hub, request, tick, index, unseen>>
  BY <1>3 DEF SearchIndex!BackoffEnds
<1>6. /\ jobs' \in Seq(MutationType) /\ Len(jobs') = Len(jobs)
      /\ \A j \in 1 .. Len(jobs) : jobs'[j].n = jobs[j].n /\ jobs'[j].status = jobs[j].status /\ (jobs[j].due => jobs'[j].due)
      /\ jobs'[i].due
  <2>1. /\ jobs' \in Seq(MutationType) /\ Len(jobs') = Len(jobs) /\ jobs'[i] = m
        /\ \A j \in 1 .. Len(jobs) : j # i => jobs'[j] = jobs[j]
    <3> HIDE DEF MutationType
    <3> QED BY <1>2, <1>4, <1>5
  <2> QED BY <1>4, <2>1
<1>7. IndexTyped' /\ WritesQueued' /\ OneTick'
  BY <1>5, <1>6 DEF IndexInOrder, IndexTyped, WritesQueued, OneTick
<1>8. \A k \in 0 .. Len(jobs) : Shown(k)' = Shown(k)
  BY <1>5, <1>6 DEF Shown, Shows
<1>9. \A j \in c + 1 .. Len(jobs) : j \in 1 .. Len(jobs) /\ jobs'[j].due
  <2>1. \A j \in c + 1 .. Len(jobs) : j \in 1 .. Len(jobs)
    BY <1>2
  <2>2. i \in c + 1 .. Len(jobs)
    <3>1. i \notin 1 .. c
      BY <1>1, <1>2 DEF DoneTo
    <3> QED BY <1>2, <3>1
  <2>3. \A j \in c + 1 .. Len(jobs) : jobs[j].due \/ j = Len(jobs)
    BY <1>1 DEF DoneTo, PutBack
  <2>4. ~ jobs[i].due
    BY DEF SearchIndex!BackoffEnds, SearchIndex!BackedOff
  <2> QED BY <1>6, <2>1, <2>2, <2>3, <2>4
<1>10. DoneTo(c)'
  <2>1. \A j \in 1 .. c : jobs'[j].status = "COMPLETED"
    BY <1>1, <1>2, <1>6 DEF DoneTo
  <2>2. \A j \in c + 1 .. Len(jobs) : jobs'[j].status = "PENDING" \/ (j = c + 1 /\ jobs'[j].status = "RUNNING" /\ \E t \in EsTicks : tick[t].pc # "mark")
    BY <1>1, <1>6, <1>9 DEF DoneTo
  <2>3. ASSUME NEW t \in EsTicks
        PROVE  /\ c + Len(tick[t].todo) <= Len(jobs) /\ (tick[t].pc # "mark" => tick[t].todo # << >>)
               /\ \A k \in 1 .. Len(tick[t].todo) : tick[t].todo[k].id = c + k
               /\ tick[t].pc = "finish" => Shown(c + 1)'
    <3>1. tick[t].pc = "finish" => c + 1 \in 0 .. Len(jobs)
      BY <1>1, <1>2, TickFields DEF DoneTo, IndexInOrder
    <3> QED BY <1>1, <1>8, <3>1 DEF DoneTo
  <2>4. (\A t \in EsTicks : tick[t].pc # "finish") => Shown(c)' \/ (c + 1 <= Len(jobs) /\ Shown(c + 1)')
    BY <1>1, <1>2, <1>8 DEF DoneTo
  <2> QED BY <1>5, <1>6, <1>9, <2>1, <2>2, <2>3, <2>4 DEF DoneTo
<1> QED BY <1>1, <1>6, <1>7, <1>10 DEF IndexInOrder

\* When every write was queued and every job completed, the index shows the last write,
\* also after the last job was put back and tried again, a tick died between two jobs or an
\* earlier write was lost: unless the last write itself was lost without an error, a tick
\* overlapped another, a job was put back while another waited, a tick died within a job,
\* or two requests queued their jobs against the order of their writes.
THEOREM IndexAlwaysFollowsHub == Spec => []IndexFollowsHub
<1> DEFINE I == service = "index" => IndexInv
<1>1. Init => I
  <2> SUFFICES ASSUME Init PROVE IndexInv
    OBVIOUS
  <2>1. /\ hub = 0 /\ request = [r \in Requests |-> SearchIndex!NoRequest] /\ jobs = << >>
        /\ tick = [t \in EsTicks |-> NoTick] /\ index = 0 /\ unseen = {} /\ disturbed = FALSE
    BY DEF Init, SearchIndex!Init, NoTick
  <2>2. /\ SearchIndex!NoRequest \in HubRequestType /\ SearchIndex!NoRequest.pc = "new"
    BY DEF SearchIndex!NoRequest, HubRequestType
  <2>3. NoTick \in TickType /\ NoTick.pc = "mark" /\ NoTick.todo = << >> /\ Len(NoTick.todo) = 0
    <3>1. << >> \in Seq(ClaimType) /\ Len(<< >>) = 0
      OBVIOUS
    <3> QED BY <3>1 DEF NoTick, SearchIndex!IdleTick, TickType
  <2>4. jobs \in Seq(MutationType) /\ Len(jobs) = 0
    BY <2>1
  <2>5. IndexTyped
    BY <2>1, <2>2, <2>3, <2>4 DEF IndexTyped
  <2>6. WritesQueued
    BY <2>1, <2>2, <2>4 DEF WritesQueued
  <2>7. DoneTo(0) /\ 0 \in 0 .. Len(jobs)
    BY <2>1, <2>3, <2>4 DEF DoneTo, Shown, Shows
  <2>8. OneTick
    BY <2>1 DEF OneTick
  <2> QED BY <2>1, <2>5, <2>6, <2>7, <2>8 DEF IndexInv, IndexInOrder
<1>2. I /\ [Next]_vars => I'
  <2> SUFFICES ASSUME IndexInv, service = "index", [Next]_vars PROVE IndexInv'
    BY Frame
  <2>1. [SearchIndex!Next]_indexVars
    BY Frame
  <2>2. CASE UNCHANGED indexVars
    <3>1. UNCHANGED <<hub, request, jobs, tick, index, unseen, disturbed>>
      BY <2>2 DEF indexVars
    <3>2. IndexInOrder' <=> IndexInOrder
      BY <3>1 DEF IndexInOrder, IndexTyped, WritesQueued, OneTick, DoneTo, PutBack, Shown, Shows
    <3> QED BY <3>1, <3>2 DEF IndexInv
  <2>3. CASE SearchIndex!Next
    <3>1. disturbed \in BOOLEAN /\ (disturbed \/ IndexInOrder)
      BY DEF IndexInv
    <3>2. ASSUME NEW r \in Requests, SearchIndex!HubWrite(r) PROVE IndexInv'
      BY <3>1, <3>2, HubWriteStep DEF IndexInv, SearchIndex!HubWrite
    <3>3. ASSUME NEW r \in Requests, SearchIndex!EnqueueMutation(r) PROVE IndexInv'
      <4>1. disturbed' = (disturbed \/ \E i \in DOMAIN jobs : jobs[i].n > request[r].n \/ SearchIndex!BackedOff(i))
        BY <3>3 DEF SearchIndex!EnqueueMutation
      <4>2. CASE ~ disturbed /\ ~ \E i \in DOMAIN jobs : jobs[i].n > request[r].n \/ SearchIndex!BackedOff(i)
        <5>1. DOMAIN jobs = 1 .. Len(jobs)
          BY <3>1, <4>2 DEF IndexInOrder, IndexTyped
        <5> QED BY <3>1, <3>3, <4>1, <4>2, <5>1, QueueStep DEF IndexInv
      <4> QED BY <3>1, <4>1, <4>2 DEF IndexInv
    <3>4. ASSUME NEW r \in Requests, SearchIndex!RequestDies(r) PROVE IndexInv'
      BY <3>1, <3>4, RequestLost DEF IndexInv, SearchIndex!RequestDies
    <3>5. ASSUME NEW t \in EsTicks, SearchIndex!TickStep(t) PROVE IndexInv'
      <4>1. CASE SearchIndex!Tick(t)
        <5>1. disturbed' = (disturbed \/ \E u \in EsTicks \ {t} : tick[u] # NoTick)
          BY <4>1 DEF SearchIndex!Tick, NoTick
        <5>2. CASE ~ disturbed /\ ~ \E u \in EsTicks \ {t} : tick[u] # NoTick
          BY <3>1, <4>1, <5>1, <5>2, ClaimStep DEF IndexInv
        <5> QED BY <3>1, <5>1, <5>2 DEF IndexInv
      <4>2. CASE SearchIndex!MarkRunning(t) \/ SearchIndex!ApplyMutation(t) \/ SearchIndex!ErrorUnread(t) \/ SearchIndex!Complete(t)
        <5>1. disturbed' = disturbed
          BY <4>2 DEF SearchIndex!MarkRunning, SearchIndex!ApplyMutation, SearchIndex!ErrorUnread, SearchIndex!Complete
        <5> QED BY <3>1, <4>2, <5>1, WorkStep DEF IndexInv
      <4>3. CASE SearchIndex!Defer(t)
        <5>1. /\ disturbed' \in BOOLEAN /\ (disturbed => disturbed')
              /\ ~ disturbed' => AloneIsPutBack(t)
          BY <3>1, <4>3 DEF SearchIndex!Defer, AloneIsPutBack
        <5> QED BY <3>1, <5>1, WorkStep DEF IndexInv
      <4>4. CASE SearchIndex!TickDies(t)
        <5>1. /\ disturbed' \in BOOLEAN /\ (disturbed => disturbed')
              /\ ~ disturbed' => DiesBetweenJobs(t)
          BY <3>1, <4>4 DEF SearchIndex!TickDies, DiesBetweenJobs
        <5> QED BY <3>1, <5>1, WorkStep DEF IndexInv
      <4> QED BY <3>5, <4>1, <4>2, <4>3, <4>4 DEF SearchIndex!TickStep
    <3>6. ASSUME NEW i \in DOMAIN jobs, SearchIndex!BackoffEnds(i) PROVE IndexInv'
      <4>1. disturbed' = disturbed
        BY <3>6 DEF SearchIndex!BackoffEnds
      <4> QED BY <3>1, <3>6, <4>1, BackoffStep DEF IndexInv
    <3> QED BY <2>3, <3>2, <3>3, <3>4, <3>5, <3>6 DEF SearchIndex!Next
  <2> QED BY <2>1, <2>2, <2>3
<1>3. I => IndexFollowsHub
  <2> SUFFICES ASSUME IndexInOrder, \A r \in Requests : request[r].pc # "written",
                      \A i \in DOMAIN jobs : jobs[i].status = "COMPLETED", hub \notin unseen
               PROVE  index = hub
    BY DEF IndexInv, IndexFollowsHub, SearchIndex!IndexFollowsHub
  <2>1. PICK c \in 0 .. Len(jobs) : DoneTo(c)
    BY DEF IndexInOrder
  <2>2. /\ DOMAIN jobs = 1 .. Len(jobs) /\ Len(jobs) \in Nat /\ hub \in Nat
        /\ \A i \in 1 .. Len(jobs) : jobs[i].n \in Nat /\ jobs[i].n <= hub
    BY MutationFields DEF IndexInOrder, WritesQueued
  <2>3. c = Len(jobs)
    <3>1. ASSUME c # Len(jobs) PROVE FALSE
      <4>1. c + 1 \in c + 1 .. Len(jobs) /\ c + 1 \in DOMAIN jobs
        BY <2>1, <2>2, <3>1
      <4> QED BY <2>1, <4>1 DEF DoneTo
    <3> QED BY <3>1
  <2>4. ASSUME NEW t \in EsTicks PROVE tick[t].pc # "finish"
    <3>1. c + Len(tick[t].todo) <= Len(jobs) /\ (tick[t].pc # "mark" => tick[t].todo # << >>)
      BY <2>1 DEF DoneTo
    <3>2. tick[t].todo # << >> => Len(tick[t].todo) \in Nat /\ 1 \in 1 .. Len(tick[t].todo)
      BY TickFields DEF IndexInOrder
    <3> QED BY <2>2, <2>3, <3>1, <3>2
  <2>5. Shown(Len(jobs))
    <3>1. ~ Len(jobs) + 1 <= Len(jobs)
      BY <2>2
    <3> QED BY <2>1, <2>3, <2>4, <3>1 DEF DoneTo
  <2>6. hub \in 1 .. hub => \E i \in 1 .. Len(jobs) : jobs[i].n = hub
    BY DEF IndexInOrder, WritesQueued
  <2>7. CASE hub = 0
    <3>1. Len(jobs) # 0 => Len(jobs) \in 1 .. Len(jobs)
      BY <2>2
    <3>2. Shows(Len(jobs)) = hub
      BY <2>2, <2>7, <3>1 DEF Shows
    <3> QED BY <2>5, <3>2 DEF Shown
  <2>8. CASE hub # 0
    <3>1. PICK i \in 1 .. Len(jobs) : jobs[i].n = hub
      BY <2>2, <2>6, <2>8
    <3>2. PICK n : n = Len(jobs)
      OBVIOUS
    <3>3. n \in 1 .. n /\ (i = n \/ i < n) /\ i \in 1 .. n /\ n # 0
      <4>1. n \in Nat /\ i \in 1 .. n
        BY <2>2, <3>1, <3>2
      <4> QED BY <4>1
    <3>4. jobs[i].n <= jobs[n].n /\ jobs[n].n <= hub /\ jobs[n].n \in Nat
      BY <2>2, <3>1, <3>2, <3>3 DEF IndexInOrder, WritesQueued
    <3>5. jobs[n].n = hub
      BY <2>2, <3>1, <3>4
    <3>6. Shows(Len(jobs)) = hub
      BY <3>2, <3>3, <3>5 DEF Shows
    <3> QED BY <2>5, <3>6 DEF Shown
  <2> QED BY <2>7, <2>8
<1> QED BY <1>1, <1>2, <1>3, PTL DEF Spec
=============================================================================
