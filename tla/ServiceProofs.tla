---------------------------- MODULE ServiceProofs -----------------------------
(***************************************************************************)
(* Accounts and jobs of the service: refresh tokens are exchanged once,    *)
(* members belong to their projects, and idempotency keys keep their job,  *)
(* for any number of users, organizations, tokens, projects, requests and  *)
(* jobs.                                                                   *)
(***************************************************************************)
EXTENDS Feed, Recursion

-------------------------------------------------------------------------------
(* The inductive invariant *)

\* A session stems from one that exists.
Rooted == \A s \in Tokens : sessions[s] # None => sessions[sessions[s].root] # None

\* Who holds the lock of a session is about to revoke it.
SpendsAgree(c) ==
  request[c].spends =>
    /\ At(c, {"refresh", "logout"}, "checked")
    /\ sessions[request[c].ask.token] # None
    /\ ~sessions[request[c].ask.token].revoked

\* What a handler has checked stays true until its commit, whoever commits before it.
CheckedAgree(c) ==
  LET r == request[c] IN
  /\ At(c, {"refresh"}, "checked") => r.spends
  /\ At(c, {"add"}, "checked") =>
       projects[r.ask.project] # None /\ Org[r.ask.target] = Org[projects[r.ask.project]]
  /\ At(c, {"remove"}, "checked") =>
       projects[r.ask.project] # None /\ r.ask.target # projects[r.ask.project]
  /\ At(c, {"role"}, "checked") =>
       /\ r.role \in Admins /\ Org[r.ask.target] \in Scope(r.ask.actor, r.role)
       /\ r.ask.set.role = "SystemAdmin" => r.role = "SystemAdmin"

\* The lock of a session has one holder.
Exclusive ==
  \A c, d \in Clients :
    request[c].spends /\ request[d].spends /\ request[c].ask.token = request[d].ask.token
      => c = d

AccountsInv ==
  /\ AccountsTypeOK
  /\ Rooted /\ OneLiveHeir /\ MembersBelong /\ Exclusive
  /\ \A c \in Clients : SpendsAgree(c) /\ CheckedAgree(c)

-------------------------------------------------------------------------------
(* Types *)

\* What a request names, by its kind.
LEMMA AskFields ==
  ASSUME NEW a \in Asks
  PROVE  /\ a.kind \in AccountKinds
         /\ a.kind \in {"refresh", "logout"} => a.token \in Tokens
         /\ a.kind \in {"login", "logout", "project", "add", "remove", "role"} => a.actor \in Users
         /\ a.kind \in {"add", "remove"} => a.project \in Projects
         /\ a.kind \in {"add", "remove", "role"} => a.target \in Users
         /\ a.kind = "role" => a.set \in UserRow
         /\ a.actor = None \/ a.actor \in Users
<1>1. CASE a \in Ask({"login", "project"}, Users, {None}, {None}, {None}, {Blank})
  BY <1>1 DEF Ask, AccountKinds
<1>2. CASE a \in Ask({"refresh"}, {None}, Tokens, {None}, {None}, {Blank})
  BY <1>2 DEF Ask, AccountKinds
<1>3. CASE a \in Ask({"logout"}, Users, Tokens, {None}, {None}, {Blank})
  BY <1>3 DEF Ask, AccountKinds
<1>4. CASE a \in Ask({"add", "remove"}, Users, {None}, Projects, Users, {Blank})
  BY <1>4 DEF Ask, AccountKinds
<1>5. CASE a \in Ask({"role"}, Users, {None}, {None}, Users, Wishes)
  BY <1>5, WishesAssumption DEF Ask, AccountKinds
<1> QED
  BY <1>1, <1>2, <1>3, <1>4, <1>5 DEF Asks

\* A request that has arrived has something to ask.
LEMMA RequestFields ==
  ASSUME AccountsTypeOK, NEW c \in Clients
  PROVE  /\ request[c] \in Request
         /\ request[c].ask # None => request[c].ask \in Asks
         /\ request[c].role \in Roles /\ request[c].was \in UserRow
         /\ request[c].spends \in BOOLEAN /\ request[c].found \in BOOLEAN
BY DEF AccountsTypeOK, Request

LEMMA IdleIsRequest == Idle \in Request /\ Idle.pc = "idle" /\ ~Idle.spends
BY DEF Idle, Made, Request, Blank, UserRow, Roles

LEMMA Rows ==
  ASSUME AccountsTypeOK, NEW t \in Tokens, sessions[t] # None
  PROVE  /\ sessions[t] \in SessionRow
         /\ sessions[t].user \in Users /\ sessions[t].root \in Tokens
         /\ sessions[t].revoked \in BOOLEAN /\ sessions[t].expired \in BOOLEAN
BY DEF AccountsTypeOK, SessionRow
-------------------------------------------------------------------------------
(* The first state *)

LEMMA AccountsInitSafe == AccountsInit => AccountsInv
<1> SUFFICES ASSUME AccountsInit PROVE AccountsInv
  OBVIOUS
<1>1. AccountsTypeOK
  <2>1. users \in [Users -> UserRow]
    BY SeedAssumption DEF AccountsInit, UserRow
  <2> QED
    BY <2>1, SeedAssumption, IdleIsRequest DEF AccountsInit, AccountsTypeOK
<1>2. Rooted /\ OneLiveHeir
  BY DEF AccountsInit, Rooted, OneLiveHeir
<1>3. MembersBelong
  BY SeedAssumption DEF AccountsInit, MembersBelong
<1>4. Exclusive /\ \A c \in Clients : SpendsAgree(c) /\ CheckedAgree(c)
  BY DEF AccountsInit, Exclusive, SpendsAgree, CheckedAgree, At, Idle, Made
<1> QED
  BY <1>1, <1>2, <1>3, <1>4 DEF AccountsInv
-------------------------------------------------------------------------------
(* Steps that write no table *)

\* One request moves, and the tables stay: the rest of the invariant is about it.
LEMMA OnlyRequestMoves ==
  ASSUME AccountsInv, NEW c \in Clients, NEW r \in Request, Moves(c, r), UNCHANGED tables,
         r.spends => /\ r.pc = "checked" /\ r.ask # None
                     /\ r.ask.kind \in {"refresh", "logout"}
                     /\ sessions[r.ask.token] # None /\ ~sessions[r.ask.token].revoked
                     /\ \A d \in Clients \ {c} :
                          ~(request[d].spends /\ request[d].ask.token = r.ask.token),
         CheckedAgree(c)'
  PROVE  AccountsInv'
<1>0. /\ request' = [request EXCEPT ![c] = r] /\ request \in [Clients -> Request]
      /\ UNCHANGED <<scene, users, projects, members, sessions>>
  BY DEF Moves, tables, AccountsInv, AccountsTypeOK
<1>1. AccountsTypeOK'
  BY <1>0 DEF AccountsInv, AccountsTypeOK
<1>2. (Rooted /\ OneLiveHeir /\ MembersBelong)'
  BY <1>0 DEF AccountsInv, Rooted, OneLiveHeir, MembersBelong
<1>3. request'[c] = r /\ \A d \in Clients : d # c => request'[d] = request[d]
  BY <1>0
<1>4. Exclusive'
  BY <1>3 DEF AccountsInv, Exclusive
<1>5. ASSUME NEW d \in Clients PROVE SpendsAgree(d)' /\ CheckedAgree(d)'
  <2>1. CASE d = c
    BY <1>0, <1>3, <2>1 DEF SpendsAgree, At
  <2>2. CASE d # c
    BY <1>0, <1>3, <2>2 DEF AccountsInv, SpendsAgree, CheckedAgree, At
  <2> QED BY <2>1, <2>2
<1> QED
  BY <1>1, <1>2, <1>4, <1>5 DEF AccountsInv

LEMMA ArriveSafe ==
  ASSUME AccountsInv, NEW c \in Clients, NEW ask \in Asks, Arrive(c, ask)
  PROVE  AccountsInv'
<1> DEFINE role == IF ask.actor = None THEN "User" ELSE users[ask.actor].role
           r == Made(ask, "arrived", role, Blank, FALSE, FALSE)
<1>1. Moves(c, r) /\ UNCHANGED tables
  BY DEF Arrive
<1>2. role \in Roles
  BY AskFields DEF AccountsInv, AccountsTypeOK, UserRow, Roles
<1>3. r \in Request
  BY <1>2 DEF Request, Made, Blank, UserRow, Roles
<1>4. request'[c] = r
  BY <1>1 DEF Moves, AccountsInv, AccountsTypeOK
<1>5. CheckedAgree(c)'
  BY <1>4 DEF CheckedAgree, At, Made
<1> QED
  BY <1>1, <1>3, <1>5, OnlyRequestMoves DEF Made

LEMMA RefuseSafe ==
  ASSUME AccountsInv, NEW c \in Clients, Refuse(c)
  PROVE  AccountsInv'
<1>1. Moves(c, Idle) /\ UNCHANGED tables
  BY DEF Refuse
<1>2. request'[c] = Idle
  BY <1>1 DEF Moves, AccountsInv, AccountsTypeOK
<1>3. CheckedAgree(c)'
  BY <1>2 DEF CheckedAgree, At, Idle, Made
<1> QED
  BY <1>1, <1>3, IdleIsRequest, OnlyRequestMoves DEF Idle, Made

LEMMA CheckSafe ==
  ASSUME AccountsInv, NEW c \in Clients, Check(c)
  PROVE  AccountsInv'
<1> DEFINE old == request[c]
           was == IF old.ask.kind = "role" THEN Seen(old) ELSE Blank
           found == old.ask.kind = "remove" /\ <<old.ask.project, old.ask.target>> \in members
           r == Made(old.ask, "checked", old.role, was, FALSE, found)
<1>1. /\ old \in Request /\ old.ask \in Asks /\ old.pc = "arrived"
      /\ old.ask.kind \in {"add", "remove", "role"}
  BY RequestFields DEF Check, At, AccountsInv
<1>2. Moves(c, r) /\ UNCHANGED tables
  BY DEF Check
<1>3. was \in UserRow
  <2>1. old.ask.kind = "role" => Seen(old) \in UserRow
    BY <1>1, AskFields DEF Seen, AccountsInv, AccountsTypeOK, Request, UserRow
  <2> QED BY <2>1 DEF Blank, UserRow, Roles
<1>5. r \in Request
  BY <1>1, <1>3 DEF Request, Made
<1>6. request'[c] = r
  BY <1>2 DEF Moves, AccountsInv, AccountsTypeOK
<1>7. /\ old.ask.kind = "add" => MayAdd(old)
      /\ old.ask.kind = "remove" => MayRemove(old)
      /\ old.ask.kind = "role" => MayChange(old)
  BY DEF Check, At
<1>8. CheckedAgree(c)'
  <2>1. UNCHANGED projects
    BY <1>2 DEF tables
  <2>2. /\ old.ask.kind = "add" =>
             /\ projects[old.ask.project] # None
             /\ Org[old.ask.target] = Org[projects[old.ask.project]]
        /\ old.ask.kind = "remove" =>
             projects[old.ask.project] # None /\ old.ask.target # projects[old.ask.project]
        /\ old.ask.kind = "role" =>
             /\ old.role \in Admins /\ Org[old.ask.target] \in Scope(old.ask.actor, old.role)
             /\ old.ask.set.role = "SystemAdmin" => old.role = "SystemAdmin"
    BY <1>7 DEF MayAdd, MayRemove, MayChange, Permitted
  <2> QED BY <1>1, <1>6, <2>1, <2>2 DEF CheckedAgree, At, Made
<1> QED
  BY <1>2, <1>5, <1>8, OnlyRequestMoves DEF Made

LEMMA SpendSafe ==
  ASSUME AccountsInv, NEW c \in Clients, Spend(c)
  PROVE  AccountsInv'
<1> DEFINE old == request[c]
           r(spends) == Made(old.ask, "checked", old.role, Blank, spends, FALSE)
<1>1. /\ old \in Request /\ old.ask \in Asks /\ old.ask # None
      /\ old.ask.kind \in {"refresh", "logout"} /\ UNCHANGED tables
  BY RequestFields DEF Spend, At, AccountsInv
<1>2. r(TRUE) \in Request /\ r(FALSE) \in Request
  BY <1>1 DEF Request, Made, Blank, UserRow, Roles
<1>3. \A d \in Clients : ~(request[d].spends /\ request[d].ask.token = old.ask.token)
  BY DEF Spend, Locked
<1>4. CASE Usable(old.ask.token) /\ Moves(c, r(TRUE))
  <2>1. request'[c] = r(TRUE)
    BY <1>4 DEF Moves, AccountsInv, AccountsTypeOK
  <2>2. CheckedAgree(c)'
    BY <1>1, <2>1 DEF CheckedAgree, At, Made
  <2> QED
    BY <1>1, <1>2, <1>3, <1>4, <2>2, OnlyRequestMoves DEF Usable, Made
<1>5. CASE old.ask.kind = "logout" /\ Moves(c, r(FALSE))
  <2>1. request'[c] = r(FALSE)
    BY <1>5 DEF Moves, AccountsInv, AccountsTypeOK
  <2>2. CheckedAgree(c)'
    BY <1>1, <1>5, <2>1 DEF CheckedAgree, At, Made
  <2> QED
    BY <1>1, <1>2, <1>5, <2>2, OnlyRequestMoves DEF Made
<1> QED
  BY <1>4, <1>5 DEF Spend
-------------------------------------------------------------------------------
(* Commits: the request of the client is over, and other requests stay as they are *)

LEMMA Over ==
  ASSUME AccountsInv, NEW c \in Clients, Moves(c, Idle)
  PROVE  /\ scene' = scene /\ request' \in [Clients -> Request]
         /\ request'[c] = Idle /\ \A d \in Clients : d # c => request'[d] = request[d]
         /\ Exclusive'
<1>1. /\ request' = [request EXCEPT ![c] = Idle] /\ scene' = scene
      /\ request \in [Clients -> Request]
  BY DEF Moves, AccountsInv, AccountsTypeOK
<1>2. Exclusive'
  BY <1>1 DEF AccountsInv, Exclusive, Idle, Made
<1> QED BY <1>1, <1>2, IdleIsRequest

\* As long as projects stay, what was checked stays true.
LEMMA ChecksStand ==
  ASSUME AccountsInv, NEW c \in Clients, Moves(c, Idle), UNCHANGED projects
  PROVE  \A d \in Clients : CheckedAgree(d)'
<1>1. SUFFICES ASSUME NEW d \in Clients PROVE CheckedAgree(d)'
  OBVIOUS
<1>2. CASE d = c
  <2>1. request'[c].pc = "idle"
    BY Over, IdleIsRequest
  <2> QED BY <1>2, <2>1 DEF CheckedAgree, At
<1>3. CASE d # c
  BY <1>3, Over DEF AccountsInv, CheckedAgree, At
<1> QED BY <1>2, <1>3

\* As long as sessions stay, locks stay.
LEMMA LocksStand ==
  ASSUME AccountsInv, NEW c \in Clients, Moves(c, Idle), UNCHANGED sessions
  PROVE  \A d \in Clients : SpendsAgree(d)'
<1>1. SUFFICES ASSUME NEW d \in Clients PROVE SpendsAgree(d)'
  OBVIOUS
<1>2. CASE d = c
  <2>1. ~request'[c].spends
    BY Over, IdleIsRequest
  <2> QED BY <1>2, <2>1 DEF SpendsAgree
<1>3. CASE d # c
  BY <1>3, Over DEF AccountsInv, SpendsAgree, At
<1> QED BY <1>2, <1>3

LEMMA LoginSafe ==
  ASSUME AccountsInv, NEW c \in Clients, NEW t \in Tokens, sessions[t] = None,
         At(c, {"login"}, "arrived"), Moves(c, Idle), UNCHANGED <<users, projects, members>>,
         sessions' = [sessions EXCEPT ![t] = NewSession(request[c].ask.actor, t)]
  PROVE  AccountsInv'
<1> DEFINE row == NewSession(request[c].ask.actor, t)
<1>1. row \in SessionRow /\ row # None
  <2>1. request[c].ask.actor \in Users
    BY RequestFields, AskFields DEF At, AccountsInv
  <2>2. row \in SessionRow
    BY <2>1 DEF NewSession, SessionRow
  <2> QED BY <2>2, NullAssumption
<1>2. sessions \in [Tokens -> SessionRow \cup {None}]
  BY DEF AccountsInv, AccountsTypeOK
<1>3. sessions'[t] = row /\ \A s \in Tokens : s # t => sessions'[s] = sessions[s]
  BY <1>2
<1>4. AccountsTypeOK'
  BY <1>1, <1>2, Over DEF AccountsInv, AccountsTypeOK
<1>5. Rooted'
  <2> SUFFICES ASSUME NEW s \in Tokens, sessions'[s] # None
               PROVE  sessions'[sessions'[s].root] # None
    BY DEF Rooted
  <2>1. CASE s = t
    BY <1>1, <1>3, <2>1 DEF NewSession
  <2>2. CASE s # t
    <3>1. sessions[s] # None /\ sessions[s].root \in Tokens /\ sessions[sessions[s].root] # None
      BY <1>3, <2>2, Rows DEF AccountsInv, Rooted
    <3> QED BY <1>3, <2>2, <3>1
  <2> QED BY <2>1, <2>2
<1>6. OneLiveHeir'
  \* No session stems from t, as t is not there.
  <2>1. \A s \in Tokens : sessions[s] # None => sessions[s].root # t
    BY DEF AccountsInv, Rooted
  <2>2. row.root = t
    BY DEF NewSession
  <2> QED BY <1>3, <2>1, <2>2 DEF AccountsInv, OneLiveHeir
<1>7. MembersBelong'
  BY DEF AccountsInv, MembersBelong
<1>8. ASSUME NEW d \in Clients PROVE SpendsAgree(d)'
  <2>1. CASE d = c
    <3>1. ~request'[c].spends
      BY Over, IdleIsRequest
    <3> QED BY <2>1, <3>1 DEF SpendsAgree
  <2>2. CASE d # c
    <3>1. request[d].spends => request[d].ask.token \in Tokens
      BY RequestFields, AskFields DEF AccountsInv, SpendsAgree, At
    <3> QED BY <1>3, <2>2, <3>1, Over DEF AccountsInv, SpendsAgree, At
  <2> QED BY <2>1, <2>2
<1> QED
  BY <1>4, <1>5, <1>6, <1>7, <1>8, Over, ChecksStand DEF AccountsInv

\* A commit that revokes the session of its request and may issue its heir.
LEMMA RevokeSafe ==
  ASSUME AccountsInv, NEW c \in Clients, request[c].spends, Moves(c, Idle),
         UNCHANGED <<users, projects, members>>,
         NEW old \in Tokens, old = request[c].ask.token,
         sessions' \in [Tokens -> SessionRow \cup {None}],
         sessions'[old] # None, sessions'[old].revoked,
         sessions'[old].root = sessions[old].root,
         NEW t \in Tokens,
         \A s \in Tokens \ {old, t} : sessions'[s] = sessions[s],
         \/ t = old
         \/ /\ sessions[t] = None /\ sessions'[t] # None
            /\ sessions'[t].root = sessions[old].root
  PROVE  AccountsInv'
<1>1. sessions[old] # None /\ ~sessions[old].revoked
  BY DEF AccountsInv, SpendsAgree
<1>2. sessions[old].root \in Tokens /\ sessions[sessions[old].root] # None
  BY <1>1, Rows DEF AccountsInv, Rooted
<1>3. \A s \in Tokens : sessions[s] # None => sessions'[s] # None
  OBVIOUS
<1>4. AccountsTypeOK'
  BY Over DEF AccountsInv, AccountsTypeOK
<1>5. Rooted'
  <2> SUFFICES ASSUME NEW s \in Tokens, sessions'[s] # None
               PROVE  sessions'[sessions'[s].root] # None
    BY DEF Rooted
  <2>1. CASE s = old \/ s = t
    BY <1>2, <1>3, <2>1
  <2>2. CASE s # old /\ s # t
    <3>1. sessions[s] # None /\ sessions[s].root \in Tokens /\ sessions[sessions[s].root] # None
      BY <2>2, Rows DEF AccountsInv, Rooted
    <3> QED BY <1>3, <2>2, <3>1
  <2> QED BY <2>1, <2>2
<1>6. OneLiveHeir'
  <2> SUFFICES ASSUME NEW a \in Tokens, NEW b \in Tokens,
                      sessions'[a] # None, ~sessions'[a].revoked,
                      sessions'[b] # None, ~sessions'[b].revoked,
                      sessions'[a].root = sessions'[b].root
               PROVE  a = b
    BY DEF OneLiveHeir
  \* Who was alive with the root of old was old, which is revoked.
  <2>1. \A s \in Tokens \ {old, t} :
           sessions[s] # None /\ ~sessions[s].revoked => sessions[s].root # sessions[old].root
    BY <1>1 DEF AccountsInv, OneLiveHeir
  <2>2. a # old /\ b # old
    OBVIOUS
  <2>3. CASE a = t /\ b # t
    BY <2>1, <2>2, <2>3
  <2>4. CASE b = t /\ a # t
    BY <2>1, <2>2, <2>4
  <2>5. CASE a # t /\ b # t
    BY <2>2, <2>5 DEF AccountsInv, OneLiveHeir
  <2> QED BY <2>3, <2>4, <2>5
<1>7. MembersBelong'
  BY DEF AccountsInv, MembersBelong
<1>8. ASSUME NEW d \in Clients PROVE SpendsAgree(d)'
  <2>1. CASE d = c
    <3>1. ~request'[c].spends
      BY Over, IdleIsRequest
    <3> QED BY <2>1, <3>1 DEF SpendsAgree
  <2>2. CASE d # c
    <3>1. request[d].spends => request[d].ask.token \in Tokens \ {old}
      BY <2>2, RequestFields, AskFields DEF AccountsInv, SpendsAgree, At, Exclusive
    <3>2. request[d].spends => request[d].ask.token # t \/ t = old
      BY DEF AccountsInv, SpendsAgree
    <3> QED BY SMTT(20), <2>2, <3>1, <3>2, Over DEF AccountsInv, SpendsAgree, At
  <2> QED BY <2>1, <2>2
<1> QED
  BY <1>4, <1>5, <1>6, <1>7, <1>8, Over, ChecksStand DEF AccountsInv

LEMMA IssueSafe ==
  ASSUME AccountsInv, NEW c \in Clients, NEW t \in Tokens, Issue(c, t)
  PROVE  AccountsInv'
<1>1. CASE At(c, {"login"}, "arrived") /\ sessions' = [sessions EXCEPT
                                                        ![t] = NewSession(request[c].ask.actor, t)]
  BY <1>1, LoginSafe DEF Issue
<1>2. CASE At(c, {"refresh"}, "checked")
  <2> DEFINE old == request[c].ask.token
             spent == sessions[old]
             heir == NewSession(spent.user, spent.root)
             done == [spent EXCEPT !.revoked = TRUE]
  <2>1. request[c].spends /\ old \in Tokens
    BY <1>2, RequestFields, AskFields DEF AccountsInv, CheckedAgree, At
  <2>2. sessions[old] # None /\ sessions[t] = None
    BY <2>1 DEF AccountsInv, SpendsAgree, Issue
  <2>3. spent \in SessionRow
    BY <2>1, <2>2, Rows DEF AccountsInv
  <2>4. done \in SessionRow /\ done.revoked /\ done.root = spent.root
    BY <2>3 DEF SessionRow
  <2>5. heir \in SessionRow /\ heir.root = spent.root
    BY <2>3 DEF SessionRow, NewSession
  <2>6. done # None /\ heir # None
    BY <2>4, <2>5, NullAssumption
  <2>7. sessions' = [sessions EXCEPT ![old] = done, ![t] = heir]
    BY <1>2 DEF Issue, At
  <2>8. sessions \in [Tokens -> SessionRow \cup {None}]
    BY DEF AccountsInv, AccountsTypeOK
  <2>9. /\ sessions' \in [Tokens -> SessionRow \cup {None}]
        /\ sessions'[old] = done /\ sessions'[t] = heir
        /\ \A s \in Tokens \ {old, t} : sessions'[s] = sessions[s]
    BY <2>1, <2>2, <2>4, <2>5, <2>7, <2>8
  <2>10. Moves(c, Idle) /\ UNCHANGED <<users, projects, members>>
    BY DEF Issue
  <2>11. /\ sessions'[old] # None /\ sessions'[old].revoked
         /\ sessions'[old].root = sessions[old].root
         /\ sessions'[t] # None /\ sessions'[t].root = sessions[old].root
    BY <2>4, <2>5, <2>6, <2>9
  <2> HIDE DEF old, spent, heir, done
  <2>12. old = request[c].ask.token
    BY DEF old
  <2> QED
    BY <2>1, <2>2, <2>9, <2>10, <2>11, <2>12, RevokeSafe
<1> QED
  BY <1>1, <1>2 DEF Issue

LEMMA LogoutSafe ==
  ASSUME AccountsInv, NEW c \in Clients, Logout(c)
  PROVE  AccountsInv'
<1>1. Moves(c, Idle) /\ UNCHANGED <<users, projects, members>>
  BY DEF Logout
<1>2. CASE ~request[c].spends
  <2>1. UNCHANGED sessions
    BY <1>2 DEF Logout
  <2>2. AccountsTypeOK' /\ (Rooted /\ OneLiveHeir /\ MembersBelong)'
    BY <1>1, <2>1, Over DEF AccountsInv, AccountsTypeOK, Rooted, OneLiveHeir, MembersBelong
  <2> QED
    BY <1>1, <2>1, <2>2, Over, ChecksStand, LocksStand DEF AccountsInv
<1>3. CASE request[c].spends
  <2> DEFINE old == request[c].ask.token
             done == [sessions[old] EXCEPT !.revoked = TRUE]
  <2>1. old \in Tokens /\ sessions[old] # None
    BY <1>3, RequestFields, AskFields DEF AccountsInv, SpendsAgree, At
  <2>2. sessions[old] \in SessionRow
    BY <2>1, Rows DEF AccountsInv
  <2>3. done \in SessionRow /\ done.revoked /\ done.root = sessions[old].root
    BY <2>2 DEF SessionRow
  <2>4. done # None
    BY <2>3, NullAssumption
  <2>5. sessions' = [sessions EXCEPT ![old] = done]
    BY <1>3 DEF Logout
  <2>6. sessions \in [Tokens -> SessionRow \cup {None}]
    BY DEF AccountsInv, AccountsTypeOK
  <2>7. /\ sessions' \in [Tokens -> SessionRow \cup {None}]
        /\ sessions'[old] = done /\ \A s \in Tokens \ {old} : sessions'[s] = sessions[s]
    BY <2>1, <2>3, <2>5, <2>6
  <2>8. /\ sessions'[old] # None /\ sessions'[old].revoked
        /\ sessions'[old].root = sessions[old].root
        /\ \A s \in Tokens \ {old, old} : sessions'[s] = sessions[s]
    BY <2>3, <2>4, <2>7
  <2> HIDE DEF old, done
  <2>9. old = request[c].ask.token
    BY DEF old
  <2> QED
    BY <1>1, <1>3, <2>1, <2>7, <2>8, <2>9, RevokeSafe
<1> QED BY <1>2, <1>3

\* A project that is there keeps its owner, whose members stay.
LEMMA CreateProjectSafe ==
  ASSUME AccountsInv, NEW c \in Clients, NEW p \in Projects, CreateProject(c, p)
  PROVE  AccountsInv'
<1> DEFINE owner == request[c].ask.actor
<1>1. Moves(c, Idle) /\ UNCHANGED <<users, sessions>>
  BY DEF CreateProject
<1>2. owner \in Users
  BY RequestFields, AskFields DEF CreateProject, At, AccountsInv
<1>3. /\ projects[p] = None /\ projects' = [projects EXCEPT ![p] = owner]
      /\ members' = members \cup {<<p, owner>>}
      /\ projects \in [Projects -> Users \cup {None}] /\ members \subseteq Projects \X Users
  BY DEF CreateProject, AccountsInv, AccountsTypeOK
<1>4. projects'[p] = owner /\ \A q \in Projects : q # p => projects'[q] = projects[q]
  BY <1>3
<1>5. AccountsTypeOK'
  BY <1>1, <1>2, <1>3, Over DEF AccountsInv, AccountsTypeOK
<1>6. (Rooted /\ OneLiveHeir)'
  BY <1>1 DEF AccountsInv, Rooted, OneLiveHeir
<1>7. MembersBelong'
  <2>1. owner # None
    BY <1>2, NullAssumption
  <2>2. ASSUME NEW m \in members'
        PROVE  projects'[m[1]] # None /\ Org[m[2]] = Org[projects'[m[1]]]
    <3>1. CASE m = <<p, owner>>
      BY <1>4, <2>1, <3>1
    <3>2. CASE m \in members
      <4>1. projects[m[1]] # None /\ Org[m[2]] = Org[projects[m[1]]] /\ m[1] \in Projects
        BY <1>3, <3>2 DEF AccountsInv, MembersBelong
      <4> QED BY <1>3, <1>4, <4>1
    <3> QED BY <1>3, <3>1, <3>2
  <2>3. ASSUME NEW q \in Projects, projects'[q] # None PROVE <<q, projects'[q]>> \in members'
    BY <1>3, <1>4, <2>3 DEF AccountsInv, MembersBelong
  <2> QED BY <2>2, <2>3 DEF MembersBelong
<1>8. ASSUME NEW d \in Clients PROVE CheckedAgree(d)'
  <2>1. CASE d = c
    <3>1. request'[c].pc = "idle"
      BY <1>1, Over, IdleIsRequest
    <3> QED BY <2>1, <3>1 DEF CheckedAgree, At
  <2>2. CASE d # c
    <3>1. request'[d] = request[d]
      BY <1>1, <2>2, Over
    <3>2. At(d, {"add", "remove"}, "checked") => request[d].ask.project \in Projects
      BY RequestFields, AskFields DEF At, AccountsInv
    <3>3. CheckedAgree(d)
      BY DEF AccountsInv
    <3> QED BY <1>3, <1>4, <3>1, <3>2, <3>3 DEF CheckedAgree, At
  <2> QED BY <2>1, <2>2
<1> QED
  BY <1>1, <1>5, <1>6, <1>7, <1>8, Over, LocksStand DEF AccountsInv

LEMMA AddMemberSafe ==
  ASSUME AccountsInv, NEW c \in Clients, AddMember(c)
  PROVE  AccountsInv'
<1> DEFINE row == <<request[c].ask.project, request[c].ask.target>>
<1>1. Moves(c, Idle) /\ UNCHANGED <<users, projects, sessions>> /\ members' = members \cup {row}
  BY DEF AddMember
<1>2. row \in Projects \X Users
  BY RequestFields, AskFields DEF AddMember, At, AccountsInv
<1>3. projects[row[1]] # None /\ Org[row[2]] = Org[projects[row[1]]]
  BY DEF AddMember, AccountsInv, CheckedAgree
<1>4. AccountsTypeOK'
  BY <1>1, <1>2, Over DEF AccountsInv, AccountsTypeOK
<1>5. (Rooted /\ OneLiveHeir /\ MembersBelong)'
  BY <1>1, <1>3 DEF AccountsInv, Rooted, OneLiveHeir, MembersBelong
<1> QED
  BY <1>1, <1>4, <1>5, Over, ChecksStand, LocksStand DEF AccountsInv

\* The DELETE of a member that others have looked up is nothing to them.
LEMMA RemoveMemberSafe ==
  ASSUME AccountsInv, NEW c \in Clients, RemoveMember(c)
  PROVE  AccountsInv'
<1> DEFINE row == <<request[c].ask.project, request[c].ask.target>>
<1>1. UNCHANGED <<scene, users, projects, sessions>> /\ members' \in {members, members \ {row}}
  BY DEF RemoveMember
<1>2. request \in [Clients -> Request]
  BY DEF AccountsInv, AccountsTypeOK
<1>3. \A d \in Clients : \/ request'[d] = Idle
                         \/ request'[d] = request[d]
                         \/ request'[d] = [request[d] EXCEPT !.found = FALSE]
  BY DEF RemoveMember
<1>4. \A d \in Clients :
        /\ request'[d] \in Request
        /\ \/ request'[d].pc = "idle" /\ ~request'[d].spends
           \/ /\ request'[d].pc = request[d].pc /\ request'[d].ask = request[d].ask
              /\ request'[d].spends = request[d].spends /\ request'[d].role = request[d].role
  <2> SUFFICES ASSUME NEW d \in Clients
               PROVE  /\ request'[d] \in Request
                      /\ \/ request'[d].pc = "idle" /\ ~request'[d].spends
                         \/ /\ request'[d].pc = request[d].pc /\ request'[d].ask = request[d].ask
                            /\ request'[d].spends = request[d].spends
                            /\ request'[d].role = request[d].role
    OBVIOUS
  <2>1. request[d] \in Request
    BY <1>2
  <2>2. CASE request'[d] = [request[d] EXCEPT !.found = FALSE]
    BY <2>1, <2>2 DEF Request
  <2> QED BY <1>3, <2>1, <2>2, IdleIsRequest
<1>5. request' \in [Clients -> Request]
  BY <1>4 DEF RemoveMember
<1>6. AccountsTypeOK'
  BY <1>1, <1>5 DEF AccountsInv, AccountsTypeOK
<1>7. (Rooted /\ OneLiveHeir)'
  BY <1>1 DEF AccountsInv, Rooted, OneLiveHeir
<1>8. MembersBelong'
  <2>1. row \in Projects \X Users /\ row[2] # projects[row[1]]
    BY RequestFields, AskFields DEF RemoveMember, At, AccountsInv, CheckedAgree
  <2> QED BY <1>1, <2>1 DEF AccountsInv, MembersBelong
<1>9. Exclusive'
  BY <1>4 DEF AccountsInv, Exclusive
<1>10. ASSUME NEW d \in Clients PROVE SpendsAgree(d)' /\ CheckedAgree(d)'
  <2>1. SpendsAgree(d) /\ CheckedAgree(d)
    BY DEF AccountsInv
  <2>2. CASE request'[d].pc = "idle" /\ ~request'[d].spends
    BY <2>2 DEF SpendsAgree, CheckedAgree, At
  <2>3. CASE /\ request'[d].pc = request[d].pc /\ request'[d].ask = request[d].ask
             /\ request'[d].spends = request[d].spends /\ request'[d].role = request[d].role
    BY <1>1, <2>1, <2>3 DEF SpendsAgree, CheckedAgree, At
  <2> QED BY <1>4, <2>2, <2>3
<1> QED
  BY <1>6, <1>7, <1>8, <1>9, <1>10 DEF AccountsInv

LEMMA ChangeRoleSafe ==
  ASSUME AccountsInv, NEW c \in Clients, ChangeRole(c)
  PROVE  AccountsInv'
<1> DEFINE r == request[c]
           row == Written(users[r.ask.target], r.was, r.ask.set)
<1>1. /\ Moves(c, Idle) /\ UNCHANGED <<projects, members, sessions>>
      /\ users' = [users EXCEPT ![r.ask.target] = row]
  BY DEF ChangeRole
<1>2. r.ask.target \in Users /\ r.ask.set \in UserRow /\ r.was \in UserRow
  BY RequestFields, AskFields DEF ChangeRole, At, AccountsInv
<1>3. users \in [Users -> UserRow]
  BY DEF AccountsInv, AccountsTypeOK
<1>4. row \in UserRow
  BY <1>2, <1>3 DEF Written, UserRow
<1>5. AccountsTypeOK'
  BY <1>1, <1>3, <1>4, Over DEF AccountsInv, AccountsTypeOK
<1>6. (Rooted /\ OneLiveHeir /\ MembersBelong)'
  BY <1>1 DEF AccountsInv, Rooted, OneLiveHeir, MembersBelong
<1> QED
  BY <1>1, <1>5, <1>6, Over, ChecksStand, LocksStand DEF AccountsInv

LEMMA ExpireSafe ==
  ASSUME AccountsInv, NEW t \in Tokens, Expire(t)
  PROVE  AccountsInv'
<1> DEFINE row == [sessions[t] EXCEPT !.expired = TRUE]
<1>1. /\ sessions[t] # None /\ sessions' = [sessions EXCEPT ![t] = row]
      /\ UNCHANGED <<scene, users, projects, members, request>>
  BY DEF Expire, Usable
<1>2. sessions[t] \in SessionRow
  BY <1>1, Rows DEF AccountsInv
<1>3. /\ row \in SessionRow /\ row.root = sessions[t].root
      /\ row.revoked = sessions[t].revoked
  BY <1>2 DEF SessionRow
<1>4. row # None
  BY <1>3, NullAssumption
<1>5. sessions \in [Tokens -> SessionRow \cup {None}]
  BY DEF AccountsInv, AccountsTypeOK
<1>6. /\ sessions' \in [Tokens -> SessionRow \cup {None}]
      /\ \A s \in Tokens : (sessions'[s] = None) = (sessions[s] = None)
      /\ \A s \in Tokens : sessions'[s].root = sessions[s].root
      /\ \A s \in Tokens : sessions'[s].revoked = sessions[s].revoked
  BY <1>1, <1>3, <1>4, <1>5
<1>7. AccountsTypeOK'
  BY <1>1, <1>6 DEF AccountsInv, AccountsTypeOK
<1>8. (OneLiveHeir /\ MembersBelong /\ Exclusive)'
  BY <1>1, <1>6 DEF AccountsInv, OneLiveHeir, MembersBelong, Exclusive
<1>9. Rooted'
  <2>1. \A s \in Tokens : sessions[s] # None => sessions[s].root \in Tokens
    BY Rows DEF AccountsInv
  <2> QED BY <1>6, <2>1 DEF AccountsInv, Rooted
<1>10. ASSUME NEW d \in Clients PROVE SpendsAgree(d)' /\ CheckedAgree(d)'
  <2>1. request[d].spends => request[d].ask.token \in Tokens
    BY RequestFields, AskFields DEF AccountsInv, SpendsAgree, At
  <2> QED BY <1>1, <1>6, <2>1 DEF AccountsInv, SpendsAgree, CheckedAgree, At
<1> QED
  BY <1>7, <1>8, <1>9, <1>10 DEF AccountsInv

LEMMA AccountsNextSafe == AccountsInv /\ [AccountsNext]_accountVars => AccountsInv'
<1> SUFFICES ASSUME AccountsInv, [AccountsNext]_accountVars PROVE AccountsInv'
  OBVIOUS
<1>1. CASE UNCHANGED accountVars
  BY <1>1 DEF accountVars, AccountsInv, AccountsTypeOK, Rooted, OneLiveHeir, MembersBelong,
              Exclusive, SpendsAgree, CheckedAgree, At
<1>2. ASSUME NEW c \in Clients, \/ \E ask \in Asks : Arrive(c, ask)
                                \/ Check(c) \/ Spend(c) \/ Refuse(c)
      PROVE  AccountsInv'
  BY <1>2, ArriveSafe, CheckSafe, SpendSafe, RefuseSafe
<1>3. ASSUME NEW c \in Clients, Commit(c) PROVE AccountsInv'
  BY <1>3, IssueSafe, LogoutSafe, CreateProjectSafe, AddMemberSafe, RemoveMemberSafe,
     ChangeRoleSafe DEF Commit
<1>4. ASSUME NEW t \in Tokens, Expire(t) PROVE AccountsInv'
  BY <1>4, ExpireSafe
<1> QED
  BY <1>1, <1>2, <1>3, <1>4 DEF AccountsNext

\* Users, projects, members, sessions and requests agree in every reachable state
\* (auth.py and the handlers of accounts in api.py).
THEOREM AccountsAgree == AccountsSpec => []AccountsInv
BY AccountsInitSafe, AccountsNextSafe, PTL DEF AccountsSpec

-------------------------------------------------------------------------------
(* What follows *)

\* However often a refresh token is presented, of what stems from one login at most
\* one session can still be exchanged (consume_refresh, tokens).
THEOREM TokensExchangedOnce == AccountsSpec => []OneLiveHeir
<1>1. AccountsInv => OneLiveHeir
  BY DEF AccountsInv
<1> QED
  BY <1>1, AccountsAgree, PTL

\* Members are of the organization of their project, and owners are members
\* (create_project, add_member, remove_member).
THEOREM MembersOfTheOrganization == AccountsSpec => []MembersBelong
<1>1. AccountsInv => MembersBelong
  BY DEF AccountsInv
<1> QED
  BY <1>1, AccountsAgree, PTL

\* The row of a user changes with the commit of a change_role only.
LEMMA WhoChangesUsers ==
  ASSUME AccountsInv, [AccountsNext]_accountVars, NEW u \in Users, users'[u] # users[u]
  PROVE  \E c \in Clients : ChangeRole(c) /\ request[c].ask.target = u
<1>1. users \in [Users -> UserRow]
  BY DEF AccountsInv, AccountsTypeOK
<1>2. users' # users
  OBVIOUS
<1>3. PICK c \in Clients : ChangeRole(c)
  <2>1. ~UNCHANGED accountVars
    BY <1>2 DEF accountVars
  <2>2. ~\E t \in Tokens : Expire(t)
    BY <1>2 DEF Expire
  <2>3. ASSUME NEW c \in Clients
        PROVE  /\ ~\E ask \in Asks : Arrive(c, ask)
               /\ ~Check(c) /\ ~Spend(c) /\ ~Refuse(c)
               /\ ~\E t \in Tokens : Issue(c, t)
               /\ ~Logout(c) /\ ~(\E p \in Projects : CreateProject(c, p))
               /\ ~AddMember(c) /\ ~RemoveMember(c)
    BY <1>2 DEF Arrive, Check, Spend, Refuse, tables, Issue, Logout, CreateProject, AddMember,
                RemoveMember
  <2> QED BY <2>1, <2>2, <2>3 DEF AccountsNext, Commit
<1>4. request[c].ask.target = u
  BY <1>1, <1>3 DEF ChangeRole
<1> QED BY <1>3, <1>4

\* Whoever activates or deactivates an account has seen what it was (change_role
\* writes the columns that it changes).
THEOREM ActivationsKnown == AccountsSpec => ChangedKnowingly
<1> DEFINE Known == \A u \in Users : users'[u].active # users[u].active =>
                      \E c \in Clients :
                        /\ At(c, {"role"}, "checked") /\ request[c].ask.target = u
                        /\ request[c].was.active = users[u].active
<1>1. AccountsInv /\ [AccountsNext]_accountVars => [Known]_accountVars
  <2> SUFFICES ASSUME AccountsInv, [AccountsNext]_accountVars, NEW u \in Users,
                      users'[u].active # users[u].active
               PROVE  \E c \in Clients :
                        /\ At(c, {"role"}, "checked") /\ request[c].ask.target = u
                        /\ request[c].was.active = users[u].active
    OBVIOUS
  <2>1. PICK c \in Clients : ChangeRole(c) /\ request[c].ask.target = u
    BY WhoChangesUsers
  <2>2. /\ users'[u] = Written(users[u], request[c].was, request[c].ask.set)
        /\ At(c, {"role"}, "checked")
    BY <2>1 DEF ChangeRole, AccountsInv, AccountsTypeOK
  <2>3. request[c].was.active \in BOOLEAN /\ request[c].ask.set.active \in BOOLEAN
    BY <2>2, RequestFields, AskFields DEF AccountsInv, At, UserRow
  <2>4. users[u].active \in BOOLEAN
    BY DEF AccountsInv, AccountsTypeOK, UserRow
  <2>5. request[c].was.active = users[u].active
    BY <2>2, <2>3, <2>4 DEF Written
  <2> QED BY <2>1, <2>2, <2>5
<1> QED
  BY <1>1, AccountsAgree, PTL DEF AccountsSpec, ChangedKnowingly

-------------------------------------------------------------------------------
(* The tree of organizations *)

\* The functions by which Below and Above are defined do what their equations say.
LEMMA BelowGrows ==
  ASSUME NEW o \in Orgs
  PROVE  \E Grow \in [Nat -> SUBSET Orgs] :
           /\ Grow[0] = {o}
           /\ \A n \in Nat : Grow[n + 1] = Grow[n] \cup {q \in Orgs : Parent[q] \in Grow[n]}
           /\ Below(o) = Grow[Cardinality(Orgs)]
<1> DEFINE IsGrow(f) == f = [n \in Nat |-> IF n = 0 THEN {o}
                                ELSE f[n - 1] \cup {q \in Orgs : Parent[q] \in f[n - 1]}]
           step == [T \in SUBSET Orgs |-> T \cup {q \in Orgs : Parent[q] \in T}]
           Grow == CHOOSE f : IsGrow(f)
<1>1. \E f : IsGrow(f)
  <2>1. step \in [SUBSET Orgs -> SUBSET Orgs]
    OBVIOUS
  <2>2. PICK f \in [Nat -> SUBSET Orgs] :
               f = [n \in Nat |-> IF n = 0 THEN {o} ELSE step[f[n - 1]]]
    <3> DEFINE D == SUBSET Orgs
    <3>1. {o} \in D /\ step \in [D -> D]
      BY <2>1
    <3> HIDE DEF step, D
    <3>2. \E f \in [Nat -> D] : f = [n \in Nat |-> IF n = 0 THEN {o} ELSE step[f[n - 1]]]
      BY <3>1, CountingExists
    <3> QED
      BY <3>2 DEF D
  <2>3. ASSUME NEW n \in Nat, n # 0
        PROVE  step[f[n - 1]] = f[n - 1] \cup {q \in Orgs : Parent[q] \in f[n - 1]}
    BY <2>3
  <2>4. IsGrow(f)
    <3> HIDE DEF step
    <3> QED
      BY <2>2, <2>3
  <2> QED
    BY <2>4
<1>2. IsGrow(Grow)
  BY <1>1
<1>3. Below(o) = Grow[Cardinality(Orgs)]
  BY DEF Below
<1> HIDE DEF Grow
<1>4. Grow[0] = {o}
  BY <1>2
<1>5. \A n \in Nat : Grow[n + 1] = Grow[n] \cup {q \in Orgs : Parent[q] \in Grow[n]}
  BY <1>2
<1>6. \A n \in Nat : Grow[n] \in SUBSET Orgs
  <2> DEFINE Typed == {n \in Nat : Grow[n] \in SUBSET Orgs}
  <2>1. 0 \in Typed /\ \A n \in Nat : n \in Typed => n + 1 \in Typed
    BY <1>4, <1>5
  <2>2. Nat \subseteq Typed
    <3> HIDE DEF Typed
    <3> QED
      BY <2>1, NaturalInduction
  <2> QED
    BY <2>2
<1>7. Grow \in [Nat -> SUBSET Orgs]
  BY <1>2, <1>6
<1> QED
  BY <1>3, <1>4, <1>5, <1>7

LEMMA AboveClimbs ==
  ASSUME NEW q \in Orgs
  PROVE  \E Up \in [Nat -> SUBSET (Orgs \cup {None})] :
           /\ Up[0] = {q}
           /\ \A n \in Nat : Up[n + 1] = {Parent[x] : x \in Up[n] \cap Orgs}
           /\ \A o : Above(o, q) <=> \E n \in 0 .. Cardinality(Orgs) : o \in Up[n]
<1> DEFINE All == SUBSET (Orgs \cup {None})
           IsUp(f) == f = [n \in Nat |-> IF n = 0 THEN {q}
                                         ELSE {Parent[x] : x \in f[n - 1] \cap Orgs}]
           step == [T \in All |-> {Parent[x] : x \in T \cap Orgs}]
           Up == CHOOSE f : IsUp(f)
<1>1. \E f : IsUp(f)
  <2>1. step \in [All -> All]
    BY OrgsAssumption
  <2>2. PICK f \in [Nat -> All] : f = [n \in Nat |-> IF n = 0 THEN {q} ELSE step[f[n - 1]]]
    <3>1. {q} \in All
      OBVIOUS
    <3> HIDE DEF step, All
    <3> QED
      BY <2>1, <3>1, CountingExists
  <2>3. ASSUME NEW n \in Nat, n # 0
        PROVE  step[f[n - 1]] = {Parent[x] : x \in f[n - 1] \cap Orgs}
    BY <2>3
  <2>4. IsUp(f)
    <3> HIDE DEF step
    <3> QED
      BY <2>2, <2>3
  <2> QED
    BY <2>4
<1>2. IsUp(Up)
  BY <1>1
<1>3. \A o : Above(o, q) <=> \E n \in 0 .. Cardinality(Orgs) : o \in Up[n]
  BY DEF Above
<1> HIDE DEF Up
<1>4. Up[0] = {q}
  BY <1>2
<1>5. \A n \in Nat : Up[n + 1] = {Parent[x] : x \in Up[n] \cap Orgs}
  BY <1>2
<1>6. \A n \in Nat : Up[n] \in All
  <2>1. \A n \in Nat : Up[n + 1] \in All
    BY <1>5, OrgsAssumption
  <2>2. Nat \subseteq {n \in Nat : Up[n] \in All}
    BY <1>4, <2>1, NaturalInduction
  <2> QED
    BY <2>2
<1>7. Up \in [Nat -> All]
  BY <1>2, <1>6
<1> QED
  BY <1>3, <1>4, <1>5, <1>7

\* Who is below has the other above: a child climbs by one step more.
LEMMA BelowIsAbove ==
  ASSUME NEW o \in Orgs, NEW q \in Below(o)
  PROVE  q \in Orgs /\ Above(o, q)
<1> DEFINE Parents(T) == {Parent[y] : y \in T \cap Orgs}
           Climbs(x, f) ==
             /\ f \in [Nat -> SUBSET (Orgs \cup {None})]
             /\ f[0] = {x}
             /\ \A n \in Nat : f[n + 1] = Parents(f[n])
             /\ \A p : Above(p, x) <=> \E n \in 0 .. Cardinality(Orgs) : p \in f[n]
           Up == [x \in Orgs |-> CHOOSE f : Climbs(x, f)]
<1>1. \A x \in Orgs : Climbs(x, Up[x])
  BY AboveClimbs
<1>2. PICK Grow \in [Nat -> SUBSET Orgs] :
        /\ Grow[0] = {o}
        /\ \A n \in Nat : Grow[n + 1] = Grow[n] \cup {x \in Orgs : Parent[x] \in Grow[n]}
        /\ Below(o) = Grow[Cardinality(Orgs)]
  BY BelowGrows
<1> HIDE DEF Up
<1>3. ASSUME NEW x \in Orgs, Parent[x] \in Orgs, NEW k \in Nat
      PROVE  Up[x][k + 1] = Up[Parent[x]][k]
  <2> DEFINE Alike == {n \in Nat : Up[x][n + 1] = Up[Parent[x]][n]}
  <2>1. 0 \in Alike
    <3>1. Up[x][0] = {x} /\ Up[Parent[x]][0] = {Parent[x]}
      BY <1>1, <1>3
    <3>2. Parents({x}) = {Parent[x]}
      OBVIOUS
    <3>3. Up[x][0 + 1] = Parents(Up[x][0])
      BY <1>1
    <3> HIDE DEF Parents
    <3> QED
      BY <3>1, <3>2, <3>3
  <2>2. ASSUME NEW n \in Alike PROVE n + 1 \in Alike
    <3>1. Up[x][(n + 1) + 1] = Parents(Up[x][n + 1])
      BY <1>1
    <3>2. Up[Parent[x]][n + 1] = Parents(Up[Parent[x]][n])
      BY <1>1, <1>3
    <3>3. Up[x][n + 1] = Up[Parent[x]][n]
      OBVIOUS
    <3> HIDE DEF Parents
    <3> QED
      BY <3>1, <3>2, <3>3
  <2>3. Nat \subseteq Alike
    <3> HIDE DEF Alike
    <3> QED
      BY <2>1, <2>2, NaturalInduction
  <2> QED
    BY <2>3
<1> DEFINE Reaches == {n \in Nat : \A x \in Grow[n] : \E k \in 0 .. n : o \in Up[x][k]}
<1>4. 0 \in Reaches
  BY <1>1, <1>2
<1>5. ASSUME NEW n \in Reaches PROVE n + 1 \in Reaches
  <2> SUFFICES ASSUME NEW x \in Grow[n + 1] PROVE \E k \in 0 .. n + 1 : o \in Up[x][k]
    OBVIOUS
  <2>1. CASE x \in Grow[n]
    BY <2>1
  <2>2. CASE x \in Orgs /\ Parent[x] \in Grow[n]
    <3>1. PICK k \in 0 .. n : o \in Up[Parent[x]][k]
      BY <2>2
    <3>2. Parent[x] \in Orgs
      BY <1>2, <2>2
    <3>3. o \in Up[x][k + 1]
      BY <1>3, <2>2, <3>1, <3>2
    <3> QED
      BY <3>3
  <2> QED
    BY <1>2, <2>1, <2>2
<1>6. Nat \subseteq Reaches
  <2> HIDE DEF Reaches
  <2> QED
    BY <1>4, <1>5, NaturalInduction
<1>7. Cardinality(Orgs) \in Nat
  BY OrgsAssumption, FS_CardinalityType
<1>8. q \in Orgs
  BY <1>2, <1>7
<1>9. \E k \in 0 .. Cardinality(Orgs) : o \in Up[q][k]
  BY <1>2, <1>6, <1>7
<1> QED
  BY <1>1, <1>8, <1>9

\* Roles and accounts change only at the hand of an administrator of that part of the
\* tree, and only a SystemAdmin makes a SystemAdmin, also when the rows of both have
\* changed since the request arrived (change_role, org_scope).
THEOREM RolesChangeInScope == AccountsSpec => ChangedInScope
<1> DEFINE By(u, c) ==
             /\ At(c, {"role"}, "checked") /\ request[c].ask.target = u
             /\ Administers(request[c], u)
             /\ users'[u].role = "SystemAdmin" /\ users[u].role # "SystemAdmin" =>
                  request[c].role = "SystemAdmin"
           Scoped == \A u \in Users : users'[u] # users[u] => \E c \in Clients : By(u, c)
<1>1. AccountsInv /\ [AccountsNext]_accountVars => [Scoped]_accountVars
  <2> SUFFICES ASSUME AccountsInv, [AccountsNext]_accountVars, NEW u \in Users,
                      users'[u] # users[u]
               PROVE  \E c \in Clients : By(u, c)
    OBVIOUS
  <2>1. PICK c \in Clients : ChangeRole(c) /\ request[c].ask.target = u
    BY WhoChangesUsers
  <2>2. /\ users'[u] = Written(users[u], request[c].was, request[c].ask.set)
        /\ At(c, {"role"}, "checked")
    BY <2>1 DEF ChangeRole, AccountsInv, AccountsTypeOK
  <2>3. /\ request[c].role \in Admins
        /\ Org[u] \in Scope(request[c].ask.actor, request[c].role)
        /\ request[c].ask.set.role = "SystemAdmin" => request[c].role = "SystemAdmin"
    BY <2>1, <2>2 DEF AccountsInv, CheckedAgree
  <2>4. users'[u].role = "SystemAdmin" /\ users[u].role # "SystemAdmin" =>
          request[c].role = "SystemAdmin"
    BY <2>2, <2>3 DEF Written
  <2>5. Administers(request[c], u)
    <3>1. CASE request[c].role = "SystemAdmin"
      BY <3>1 DEF Administers
    <3>2. CASE request[c].role = "OrgAdmin"
      <4>1. request[c].ask.actor \in Users
        BY <2>2, RequestFields, AskFields DEF AccountsInv, At
      <4>2. Org[request[c].ask.actor] \in Orgs
        BY <4>1, OrgsAssumption
      <4>3. Org[u] \in Below(Org[request[c].ask.actor])
        BY <2>3, <3>2 DEF Scope
      <4> QED
        BY <3>2, <4>2, <4>3, BelowIsAbove DEF Administers
    <3> QED
      BY <2>3, <3>1, <3>2 DEF Admins
  <2> QED
    BY <2>1, <2>2, <2>4, <2>5
<1> QED
  BY <1>1, AccountsAgree, PTL DEF AccountsSpec, ChangedInScope

-------------------------------------------------------------------------------
(***************************************************************************)
(* Idempotency keys keep their job, for any number of users, projects,     *)
(* requests and jobs, while rights change and jobs move; and what is       *)
(* proved of accounts alone holds with jobs beside them.                   *)
(***************************************************************************)

-------------------------------------------------------------------------------
(* The inductive invariant *)

\* One job for a user, a project and a key: the unique constraint.
Unique ==
  \A i, j \in Jobs :
    jobs[i] # None /\ jobs[j] # None /\ SameKey(jobs[i], jobs[j]) => i = j

\* A request that has flushed its row is alone with its key.
Flushed ==
  /\ \A a \in Askers : asked[a].pc = "inserted" => Stored(asked[a].demand) = {}
  /\ \A a, b \in Askers :
       asked[a].pc = "inserted" /\ asked[b].pc = "inserted"
         /\ SameKey(asked[a].demand, asked[b].demand) => a = b

\* The job that is stored for a demand is what it has been answered with.
Answered(x) ==
  \E j \in Jobs :
    /\ Stored(x.demand) = {j}
    /\ x.job = IF jobs[j].print = x.demand.print THEN j ELSE None

\* Sessions and sockets are about jobs that are there.
Loaded ==
  /\ \A w \in Writers : writing[w] # None => jobs[writing[w].job] # None
  /\ \A s \in Sockets : Following(s) => jobs[socket[s].job] # None

FeedInv ==
  FeedTypeOK /\ Unique /\ Flushed /\ Loaded /\ \A x \in answers : Answered(x)

-------------------------------------------------------------------------------
(* Types *)

LEMMA AskerFields ==
  ASSUME FeedTypeOK, NEW a \in Askers, asked[a].pc \in {"lookup", "insert", "inserted"}
  PROVE  /\ asked[a] \in [pc : {"lookup", "insert", "inserted"}, demand : Demand]
         /\ asked[a].demand \in Demand
BY DEF FeedTypeOK, NotAsked

LEMMA JobFields ==
  ASSUME FeedTypeOK, NEW j \in Jobs, jobs[j] # None
  PROVE  /\ jobs[j] \in JobRow
         /\ jobs[j].state \in JobStates /\ jobs[j].seq \in 1 .. MaxSeq
BY DEF FeedTypeOK, JobRow

LEMMA NewRowTyped ==
  ASSUME NEW d \in Demand
  PROVE  NewRow(d) \in JobRow /\ NewRow(d) # None /\ SameKey(NewRow(d), d)
         /\ NewRow(d).print = d.print
<1>1. NewRow(d) \in JobRow
  BY FeedAssumption DEF NewRow, JobRow, Demand, JobStates, Waiting
<1> QED
  BY <1>1, JobRowAssumption DEF NewRow, SameKey

\* The keys of rows, and who has them, do not change when a job moves.
LEMMA RowsMove ==
  ASSUME FeedInv, NEW j \in Jobs, jobs[j] # None, NEW state \in JobStates,
         NEW seq \in 1 .. MaxSeq,
         jobs' = [jobs EXCEPT ![j] = Became(jobs[j], state, seq)]
  PROVE  /\ jobs' \in [Jobs -> JobRow \cup {None}]
         /\ \A i \in Jobs : /\ (jobs'[i] = None) = (jobs[i] = None)
                            /\ jobs'[i].user = jobs[i].user /\ jobs'[i].project = jobs[i].project
                            /\ jobs'[i].key = jobs[i].key /\ jobs'[i].print = jobs[i].print
<1> DEFINE row == Became(jobs[j], state, seq)
<1>1. jobs[j] \in JobRow /\ jobs \in [Jobs -> JobRow \cup {None}]
  BY JobFields DEF FeedInv, FeedTypeOK
<1>2. row \in JobRow
  BY <1>1 DEF Became, JobRow
<1>3. row # None
  BY <1>2, JobRowAssumption
<1>4. /\ row.user = jobs[j].user /\ row.project = jobs[j].project
      /\ row.key = jobs[j].key /\ row.print = jobs[j].print
  BY DEF Became
<1>5. jobs' = [jobs EXCEPT ![j] = row]
  OBVIOUS
<1> HIDE DEF row
<1>6. jobs'[j] = row /\ \A i \in Jobs : i # j => jobs'[i] = jobs[i]
  BY <1>1, <1>5
<1>7. jobs' \in [Jobs -> JobRow \cup {None}]
  BY <1>1, <1>2, <1>5
<1> QED
  BY <1>3, <1>4, <1>6, <1>7

\* As long as the keys of rows stay, so does what they say.
LEMMA KeysStand ==
  ASSUME FeedInv, UNCHANGED <<asked, answers>>,
         \A i \in Jobs : /\ (jobs'[i] = None) = (jobs[i] = None)
                         /\ jobs'[i].user = jobs[i].user /\ jobs'[i].project = jobs[i].project
                         /\ jobs'[i].key = jobs[i].key /\ jobs'[i].print = jobs[i].print
  PROVE  (Unique /\ Flushed /\ \A x \in answers : Answered(x))'
<1>1. Unique'
  BY DEF FeedInv, Unique, SameKey
<1>2. \A d : Stored(d)' = Stored(d)
  BY DEF Stored, SameKey
<1>3. Flushed'
  BY <1>2 DEF FeedInv, Flushed
<1>4. ASSUME NEW x \in answers' PROVE Answered(x)'
  <2>1. PICK j \in Jobs : /\ Stored(x.demand) = {j}
                          /\ x.job = IF jobs[j].print = x.demand.print THEN j ELSE None
    BY DEF FeedInv, Answered
  <2>2. Stored(x.demand)' = {j} /\ jobs'[j].print = jobs[j].print
    BY <1>2, <2>1
  <2> QED BY <2>1, <2>2 DEF Answered
<1> QED BY <1>1, <1>3, <1>4

-------------------------------------------------------------------------------
(* The first state *)

LEMMA FeedInitSafe == FeedInit => FeedInv
<1> SUFFICES ASSUME FeedInit PROVE FeedInv
  OBVIOUS
<1>1. /\ asked = [a \in Askers |-> NotAsked] /\ answers = {}
      /\ writing = [w \in Writers |-> None] /\ socket = [s \in Sockets |-> Closed]
  BY DEF FeedInit
<1>2. /\ jobs \in [Jobs -> JobRow \cup {None}]
      /\ \A i, j \in Jobs : jobs[i] # None /\ jobs[j] # None => i = j
  <2>1. CASE jobs = [j \in Jobs |-> None]
    BY <2>1
  <2>2. ASSUME NEW d \in Demand, jobs = [j \in Jobs |-> IF j = 1 THEN NewRow(d) ELSE None]
        PROVE  /\ jobs \in [Jobs -> JobRow \cup {None}]
               /\ \A i, j \in Jobs : jobs[i] # None /\ jobs[j] # None => i = j
    BY <2>2, NewRowTyped
  <2> QED BY <2>1, <2>2 DEF FeedInit
<1>3. FeedTypeOK
  BY <1>1, <1>2 DEF FeedTypeOK
<1>4. Unique /\ Flushed /\ Loaded
  BY <1>1, <1>2 DEF Unique, Flushed, Loaded, NotAsked, Following, Closed
<1> QED
  BY <1>1, <1>3, <1>4 DEF FeedInv

-------------------------------------------------------------------------------
(* Requests that create a job *)

\* One request moves, and the tables stay.
LEMMA OnlyAskerMoves ==
  ASSUME FeedInv, NEW a \in Askers, NEW r, Becomes(a, r), UNCHANGED jobs,
         \/ r = NotAsked
         \/ r \in [pc : {"lookup", "insert", "inserted"}, demand : Demand],
         r.pc = "inserted" =>
           /\ Stored(r.demand) = {}
           /\ \A b \in Askers \ {a} :
                ~(asked[b].pc = "inserted" /\ SameKey(asked[b].demand, r.demand)),
         answers' \subseteq [demand : Demand, job : Jobs \cup {None}],
         \A x \in answers' : x \in answers \/ Answered(x)
  PROVE  FeedInv'
<1>1. /\ asked' = [asked EXCEPT ![a] = r] /\ UNCHANGED <<jobs, writing, socket>>
  BY DEF Becomes
<1>2. FeedTypeOK'
  BY <1>1 DEF FeedInv, FeedTypeOK
<1>3. (Unique /\ Loaded)'
  BY <1>1 DEF FeedInv, Unique, Loaded, Following
<1>4. \A d : Stored(d)' = Stored(d)
  BY <1>1 DEF Stored, SameKey
<1>5. asked'[a] = r /\ \A b \in Askers : b # a => asked'[b] = asked[b]
  BY <1>1 DEF FeedInv, FeedTypeOK
<1>6. Flushed'
  <2>1. \A b, c : SameKey(b, c) => SameKey(c, b)
    BY DEF SameKey
  <2>2. \A b \in Askers : asked'[b].pc = "inserted" => Stored(asked'[b].demand) = {}
    BY <1>5 DEF FeedInv, Flushed
  <2>3. \A b, c \in Askers :
          asked'[b].pc = "inserted" /\ asked'[c].pc = "inserted"
            /\ SameKey(asked'[b].demand, asked'[c].demand) => b = c
    BY <1>5, <2>1 DEF FeedInv, Flushed
  <2> QED BY <1>4, <2>2, <2>3 DEF Flushed
<1>7. \A x \in answers' : Answered(x)'
  BY <1>1, <1>4 DEF FeedInv, Answered
<1> QED
  BY <1>2, <1>3, <1>6, <1>7 DEF FeedInv

LEMMA AskJobSafe ==
  ASSUME FeedInv, NEW a \in Askers, NEW d \in Demand, AskJob(a, d)
  PROVE  FeedInv'
<1> DEFINE r == [pc |-> "lookup", demand |-> d]
<1>1. Becomes(a, r) /\ UNCHANGED <<jobs, answers>>
  BY DEF AskJob, feedTables
<1>2. r \in [pc : {"lookup", "insert", "inserted"}, demand : Demand] /\ r.pc = "lookup"
  OBVIOUS
<1>3. answers' \subseteq [demand : Demand, job : Jobs \cup {None}]
  BY <1>1 DEF FeedInv, FeedTypeOK
<1> HIDE DEF r
<1> QED
  BY <1>1, <1>2, <1>3, OnlyAskerMoves

LEMMA NotAskedFields == NotAsked.pc = "idle"
BY DEF NotAsked

LEMMA FindJobSafe ==
  ASSUME FeedInv, NEW a \in Askers, FindJob(a)
  PROVE  FeedInv'
<1> DEFINE d == asked[a].demand
<1>1. d \in Demand
  BY AskerFields DEF FindJob, FeedInv
<1>2. PICK j \in Stored(d) :
        Answer(a, IF jobs[j].print = asked[a].demand.print THEN j ELSE None)
  BY DEF FindJob
<1> DEFINE job == IF jobs[j].print = d.print THEN j ELSE None
           x == [demand |-> d, job |-> job]
<1>3. Becomes(a, NotAsked) /\ answers' = answers \cup {x} /\ UNCHANGED jobs
  BY <1>2 DEF Answer, FindJob
<1>4. j \in Jobs /\ job \in Jobs \cup {None}
  BY DEF Stored
<1>5. x \in [demand : Demand, job : Jobs \cup {None}]
  BY <1>1, <1>4
<1>6. Stored(d) = {j}
  BY DEF FeedInv, Unique, Stored, SameKey
<1>7. Answered(x)
  BY <1>4, <1>6 DEF Answered
<1>8. answers' \subseteq [demand : Demand, job : Jobs \cup {None}]
  BY <1>3, <1>5 DEF FeedInv, FeedTypeOK
<1> HIDE DEF x
<1> QED
  BY <1>3, <1>7, <1>8, NotAskedFields, OnlyAskerMoves

LEMMA StepsOn ==
  ASSUME FeedInv, NEW a \in Askers, asked[a].pc \in {"lookup", "insert", "inserted"},
         NEW pc \in {"lookup", "insert", "inserted"},
         Becomes(a, [asked[a] EXCEPT !.pc = pc]), UNCHANGED feedTables,
         pc = "inserted" =>
           /\ Stored(asked[a].demand) = {}
           /\ \A b \in Askers \ {a} :
                ~(asked[b].pc = "inserted" /\ SameKey(asked[b].demand, asked[a].demand))
  PROVE  FeedInv'
<1> DEFINE r == [asked[a] EXCEPT !.pc = pc]
<1>1. asked[a] \in [pc : {"lookup", "insert", "inserted"}, demand : Demand]
  BY AskerFields DEF FeedInv
<1>2. /\ r \in [pc : {"lookup", "insert", "inserted"}, demand : Demand]
      /\ r.pc = pc /\ r.demand = asked[a].demand
  BY <1>1
<1>3. Becomes(a, r) /\ UNCHANGED <<jobs, answers>>
  BY DEF feedTables
<1>4. answers' \subseteq [demand : Demand, job : Jobs \cup {None}]
  BY <1>3 DEF FeedInv, FeedTypeOK
<1> HIDE DEF r
<1> QED
  BY <1>2, <1>3, <1>4, OnlyAskerMoves

LEMMA FindNoneSafe ==
  ASSUME FeedInv, NEW a \in Askers, FindNone(a)
  PROVE  FeedInv'
BY StepsOn DEF FindNone

LEMMA InsertSafe ==
  ASSUME FeedInv, NEW a \in Askers, Insert(a)
  PROVE  FeedInv'
<1>1. CASE Stored(asked[a].demand) = {}
  BY <1>1, StepsOn DEF Insert
<1>2. CASE Stored(asked[a].demand) # {}
  BY <1>2, StepsOn DEF Insert
<1> QED BY <1>1, <1>2

LEMMA LoseAskerSafe ==
  ASSUME FeedInv, NEW a \in Askers, LoseAsker(a)
  PROVE  FeedInv'
<1>1. Becomes(a, NotAsked) /\ UNCHANGED <<jobs, answers>>
  BY DEF LoseAsker, feedTables
<1>2. answers' \subseteq [demand : Demand, job : Jobs \cup {None}]
  BY <1>1 DEF FeedInv, FeedTypeOK
<1> QED
  BY <1>1, <1>2, NotAskedFields, OnlyAskerMoves

LEMMA CommitJobSafe ==
  ASSUME FeedInv, NEW a \in Askers, NEW j \in Jobs, CommitJob(a, j)
  PROVE  FeedInv'
<1> DEFINE d == asked[a].demand
           row == NewRow(d)
           x == [demand |-> d, job |-> j]
<1>1. d \in Demand /\ Stored(d) = {}
  BY AskerFields DEF CommitJob, FeedInv, Flushed
<1>2. row \in JobRow /\ row # None /\ SameKey(row, d) /\ row.print = d.print
  BY <1>1, NewRowTyped
<1>3. /\ jobs[j] = None /\ jobs' = [jobs EXCEPT ![j] = row]
      /\ answers' = answers \cup {x}
      /\ asked' = [asked EXCEPT ![a] = NotAsked]
      /\ UNCHANGED <<writing, socket>>
      /\ asked[a].pc = "inserted"
  BY DEF CommitJob, Answer, Becomes
<1>4. x \in [demand : Demand, job : Jobs \cup {None}] /\ x.demand = d /\ x.job = j
  BY <1>1
<1> HIDE DEF d, row, x
<1>5. jobs'[j] = row /\ \A i \in Jobs : i # j => jobs'[i] = jobs[i]
  BY <1>3 DEF FeedInv, FeedTypeOK
<1>6. asked'[a] = NotAsked /\ \A b \in Askers : b # a => asked'[b] = asked[b]
  BY <1>3 DEF FeedInv, FeedTypeOK
<1>7. FeedTypeOK'
  <2>1. jobs' \in [Jobs -> JobRow \cup {None}]
    BY <1>2, <1>3 DEF FeedInv, FeedTypeOK
  <2>2. asked' \in [Askers -> {NotAsked} \cup
                  [pc : {"lookup", "insert", "inserted"}, demand : Demand]]
    BY <1>3 DEF FeedInv, FeedTypeOK
  <2>3. answers' \subseteq [demand : Demand, job : Jobs \cup {None}]
    BY <1>3, <1>4 DEF FeedInv, FeedTypeOK
  <2> QED
    BY <1>3, <2>1, <2>2, <2>3 DEF FeedInv, FeedTypeOK
<1>8. \A i \in Jobs : jobs[i] # None => i # j /\ jobs'[i] = jobs[i] /\ ~SameKey(jobs[i], d)
  BY <1>1, <1>3, <1>5 DEF Stored
<1>9. \A i \in Jobs : jobs[i] # None => ~SameKey(jobs[i], row) /\ ~SameKey(row, jobs[i])
  BY <1>2, <1>8 DEF SameKey
<1>10. Unique'
  <2> SUFFICES ASSUME NEW i \in Jobs, NEW k \in Jobs, jobs'[i] # None, jobs'[k] # None,
                      SameKey(jobs'[i], jobs'[k])
               PROVE  i = k
    BY DEF Unique, SameKey
  <2> QED BY <1>5, <1>9 DEF FeedInv, Unique
<1>11. ASSUME NEW e, ~SameKey(row, e) PROVE Stored(e)' = Stored(e)
  <2>1. \A i \in Jobs : i # j => ((jobs'[i] # None /\ SameKey(jobs'[i], e))
                                    <=> (jobs[i] # None /\ SameKey(jobs[i], e)))
    BY <1>5
  <2>2. ~(jobs'[j] # None /\ SameKey(jobs'[j], e)) /\ jobs[j] = None
    BY <1>3, <1>5, <1>11
  <2>3. Stored(e)' = {i \in Jobs : jobs'[i] # None /\ SameKey(jobs'[i], e)}
    BY DEF Stored, SameKey
  <2> QED BY <2>1, <2>2, <2>3 DEF Stored
<1>12. Flushed'
  <2>1. ASSUME NEW b \in Askers, asked'[b].pc = "inserted"
        PROVE  Stored(asked[b].demand)' = {}
    <3>1. b # a /\ asked'[b] = asked[b]
      BY <1>6, <2>1, NotAskedFields
    <3>2. ~SameKey(d, asked[b].demand) /\ Stored(asked[b].demand) = {}
      BY <1>3, <2>1, <3>1 DEF FeedInv, Flushed, d
    <3>3. \A e : e = asked[b].demand => ~SameKey(row, e) /\ Stored(e) = {}
      BY <1>2, <3>2 DEF SameKey
    <3>4. \A e : e = asked[b].demand => Stored(e)' = {}
      BY <1>11, <3>3
    <3> QED BY <3>1, <3>4 DEF Stored, SameKey
  <2>2. \A b, c \in Askers :
          asked'[b].pc = "inserted" /\ asked'[c].pc = "inserted"
            /\ SameKey(asked'[b].demand, asked'[c].demand) => b = c
    BY <1>6, NotAskedFields DEF FeedInv, Flushed
  <2> QED BY <2>1, <2>2 DEF Flushed, SameKey
<1>13. Loaded'
  BY <1>3, <1>8 DEF FeedInv, Loaded, FeedTypeOK, Following, Closed
<1>14. ASSUME NEW y \in answers' PROVE Answered(y)'
  <2>1. CASE y = x
    <3>1. Stored(y.demand)' = {j}
      BY <1>2, <1>4, <1>5, <1>8, <2>1 DEF Stored, SameKey
    <3>2. y.job = IF jobs'[j].print = y.demand.print THEN j ELSE None
      BY <1>2, <1>4, <1>5, <2>1
    <3> QED BY <3>1, <3>2 DEF Answered
  <2>2. CASE y \in answers
    <3>1. PICK k \in Jobs : /\ Stored(y.demand) = {k}
                            /\ y.job = IF jobs[k].print = y.demand.print THEN k ELSE None
      BY <2>2 DEF FeedInv, Answered
    <3>2. k # j /\ jobs'[k] = jobs[k] /\ SameKey(jobs[k], y.demand)
      BY <1>8, <3>1 DEF Stored
    <3>3. ~SameKey(row, y.demand)
      BY <1>9, <3>1, <3>2 DEF SameKey, Stored
    <3>4. Stored(y.demand)' = {k}
      BY <1>11, <3>1, <3>3
    <3> QED BY <3>1, <3>2, <3>4 DEF Answered
  <2> QED BY <1>3, <2>1, <2>2
<1> QED
  BY <1>7, <1>10, <1>12, <1>13, <1>14 DEF FeedInv

-------------------------------------------------------------------------------
(* Moves of jobs *)

\* A row moves: what is said of keys stands, and so do those who have loaded a job.
LEMMA JobMoveSafe ==
  ASSUME FeedInv, NEW j \in Jobs, jobs[j] # None, NEW state \in JobStates,
         NEW seq \in 1 .. MaxSeq,
         jobs' = [jobs EXCEPT ![j] = Became(jobs[j], state, seq)],
         UNCHANGED <<asked, answers, socket>>,
         writing' \in [Writers -> [job : Jobs, state : JobStates, seq : 1 .. MaxSeq] \cup {None}],
         \A w \in Writers : writing'[w] \in {writing[w], None}
  PROVE  FeedInv'
<1>1. /\ jobs' \in [Jobs -> JobRow \cup {None}]
      /\ \A i \in Jobs : /\ (jobs'[i] = None) = (jobs[i] = None)
                         /\ jobs'[i].user = jobs[i].user /\ jobs'[i].project = jobs[i].project
                         /\ jobs'[i].key = jobs[i].key /\ jobs'[i].print = jobs[i].print
  BY RowsMove
<1>2. (Unique /\ Flushed /\ \A x \in answers : Answered(x))'
  BY <1>1, KeysStand
<1>3. FeedTypeOK'
  BY <1>1 DEF FeedInv, FeedTypeOK
<1>4. Loaded'
  BY <1>1 DEF FeedInv, Loaded, FeedTypeOK, Following, Closed
<1> QED
  BY <1>2, <1>3, <1>4 DEF FeedInv

LEMMA ClaimSafe ==
  ASSUME FeedInv, NEW j \in Jobs, Claim(j)
  PROVE  FeedInv'
<1>1. jobs[j].seq \in 1 .. MaxSeq /\ jobs[j].seq < MaxSeq /\ jobs[j] # None
  BY JobFields DEF Claim, FeedInv
<1>2. jobs[j].seq + 1 \in 1 .. MaxSeq
  BY <1>1, FeedAssumption
<1>3. "RUNNING" \in JobStates
  BY DEF JobStates
<1>4. writing' \in [Writers -> [job : Jobs, state : JobStates, seq : 1 .. MaxSeq] \cup {None}]
  BY DEF Claim, FeedInv, FeedTypeOK
<1> QED
  BY <1>1, <1>2, <1>3, <1>4, JobMoveSafe DEF Claim

LEMMA SaveSafe ==
  ASSUME FeedInv, NEW w \in Writers, NEW state \in JobStates, Save(w, state)
  PROVE  FeedInv'
<1> DEFINE was == writing[w]
           new == IF state # was.state THEN state ELSE jobs[was.job].state
<1>1. /\ was \in [job : Jobs, state : JobStates, seq : 1 .. MaxSeq]
      /\ jobs[was.job] # None /\ was.seq < MaxSeq
  BY DEF Save, FeedInv, FeedTypeOK, Loaded
<1>2. was.job \in Jobs /\ was.seq + 1 \in 1 .. MaxSeq
  BY <1>1, FeedAssumption
<1>3. new \in JobStates
  BY <1>1, <1>2, JobFields DEF FeedInv
<1>4. /\ jobs' = [jobs EXCEPT ![was.job] = Became(jobs[was.job], new, was.seq + 1)]
      /\ writing' = [writing EXCEPT ![w] = None]
      /\ UNCHANGED <<asked, answers, socket>>
  BY DEF Save, Moved
<1>5. /\ writing' \in [Writers -> [job : Jobs, state : JobStates, seq : 1 .. MaxSeq] \cup {None}]
      /\ \A v \in Writers : writing'[v] \in {writing[v], None}
  BY <1>4 DEF FeedInv, FeedTypeOK
<1> HIDE DEF was, new
<1> QED
  BY <1>1, <1>2, <1>3, <1>4, <1>5, JobMoveSafe

\* Sessions and sockets come and go beside the rows.
LEMMA BesideSafe ==
  ASSUME FeedInv, UNCHANGED <<jobs, asked, answers>>, FeedTypeOK', Loaded'
  PROVE  FeedInv'
<1>1. (Unique /\ Flushed /\ \A x \in answers : Answered(x))'
  BY KeysStand
<1> QED BY <1>1 DEF FeedInv

LEMMA LoadSafe ==
  ASSUME FeedInv, NEW w \in Writers, NEW j \in Jobs, Load(w, j)
  PROVE  FeedInv'
<1> DEFINE was == [job |-> j, state |-> jobs[j].state, seq |-> jobs[j].seq]
<1>1. jobs[j] # None /\ was \in [job : Jobs, state : JobStates, seq : 1 .. MaxSeq] /\ was.job = j
  BY JobFields DEF Load, FeedInv
<1>2. writing' = [writing EXCEPT ![w] = was] /\ UNCHANGED <<jobs, asked, answers, socket>>
  BY DEF Load
<1> HIDE DEF was
<1>3. FeedTypeOK'
  BY <1>1, <1>2 DEF FeedInv, FeedTypeOK
<1>4. Loaded'
  BY <1>1, <1>2 DEF FeedInv, FeedTypeOK, Loaded, Following
<1> QED BY <1>2, <1>3, <1>4, BesideSafe

LEMMA ForgetSafe ==
  ASSUME FeedInv, NEW w \in Writers, Forget(w)
  PROVE  FeedInv'
<1>1. writing' = [writing EXCEPT ![w] = None] /\ UNCHANGED <<jobs, asked, answers, socket>>
  BY DEF Forget
<1>2. FeedTypeOK'
  BY <1>1 DEF FeedInv, FeedTypeOK
<1>3. Loaded'
  BY <1>1 DEF FeedInv, FeedTypeOK, Loaded, Following
<1> QED BY <1>1, <1>2, <1>3, BesideSafe

-------------------------------------------------------------------------------
(* Sockets *)

LEMMA ConnectsSafe ==
  ASSUME FeedInv, NEW s \in Sockets, NEW r, Connects(s, r), UNCHANGED <<jobs, asked, answers>>,
         r \in {Closed} \cup [pc : {"open"}, user : Users, job : Jobs, sent : Event],
         r.pc = "open" => jobs[r.job] # None
  PROVE  FeedInv'
<1>1. socket' = [socket EXCEPT ![s] = r] /\ UNCHANGED writing
  BY DEF Connects
<1>2. FeedTypeOK'
  BY <1>1 DEF FeedInv, FeedTypeOK
<1>3. Loaded'
  BY <1>1 DEF FeedInv, FeedTypeOK, Loaded, Following
<1> QED BY <1>2, <1>3, BesideSafe

LEMMA ClosedFields == Closed.pc # "open"
BY DEF Closed

LEMMA SocketFields ==
  ASSUME FeedInv, NEW s \in Sockets, Following(s)
  PROVE  /\ socket[s] \in [pc : {"open"}, user : Users, job : Jobs, sent : Event]
         /\ jobs[socket[s].job] # None
BY DEF FeedInv, FeedTypeOK, Following, Loaded, Closed

LEMMA OpenSafe ==
  ASSUME FeedInv, NEW s \in Sockets, NEW u \in Users, NEW j \in Jobs, Open(s, u, j)
  PROVE  FeedInv'
<1> DEFINE r == [pc |-> "open", user |-> u, job |-> j, sent |-> NoEvent]
<1>1. NoEvent \in Event
  BY FeedAssumption DEF NoEvent, Event, JobStates, Waiting
<1>2. r \in [pc : {"open"}, user : Users, job : Jobs, sent : Event] /\ r.job = j
  BY <1>1
<1>3. Connects(s, r) /\ UNCHANGED <<jobs, asked, answers>> /\ jobs[j] # None
  BY DEF Open, Connects
<1> HIDE DEF r
<1> QED BY <1>2, <1>3, ConnectsSafe

LEMMA CloseSafe ==
  ASSUME FeedInv, NEW s \in Sockets, Connects(s, Closed)
  PROVE  FeedInv'
<1>1. UNCHANGED <<jobs, asked, answers>>
  BY DEF Connects
<1> QED BY <1>1, ClosedFields, ConnectsSafe

LEMMA PollSafe ==
  ASSUME FeedInv, NEW s \in Sockets, Poll(s)
  PROVE  FeedInv'
<1> DEFINE j == jobs[socket[s].job]
           r == [socket[s] EXCEPT !.sent = [state |-> j.state, seq |-> j.seq]]
<1>1. /\ socket[s] \in [pc : {"open"}, user : Users, job : Jobs, sent : Event]
      /\ jobs[socket[s].job] # None
  BY SocketFields DEF Poll
<1>2. j.state \in JobStates /\ j.seq \in 1 .. MaxSeq
  BY <1>1, JobFields DEF FeedInv
<1>3. [state |-> j.state, seq |-> j.seq] \in Event
  BY <1>2, FeedAssumption DEF Event
<1>4. /\ r \in [pc : {"open"}, user : Users, job : Jobs, sent : Event]
      /\ r.job = socket[s].job
  BY <1>1, <1>3
<1>5. CASE Connects(s, Closed)
  BY <1>5, CloseSafe
<1>6. CASE Connects(s, r)
  <2>1. UNCHANGED <<jobs, asked, answers>>
    BY <1>6 DEF Connects
  <2> HIDE DEF r
  <2> QED BY <1>1, <1>4, <1>6, <2>1, ConnectsSafe
<1> QED BY <1>5, <1>6 DEF Poll

-------------------------------------------------------------------------------
(* Every step *)

LEMMA FeedNextSafe ==
  ASSUME FeedInv, FeedNext
  PROVE  FeedInv'
<1>1. ASSUME NEW a \in Askers,
             (\E d \in Demand : AskJob(a, d)) \/ Serve(a) \/ LoseAsker(a)
      PROVE  FeedInv'
  BY <1>1, AskJobSafe, FindJobSafe, FindNoneSafe, InsertSafe, CommitJobSafe, LoseAskerSafe
     DEF Serve
<1>2. ASSUME NEW j \in Jobs, Claim(j) PROVE FeedInv'
  BY <1>2, ClaimSafe
<1>3. ASSUME NEW w \in Writers,
             \/ \E j \in Jobs : Load(w, j)
             \/ \E state \in JobStates : Save(w, state)
             \/ Forget(w)
      PROVE  FeedInv'
  BY <1>3, LoadSafe, SaveSafe, ForgetSafe
<1>4. ASSUME NEW s \in Sockets,
             (\E u \in Users, j \in Jobs : Open(s, u, j)) \/ Poll(s) \/ Hangup(s)
      PROVE  FeedInv'
  BY <1>4, OpenSafe, PollSafe, CloseSafe DEF Hangup
<1> QED
  BY <1>1, <1>2, <1>3, <1>4 DEF FeedNext

LEMMA FeedStandsBeside ==
  ASSUME FeedInv, UNCHANGED feedVars
  PROVE  FeedInv'
<1>1. UNCHANGED <<jobs, asked, answers, writing, socket>>
  BY DEF feedVars
<1>2. FeedTypeOK' /\ Loaded'
  BY <1>1 DEF FeedInv, FeedTypeOK, Loaded, Following
<1> QED BY <1>1, <1>2, BesideSafe

\* One job for a user, a project and a key, and every answer is about it, in every
\* reachable state (create_job, the unique constraint of generation_jobs).
THEOREM KeysKeepTheirJob == ServiceSpec => []FeedInv
<1>1. ServiceInit => FeedInv
  BY FeedInitSafe DEF ServiceInit
<1>2. FeedInv /\ [ServiceNext]_serviceVars => FeedInv'
  BY FeedNextSafe, FeedStandsBeside DEF ServiceNext, serviceVars
<1> QED
  BY <1>1, <1>2, PTL DEF ServiceSpec

-------------------------------------------------------------------------------
(* What follows *)

\* Whatever requests with one idempotency key have been answered, it was the one job
\* of that key, or a refusal because of it (create_job).
THEOREM RepeatedRequestsAgree == ServiceSpec => []AnswersStand
<1>1. FeedInv => AnswersStand
  <2> SUFFICES ASSUME FeedInv, NEW a \in answers
               PROVE  /\ Cardinality(Stored(a.demand)) = 1
                      /\ \A j \in Stored(a.demand) :
                           IF jobs[j].print = a.demand.print THEN a.job = j ELSE a.job = None
    BY DEF AnswersStand
  <2>1. PICK j \in Jobs : /\ Stored(a.demand) = {j}
                          /\ a.job = IF jobs[j].print = a.demand.print THEN j ELSE None
    BY DEF FeedInv, Answered
  <2>2. Cardinality({j}) = 1
    BY FS_Singleton
  <2> QED BY <2>1, <2>2
<1> QED
  BY <1>1, KeysKeepTheirJob, PTL

\* With jobs and sockets beside them accounts do what they do alone, so that what is
\* proved of accounts holds of the whole service (auth.py and api.py beside jobs.py
\* and work_api.py).
THEOREM ServiceKeepsAccounts == ServiceSpec => AccountsSpec
<1>1. ServiceInit => AccountsInit
  BY DEF ServiceInit
<1>2. [ServiceNext]_serviceVars => [AccountsNext]_accountVars
  BY DEF ServiceNext, serviceVars
<1> QED
  BY <1>1, <1>2, PTL DEF ServiceSpec, AccountsSpec

\* Every row, request and socket of the service has its shape (the tables and the
\* handlers of accounts and jobs).
THEOREM ServiceTyped == ServiceSpec => []ServiceTypeOK
<1>1. FeedInv => FeedTypeOK
  BY DEF FeedInv
<1>2. AccountsInv => AccountsTypeOK
  BY DEF AccountsInv
<1>3. FeedTypeOK /\ AccountsTypeOK => ServiceTypeOK
  BY DEF ServiceTypeOK
<1> QED
  BY <1>1, <1>2, <1>3, KeysKeepTheirJob, ServiceKeepsAccounts, AccountsAgree, PTL

\* In the service too, of what stems from one login at most one refresh session can
\* be exchanged, and members are of the organization of their project
\* (consume_refresh; create_project, add_member, remove_member).
THEOREM ServiceKeepsRights == ServiceSpec => []OneLiveHeir /\ []MembersBelong
BY ServiceKeepsAccounts, TokensExchangedOnce, MembersOfTheOrganization, PTL
===============================================================================
