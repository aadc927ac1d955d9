------------------------------- MODULE Accounts -------------------------------
(***************************************************************************)
(* Users, projects, members and refresh sessions (auth.py, api.py).        *)
(*                                                                         *)
(* A request is served in three steps: it arrives and its token names the  *)
(* actor, whose row is loaded; its handler reads the other rows and        *)
(* decides; its transaction commits.  Other requests commit in between, as *)
(* the database is READ COMMITTED and only refresh sessions are locked.    *)
(***************************************************************************)
EXTENDS Naturals, FiniteSets

CONSTANTS
  Users, Orgs, Org, Parent,   \* who belongs where; the tree of organizations
  Projects,                   \* bound: identities of projects
  FirstRole, FirstOwner, FirstMembers,   \* what seed.py has stored
  MaxTokens,                  \* bound: refresh tokens ever issued
  Clients,                    \* bound: requests in flight
  Wishes,                     \* bound: what administrators make of a user's row
  Scenes,                     \* bound: kinds of requests made in one behaviour
  None                        \* null value

Roles == {"User", "Reviewer", "OrgAdmin", "SystemAdmin"}
Admins == {"OrgAdmin", "SystemAdmin"}
AccountKinds == {"login", "refresh", "logout", "project", "add", "remove", "role"}

ASSUME OrgsAssumption ==
  /\ IsFiniteSet(Orgs)
  /\ Org \in [Users -> Orgs]
  /\ Parent \in [Orgs -> Orgs \cup {None}]
ASSUME SeedAssumption ==
  /\ FirstRole \in [Users -> Roles]
  /\ FirstOwner \in [Projects -> Users \cup {None}]
  /\ FirstMembers \subseteq Projects \X Users
  /\ \A m \in FirstMembers : FirstOwner[m[1]] # None /\ Org[m[2]] = Org[FirstOwner[m[1]]]
  /\ \A p \in Projects : FirstOwner[p] # None => <<p, FirstOwner[p]>> \in FirstMembers
Tokens == 1 .. MaxTokens   \* numbered as they are issued

UserRow == [role : Roles, active : BOOLEAN]

ASSUME WishesAssumption == Wishes \subseteq UserRow
ASSUME TokensAssumption == MaxTokens \in Nat

VARIABLES
  scene,     \* bound: the kinds of requests of this behaviour
  users,     \* the rows of users
  projects,  \* the owner of each project; its organization is the owner's
  members,   \* the rows of project_members
  sessions,  \* the rows of refresh_sessions; root is history: the login it stems from
  request    \* what each client has in flight

tables == <<users, projects, members, sessions>>
accountVars == <<scene, users, projects, members, sessions, request>>

-------------------------------------------------------------------------------
(* Rows and requests *)

SessionRow ==
  [user : Users, root : Tokens, revoked : BOOLEAN, expired : BOOLEAN]

\* create_refresh
NewSession(user, root) ==
  [user |-> user, root |-> root, revoked |-> FALSE, expired |-> FALSE]

Blank == [role |-> "User", active |-> FALSE]

Ask(kinds, actors, tokens, homes, targets, rows) ==
  [kind : kinds, actor : actors, token : tokens, project : homes,
   target : targets, set : rows]

Asks ==
  Ask({"login", "project"}, Users, {None}, {None}, {None}, {Blank})
    \cup Ask({"refresh"}, {None}, Tokens, {None}, {None}, {Blank})
    \cup Ask({"logout"}, Users, Tokens, {None}, {None}, {Blank})
    \cup Ask({"add", "remove"}, Users, {None}, Projects, Users, {Blank})
    \cup Ask({"role"}, Users, {None}, {None}, Users, Wishes)

ASSUME NullAssumption ==
  None \notin Users \cup Tokens \cup Projects \cup Orgs \cup SessionRow \cup Asks

\* role: of the actor, as loaded; was: the target's row, as loaded; spends: it
\* holds the lock of its session and will revoke it; found: the row to delete.
Request ==
  [ask : Asks \cup {None}, pc : {"idle", "arrived", "checked"}, role : Roles,
   was : UserRow, spends : BOOLEAN, found : BOOLEAN]

Made(ask, pc, role, was, spends, found) ==
  [ask |-> ask, pc |-> pc, role |-> role, was |-> was, spends |-> spends, found |-> found]

Idle == Made(None, "idle", "User", Blank, FALSE, FALSE)

At(c, kinds, pc) ==
  request[c].pc = pc /\ request[c].ask # None /\ request[c].ask.kind \in kinds

-------------------------------------------------------------------------------
(* Decisions *)

\* The organizations at and below o: children are added until none is missing.
Below(o) ==
  LET Grow[n \in Nat] ==
        IF n = 0 THEN {o}
        ELSE Grow[n - 1] \cup {q \in Orgs : Parent[q] \in Grow[n - 1]}
  IN  Grow[Cardinality(Orgs)]

BugScope(user, role) == IF role \in Admins THEN Orgs ELSE {Org[user]}

\* org_scope for a user whose row says role.
Scope(user, role) ==
  CASE role = "SystemAdmin" -> Orgs
    [] role = "OrgAdmin"    -> Below(Org[user])
    [] OTHER                -> {Org[user]}

\* authorize_project; manage is its parameter owner.
Permitted(user, role, p, manage) ==
  /\ projects[p] # None
  /\ Org[projects[p]] \in Scope(user, role)
  /\ <<p, user>> \in members
  /\ manage => projects[p] = user \/ role \in Admins

\* The target as change_role sees it: the actor's row is in its session already.
Seen(r) ==
  IF r.ask.target = r.ask.actor THEN [role |-> r.role, active |-> TRUE]
  ELSE users[r.ask.target]

BugMayAdd(r) == Permitted(r.ask.actor, r.role, r.ask.project, TRUE)

MayAdd(r) ==
  /\ Permitted(r.ask.actor, r.role, r.ask.project, TRUE)
  /\ Org[r.ask.target] = Org[projects[r.ask.project]]
  /\ <<r.ask.project, r.ask.target>> \notin members

MayRemove(r) ==
  /\ Permitted(r.ask.actor, r.role, r.ask.project, TRUE)
  /\ r.ask.target # projects[r.ask.project]

MayChange(r) ==
  /\ r.role \in Admins
  /\ Org[r.ask.target] \in Scope(r.ask.actor, r.role)
  /\ r.role # "SystemAdmin" =>
       "SystemAdmin" \notin {r.ask.set.role, Seen(r).role}

Usable(t) == sessions[t] # None /\ ~sessions[t].revoked /\ ~sessions[t].expired

BugLocked(t) == FALSE

\* SELECT ... FOR UPDATE of the session waits for these.
Locked(t) ==
  \E c \in Clients : request[c].spends /\ request[c].ask.token = t

\* The UPDATE of a commit: the columns that the handler changed.
BugWritten(row, was, set) == set

Written(row, was, set) ==
  [role   |-> IF set.role # was.role THEN set.role ELSE row.role,
   active |-> IF set.active # was.active THEN set.active ELSE row.active]

-------------------------------------------------------------------------------
(* Requests *)

AccountsInit ==
  /\ scene \in Scenes
  /\ users = [u \in Users |-> [role |-> FirstRole[u], active |-> TRUE]]
  /\ projects = FirstOwner
  /\ members = FirstMembers
  /\ sessions = [t \in Tokens |-> None]
  /\ request = [c \in Clients |-> Idle]

Moves(c, r) == request' = [request EXCEPT ![c] = r] /\ UNCHANGED scene

\* current_user, and authenticate for a login; a refresh shows its cookie only.
Arrive(c, ask) ==
  /\ request[c] = Idle
  /\ ask.kind \in scene
  /\ ask.actor # None => users[ask.actor].active
  /\ LET role == IF ask.actor = None THEN "User" ELSE users[ask.actor].role
     IN  Moves(c, Made(ask, "arrived", role, Blank, FALSE, FALSE))
  /\ UNCHANGED tables

\* The handler has read what it needs and goes on.
Check(c) ==
  LET r     == request[c]
      was   == IF r.ask.kind = "role" THEN Seen(r) ELSE Blank
      found == r.ask.kind = "remove" /\ <<r.ask.project, r.ask.target>> \in members
  IN
  /\ \/ At(c, {"add"}, "arrived") /\ MayAdd(r)
     \/ At(c, {"remove"}, "arrived") /\ MayRemove(r)
     \/ At(c, {"role"}, "arrived") /\ MayChange(r)
  /\ Moves(c, Made(r.ask, "checked", r.role, was, FALSE, found))
  /\ UNCHANGED tables

\* consume_refresh.  A logout swallows its exceptions: also the one about an
\* inactive user, which is raised when the row has been marked already.
Spend(c) ==
  LET r == request[c] IN
  /\ At(c, {"refresh", "logout"}, "arrived")
  /\ ~Locked(r.ask.token)
  /\ \/ /\ Usable(r.ask.token)
        /\ r.ask.kind = "logout" \/ users[sessions[r.ask.token].user].active
        /\ Moves(c, Made(r.ask, "checked", r.role, Blank, TRUE, FALSE))
     \/ /\ ~Usable(r.ask.token) /\ r.ask.kind = "logout"
        /\ Moves(c, Made(r.ask, "checked", r.role, Blank, FALSE, FALSE))
  /\ UNCHANGED tables

\* tokens(): a new session; a refresh revokes its own in the same commit.
Issue(c, t) ==
  LET r     == request[c]
      spent == sessions[r.ask.token]
  IN
  /\ sessions[t] = None /\ \A s \in Tokens : s < t => sessions[s] # None
  /\ \/ /\ At(c, {"login"}, "arrived")
        /\ sessions' = [sessions EXCEPT ![t] = NewSession(r.ask.actor, t)]
     \/ /\ At(c, {"refresh"}, "checked")
        /\ sessions' = [sessions EXCEPT
                          ![r.ask.token] = [spent EXCEPT !.revoked = TRUE],
                          ![t] = NewSession(spent.user, spent.root)]
  /\ Moves(c, Idle)
  /\ UNCHANGED <<users, projects, members>>

Logout(c) ==
  LET r == request[c] IN
  /\ At(c, {"logout"}, "checked")
  /\ sessions' =
       IF r.spends
       THEN [sessions EXCEPT ![r.ask.token] = [sessions[r.ask.token] EXCEPT !.revoked = TRUE]]
       ELSE sessions
  /\ Moves(c, Idle)
  /\ UNCHANGED <<users, projects, members>>

CreateProject(c, p) ==
  LET owner == request[c].ask.actor IN
  /\ At(c, {"project"}, "arrived")
  /\ projects[p] = None
  /\ projects' = [projects EXCEPT ![p] = owner]
  /\ members' = members \cup {<<p, owner>>}
  /\ Moves(c, Idle)
  /\ UNCHANGED <<users, sessions>>

\* The unique constraint refuses a member that somebody has added meanwhile.
AddMember(c) ==
  LET row == <<request[c].ask.project, request[c].ask.target>> IN
  /\ At(c, {"add"}, "checked")
  /\ row \notin members
  /\ members' = members \cup {row}
  /\ Moves(c, Idle)
  /\ UNCHANGED <<users, projects, sessions>>

\* The DELETE names the row that was loaded: who loaded it too deletes nothing.
RemoveMember(c) ==
  LET row == <<request[c].ask.project, request[c].ask.target>>
      Late(d) == At(d, {"remove"}, "checked")
                   /\ <<request[d].ask.project, request[d].ask.target>> = row
  IN
  /\ At(c, {"remove"}, "checked")
  /\ \/ request[c].found /\ members' = members \ {row}
     \/ ~request[c].found /\ UNCHANGED members
  /\ request' = [d \in Clients |->
                   IF d = c THEN Idle
                   ELSE IF request[c].found /\ Late(d) THEN [request[d] EXCEPT !.found = FALSE]
                   ELSE request[d]]
  /\ UNCHANGED <<scene, users, projects, sessions>>

ChangeRole(c) ==
  LET r == request[c] IN
  /\ At(c, {"role"}, "checked")
  /\ users' = [users EXCEPT ![r.ask.target] =
                 Written(users[r.ask.target], r.was, r.ask.set)]
  /\ Moves(c, Idle)
  /\ UNCHANGED <<projects, members, sessions>>

\* An answer that is no, an error, a server that dies: the transaction rolls back.
Refuse(c) == request[c] # Idle /\ Moves(c, Idle) /\ UNCHANGED tables

\* A session that is revoked already is as good as expired.
Expire(t) ==
  /\ Usable(t)
  /\ sessions' = [sessions EXCEPT ![t] = [sessions[t] EXCEPT !.expired = TRUE]]
  /\ UNCHANGED <<scene, users, projects, members, request>>

Commit(c) ==
  \/ \E t \in Tokens : Issue(c, t)
  \/ Logout(c)
  \/ \E p \in Projects : CreateProject(c, p)
  \/ AddMember(c) \/ RemoveMember(c) \/ ChangeRole(c)

AccountsNext ==
  \/ \E c \in Clients :
       \/ \E ask \in Asks : Arrive(c, ask)
       \/ Check(c) \/ Spend(c) \/ Commit(c) \/ Refuse(c)
  \/ \E t \in Tokens : Expire(t)

AccountsSpec == AccountsInit /\ [][AccountsNext]_accountVars

-------------------------------------------------------------------------------
(* Properties *)

AccountsTypeOK ==
  /\ scene \in Scenes
  /\ users \in [Users -> UserRow]
  /\ projects \in [Projects -> Users \cup {None}]
  /\ members \subseteq Projects \X Users
  /\ sessions \in [Tokens -> SessionRow \cup {None}]
  /\ request \in [Clients -> Request]

\* Of the sessions that stem from one login at most one can still be exchanged,
\* however often and by however many clients at once a token is presented
\* (consume_refresh locks the row, tokens commits both rows together).
OneLiveHeir ==
  \A s, t \in Tokens :
    /\ sessions[s] # None /\ ~sessions[s].revoked
    /\ sessions[t] # None /\ ~sessions[t].revoked
    /\ sessions[s].root = sessions[t].root
    => s = t

\* A member belongs to the organization of the project, and the owner of a
\* project is always one of its members (create_project, add_member, remove_member).
MembersBelong ==
  /\ \A m \in members : projects[m[1]] # None /\ Org[m[2]] = Org[projects[m[1]]]
  /\ \A p \in Projects : projects[p] # None => <<p, projects[p]>> \in members

\* o is reached from q by going up the tree.
Above(o, q) ==
  LET Up[n \in Nat] ==
        IF n = 0 THEN {q} ELSE {Parent[x] : x \in Up[n - 1] \cap Orgs}
  IN  \E n \in 0 .. Cardinality(Orgs) : o \in Up[n]

Administers(r, u) ==
  \/ r.role = "SystemAdmin"
  \/ r.role = "OrgAdmin" /\ Above(Org[r.ask.actor], Org[u])

\* Roles and accounts change only at the hand of an administrator of that part of
\* the tree, and only a SystemAdmin makes a SystemAdmin (change_role, org_scope).
ChangedInScope ==
  [][\A u \in Users : users'[u] # users[u] =>
       \E c \in Clients :
         /\ At(c, {"role"}, "checked") /\ request[c].ask.target = u
         /\ Administers(request[c], u)
         /\ users'[u].role = "SystemAdmin" /\ users[u].role # "SystemAdmin" =>
              request[c].role = "SystemAdmin"]_accountVars

\* Two administrators who change one account at once never undo a (de)activation
\* that one of them has not seen (change_role writes the columns it changes).
ChangedKnowingly ==
  [][\A u \in Users : users'[u].active # users[u].active =>
       \E c \in Clients :
         /\ At(c, {"role"}, "checked") /\ request[c].ask.target = u
         /\ request[c].was.active = users[u].active]_accountVars
===============================================================================
