-------------------------------- MODULE MCFeed --------------------------------
(***************************************************************************)
(* A small instance of Feed and Accounts: an administrator of the parent   *)
(* organization and a user of a branch of it, who owns a project.  Each    *)
(* behaviour shows one kind of traffic.                                    *)
(***************************************************************************)
EXTENDS Feed, TLC

CONSTANTS root, branch, admin, user, p1, p2

Tree == (root :> None) @@ (branch :> root)
Homes == [u \in Users |-> IF u = admin THEN root ELSE branch]
Seeded == [u \in Users |-> IF u = admin THEN "OrgAdmin" ELSE "User"]
Owners == (p1 :> user) @@ (p2 :> None)
Members == {<<p1, u>> : u \in Users \ {admin}}
Rows ==
  {[role |-> "SystemAdmin", active |-> TRUE], [role |-> "OrgAdmin", active |-> TRUE],
   [role |-> "User", active |-> FALSE]}
Traffic ==
  {{"login", "refresh", "logout"}, {"job"}, {"role", "socket"}, {"move", "socket"},
   {"project", "add", "remove", "socket"}}
OnlyMoves == {{"move", "socket"}}
===============================================================================
