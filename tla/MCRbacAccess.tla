----------------------------- MODULE MCRbacAccess -----------------------------
(* A small instance of RbacAccess for TLC.                                   *)
EXTENDS RbacAccess, MCRbac

\* The seeded system role, which nobody has, and an ordinary one that u1 has.
AccessInit ==
    /\ users = User
    /\ roles = (r1 :> Row(n1, TRUE)) @@ (r2 :> Row(n2, FALSE))
    /\ userRoles = {<<u1, r2>>}
    /\ rolePerms = {<<r1, p1>>, <<r2, p2>>}
    /\ TInit

\* A bound: patches change the activity of a role and not its name, on which no
\* permission depends.
Switches ==
    \A i \in Request :
        op'[i].kind = "update" => op'[i].name = NoName /\ op'[i].active # "same"

MCAccessSpec == AccessInit /\ [][TNext /\ Switches]_accessVars
=============================================================================
