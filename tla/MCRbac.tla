------------------------------- MODULE MCRbac -------------------------------
(* Small instances of Rbac for TLC: the databases the runs start from, the   *)
(* request bodies clients send, and the symmetries.                          *)
EXTENDS Rbac, TLC

CONSTANTS u1, u2, r1, r2, r3, p1, p2, p3, n1, n2, n3

Row(name, system) ==
    [name |-> name, system |-> system, active |-> TRUE, deleted |-> FALSE]

Starts(roles_, userRoles_, rolePerms_) ==
    /\ users = User
    /\ roles = roles_
    /\ userRoles = userRoles_
    /\ rolePerms = rolePerms_
    /\ Init

\* The seeded system role, held by u1, beside an ordinary role nobody holds.
GrantsInit ==
    Starts((r1 :> Row(n1, TRUE)) @@ (r2 :> Row(n2, FALSE)),
           {<<u1, r1>>}, {<<r1, p1>>, <<r2, p2>>})
GrantsSpec == GrantsInit /\ [][Next]_vars
GrantsFairSpec == GrantsSpec /\ Fairness

\* One request at a time, and clients that spell ids in their own way.
Alone == Cardinality({i \in Request : pc'[i] \notin {"idle", "done"}}) <= 1
SerialSpec == GrantsInit /\ [][Next /\ Alone]_vars

Stored(id) == [id |-> id, as |-> "db"]
Respelled(id) == [id |-> id, as |-> "other"]

\* One role, both, one repeated, and the role u1 has, respelled.
MCRoleLists ==
    {<<Stored(r1)>>, <<Stored(r2), Stored(r1)>>, <<Stored(r2), Respelled(r2)>>,
     <<Respelled(r1)>>}

\* None, the permission r2 has in both spellings, and an inactive one (p3).
FewPermLists == {<<>>, <<Stored(p2)>>, <<Respelled(p2)>>, <<Stored(p3)>>}

RequestSymmetry == Permutations(Request)
=============================================================================
