---------------------------- MODULE MCRbacHistory ----------------------------
(* The instances of MCRbac with the history of RbacHistory added.            *)
EXTENDS RbacHistory, TLC

CONSTANTS u1, u2, r1, r2, r3, p1, p2, p3, n1, n2

Row(name, system) ==
    [name |-> name, system |-> system, active |-> TRUE, deleted |-> FALSE]

\* Two ordinary roles; u1 has the first, which grants p1, the second p2.
MCInit ==
    /\ users = User
    /\ roles = (r1 :> Row(n1, FALSE)) @@ (r2 :> Row(n2, FALSE))
    /\ userRoles = {<<u1, r1>>}
    /\ rolePerms = {<<r1, p1>>, <<r2, p2>>}
    /\ HInit

\* A bound: a patch changes the name of a role or its activity.
OneField ==
    \A i \in Request : op'[i].kind = "update" => op'[i].name = NoName \/ op'[i].active = "same"

MCSpec == MCInit /\ [][HNext /\ OneField]_allVars

Stored(id) == [id |-> id, as |-> "db"]
Respelled(id) == [id |-> id, as |-> "other"]

MCRoleLists == {<<Respelled(r1)>>, <<Stored(r2), Stored(r1)>>}
OneRoleList == {<<Stored(r2)>>}
OnePermList == {<<Stored(p2)>>}
RespelledPermList == {<<Respelled(p2)>>}

RequestSymmetry == Permutations(Request)
=============================================================================
