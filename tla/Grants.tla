-------------------------------- MODULE Grants --------------------------------
(***************************************************************************)
(* What the users and roles services promise of the tables, without awaits,*)
(* caches or replies.  A mutation is checked when it begins and takes       *)
(* effect in one step.  If no other mutation took effect in between, what   *)
(* it was checked for still holds in that step and its effect is exactly    *)
(* what was asked for.  If one did, it is late, and Late says what of the   *)
(* promise is left.                                                        *)
(***************************************************************************)
EXTENDS Integers, Sequences, Functions

CONSTANTS
    User,
    Perm,
    ActivePerm,
    NoName,
    Request,
    Op          \* what requests may ask for

VARIABLES
    users, roles, userRoles, rolePerms, \* the tables
    open,    \* the mutations under way: a function from requests to what they ask for
    late     \* those of them that another mutation has overtaken

tables == <<users, roles, userRoles, rolePerms>>
vars == <<tables, open, late>>

LiveRole(r) == r \in DOMAIN roles /\ ~roles[r].deleted
Listed(list) == {list[k].id : k \in DOMAIN list}
Lists(list, ok) ==
    IsInjective([k \in DOMAIN list |-> list[k].id]) /\ Listed(list) \subseteq ok
Free(n, r) == \A s \in DOMAIN roles \ {r} : LiveRole(s) => roles[s].name # n
Renames(o) == o.name # NoName

\* A system role keeps its name and its activity, and is never removed.
Protected(o) ==
    /\ roles[o.role].system
    /\ o.kind = "remove" \/ (o.kind = "update" /\ (Renames(o) \/ o.active # "same"))

\* A grant or a revocation begins for a user who is there, and may take effect for
\* one who has gone since: no lock keeps the row.
Addressed(o) == o.kind \in {"assign", "revoke"} => o.user \in users

Allowed(o) ==
    \/ /\ o.kind = "assign"
       /\ Lists(o.ids, {r \in DOMAIN roles : LiveRole(r) /\ roles[r].active})
    \/ o.kind = "revoke"
    \/ /\ o.kind = "create"
       /\ \A s \in DOMAIN roles : LiveRole(s) => roles[s].name # o.name
       /\ Lists(o.ids, ActivePerm)
    \/ /\ o.kind = "update"
       /\ LiveRole(o.role) /\ ~Protected(o)
       /\ Renames(o) => Free(o.name, o.role)
    \/ o.kind = "remove" /\ LiveRole(o.role) /\ ~Protected(o)
    \/ o.kind = "setPerms" /\ LiveRole(o.role) /\ Lists(o.ids, ActivePerm)

-----------------------------------------------------------------------------
Patch(o) ==
    roles' = [roles EXCEPT ![o.role].name = IF Renames(o) THEN o.name ELSE @,
                           ![o.role].active = IF o.active = "same" THEN @ ELSE o.active = "on"]

NewRole(r, n) ==
    roles' = [s \in DOMAIN roles \cup {r} |->
                 IF s = r THEN [name |-> n, system |-> FALSE, active |-> TRUE, deleted |-> FALSE]
                 ELSE roles[s]]

Drop(r) ==
    /\ roles' = [roles EXCEPT ![r].deleted = TRUE, ![r].active = FALSE]
    /\ userRoles' = {a \in userRoles : a[2] # r}

Effect(o) ==
    \/ /\ o.kind = "assign"
       /\ userRoles' = userRoles \cup ({o.user} \X Listed(o.ids))
       /\ UNCHANGED <<roles, rolePerms>>
    \/ /\ o.kind = "revoke"
       /\ <<o.user, o.role>> \in userRoles
       /\ userRoles' = userRoles \ {<<o.user, o.role>>}
       /\ UNCHANGED <<roles, rolePerms>>
    \/ /\ o.kind = "create"
       /\ \E r \in DOMAIN roles' \ DOMAIN roles :
             NewRole(r, o.name) /\ rolePerms' = rolePerms \cup ({r} \X Listed(o.ids))
       /\ UNCHANGED userRoles
    \/ o.kind = "update" /\ Patch(o) /\ UNCHANGED <<userRoles, rolePerms>>
    \/ o.kind = "remove" /\ Drop(o.role) /\ UNCHANGED rolePerms
    \/ /\ o.kind = "setPerms"
       /\ rolePerms' = (rolePerms \ ({o.role} \X Perm)) \cup ({o.role} \X Listed(o.ids))
       /\ UNCHANGED <<roles, userRoles>>

\* A late grant may miss roles that were taken away since it looked, and give roles
\* that were deactivated or removed; a late patch or removal may meet a role that is
\* removed; a late replacement adds and removes what it found missing and too much.
\* A creation and a revocation keep their promise even then.
Late(o) ==
    \/ /\ o.kind = "assign"
       /\ \E s \in SUBSET Listed(o.ids) : userRoles' = userRoles \cup ({o.user} \X s)
       /\ UNCHANGED <<roles, rolePerms>>
    \/ /\ o.kind \in {"update", "remove"}
       /\ o.role \in DOMAIN roles /\ ~Protected(o)
       /\ o.kind = "update" /\ LiveRole(o.role) /\ Renames(o) => Free(o.name, o.role)
       /\ Effect(o)
    \/ /\ o.kind = "setPerms"
       /\ \E more \in SUBSET Listed(o.ids), less \in SUBSET (Perm \ Listed(o.ids)) :
             rolePerms' = (rolePerms \ ({o.role} \X less)) \cup ({o.role} \X more)
       /\ UNCHANGED <<roles, userRoles>>

-----------------------------------------------------------------------------
Init ==
    /\ \A r \in DOMAIN roles : LiveRole(r) /\ Free(roles[r].name, r)
    /\ open = [i \in {} |-> {}]
    /\ late = {}

Begin(i) ==
    /\ i \notin DOMAIN open
    /\ DOMAIN open' = DOMAIN open \cup {i}
    /\ \E o \in Op :
          /\ Addressed(o) /\ Allowed(o)
          /\ open' = [j \in DOMAIN open \cup {i} |-> IF j = i THEN o ELSE open[j]]
    /\ UNCHANGED <<tables, late>>

Commit(i) ==
    /\ i \in DOMAIN open
    /\ open' = [j \in DOMAIN open \ {i} |-> open[j]]
    /\ late' = DOMAIN open'
    /\ \/ Allowed(open[i]) /\ Effect(open[i])
       \/ i \in late /\ Late(open[i])
    /\ UNCHANGED users

\* Refused at the end, failed, or lost with the process.
Abort ==
    /\ DOMAIN open' \subseteq DOMAIN open
    /\ open' = [j \in DOMAIN open' |-> open[j]]
    /\ late' = late \cap DOMAIN open'
    /\ UNCHANGED tables

SoftDeleteUser ==
    /\ \E u \in users : users' = users \ {u}
    /\ UNCHANGED <<roles, userRoles, rolePerms, open, late>>

Next ==
    \/ \E i \in Request : Begin(i) \/ Commit(i)
    \/ Abort
    \/ SoftDeleteUser

Spec == Init /\ [][Next]_vars
=============================================================================
