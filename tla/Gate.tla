--------------------------------- MODULE Gate ---------------------------------
(***************************************************************************)
(* What stands before every handler of an admin route: authenticate,       *)
(* loadPermissions and requirePermission, as the routers mount them; and    *)
(* what the handlers behind it may then do to the activity and to the       *)
(* permissions of users, the caller's own included, or ask of DIMS with a   *)
(* service JWT (serviceJwt.ts).                                            *)
(*                                                                         *)
(* loadPermissions is taken for what Access says of it, which RbacAccess    *)
(* shows of the cache and the tables; the requests here are those whose     *)
(* session names a user (Sessions has the others).                         *)
(*                                                                         *)
(* A definition named X_SomeBug is a mutant of X, as in Rbac.              *)
(***************************************************************************)
EXTENDS Integers

CONSTANTS
    User,
    Request,  \* requests; each is served once
    Routes,   \* the routes that clients call
    Window,   \* the ticks for which a decision may ignore a change, as in Access
    TokenTTL  \* SERVICE_JWT_TTL_SECONDS, in ticks

\* The permission a route demands (users.routes.ts and its like); /me has no gate.
RouteKey ==
    [listUsers |-> "Users.View", getUser |-> "Users.View", patchUser |-> "Users.Edit",
     assignRoles |-> "Users.AssignRoles", revokeRole |-> "Users.AssignRoles",
     listRoles |-> "Roles.View", getRole |-> "Roles.View", createRole |-> "Roles.Manage",
     patchRole |-> "Roles.Manage", deleteRole |-> "Roles.Manage",
     setRolePermissions |-> "Roles.Manage",
     listPermissions |-> "Permissions.View", getPermission |-> "Permissions.View",
     listLabs |-> "Labs.View", createLab |-> "Labs.Create", updateLab |-> "Labs.Edit",
     deleteLab |-> "Labs.Delete"]

\* The permission that the labs service claims in the token of its call.
ClaimKey_Copied ==
    [listLabs |-> "Labs.View", createLab |-> "Labs.Create", updateLab |-> "Labs.Create",
     deleteLab |-> "Labs.Delete"]
ClaimKey ==
    [listLabs |-> "Labs.View", createLab |-> "Labs.Create", updateLab |-> "Labs.Edit",
     deleteLab |-> "Labs.Delete"]

Labs == {"listLabs", "createLab", "updateLab", "deleteLab"}
ForOneUser == {"assignRoles", "revokeRole"}
ForARole == {"createRole", "patchRole", "deleteRole", "setRolePermissions"}

ASSUME GateAssumption ==
    /\ Routes \subseteq DOMAIN RouteKey \cup {"me"}
    /\ Window \in Nat \ {0}
    /\ TokenTTL \in Nat \ {0}

Perm == {RouteKey[r] : r \in Routes \ {"me"}}

VARIABLES
    held, changed, granted, \* as in Access
    active,   \* the users who are live and active
    who,      \* the user that the session of a request names
    route,    \* the route a request comes by
    pc,       \* the await a request is suspended at
    claim,    \* the permission in the token of a call of DIMS, or "none"
    token,    \* ticks since that token was minted, at most TokenTTL
    served,   \* calls that DIMS has served
    absent,   \* history: ticks since the user of a request in flight last had the
              \* permission of its route, at most Window + TokenTTL
    seen      \* history: requests whose user was active at some time since they arrived

A == INSTANCE Access

accessVars == <<held, changed, granted>>
call == <<claim, token, served>>
vars == <<accessVars, active, who, route, pc, call, absent, seen>>

Stage == {"idle", "authenticate", "load", "handler", "dims", "done"}

Has(u, r, h) == r = "me" \/ RouteKey[r] \in h[u]
Goto(i, stage) == pc' = [pc EXCEPT ![i] = stage]

-----------------------------------------------------------------------------
(* The middleware chain.                                                   *)

Arrive(i) ==
    /\ pc[i] = "idle"
    /\ Goto(i, "authenticate")
    /\ UNCHANGED <<accessVars, active, call>>

\* The row of the session's user is read: live and active, or 401.
authenticate_SessionOnly(i) ==
    /\ pc[i] = "authenticate"
    /\ Goto(i, "load")
    /\ UNCHANGED <<accessVars, active, call>>
authenticate(i) ==
    /\ pc[i] = "authenticate"
    /\ Goto(i, IF who[i] \in active THEN "load" ELSE "done")
    /\ UNCHANGED <<accessVars, active, call>>

requirePermission_Any(r, permissions) == r = "me" \/ permissions # {}
requirePermission(r, permissions) == r = "me" \/ RouteKey[r] \in permissions

mintServiceJwt_ExpiresLate(i) ==
    /\ claim' = [claim EXCEPT ![i] = ClaimKey[route[i]]]
    /\ token' = [token EXCEPT ![i] = -1]
    /\ UNCHANGED served
\* callDims mints a token for each call.
mintServiceJwt(i) ==
    /\ claim' = [claim EXCEPT ![i] = ClaimKey[route[i]]]
    /\ token' = [token EXCEPT ![i] = 0]
    /\ UNCHANGED served

\* The permissions are there: from here to the first await of the handler nothing
\* else runs, so requirePermission decides by what was just loaded, and the token of
\* a labs call is minted in the same turn.  /me answers at once.
loadPermissions(i) ==
    /\ pc[i] = "load"
    /\ A!Decide(i, who[i])
    /\ \/ /\ ~requirePermission(route[i], granted'[i]) \/ route[i] = "me"
          /\ Goto(i, "done")
          /\ UNCHANGED call
       \/ /\ requirePermission(route[i], granted'[i])
          /\ route[i] \in Labs
          /\ Goto(i, "dims")
          /\ mintServiceJwt(i)
       \/ /\ requirePermission(route[i], granted'[i])
          /\ route[i] \notin Labs \cup {"me"}
          /\ Goto(i, "handler")
          /\ UNCHANGED call
    /\ UNCHANGED active

\* A query fails, the input is refused, or a handler has nothing to write.
Ends(i) ==
    /\ pc[i] \in {"authenticate", "load", "handler"}
    /\ Goto(i, "done")
    /\ UNCHANGED <<accessVars, active, call>>

-----------------------------------------------------------------------------
(* Behind the gate.                                                        *)

\* The roles of one user change, or a role that any users may have.
ChangeGrants(i) ==
    /\ pc[i] = "handler"
    /\ A!Change
    /\ \/ route[i] \in ForARole
       \/ /\ route[i] \in ForOneUser
          /\ \E u \in User : \A v \in User \ {u} : held'[v] = held[v]
    /\ Goto(i, "done")
    /\ UNCHANGED <<active, call>>

\* PATCH /users/:id switches a user on or off, the caller too.
PatchUser(i) ==
    /\ pc[i] = "handler"
    /\ route[i] = "patchUser"
    /\ \E u \in User : active' \in {active \cup {u}, active \ {u}}
    /\ Goto(i, "done")
    /\ UNCHANGED <<accessVars, call>>

\* DIMS serves a call when it reaches it, if the token has not expired.
DimsServes(i) ==
    /\ pc[i] = "dims"
    /\ token[i] < TokenTTL
    /\ served' = served \cup {i}
    /\ Goto(i, "done")
    /\ UNCHANGED <<accessVars, active, claim, token>>

\* DIMS refuses an expired token, or the call never reaches it.
DimsRefuses(i) ==
    /\ pc[i] = "dims"
    /\ Goto(i, "done")
    /\ UNCHANGED <<accessVars, active, call>>

-----------------------------------------------------------------------------
(* Other writers of the database, and time.                                *)

\* The operator scripts and other programs change users, roles and permissions.
Outside ==
    /\ \/ A!Change /\ UNCHANGED active
       \/ active' \in SUBSET User /\ UNCHANGED accessVars
    /\ UNCHANGED <<pc, call>>

Tick ==
    /\ A!Tick
    /\ token' = [i \in Request |->
                    IF pc[i] = "dims" /\ token[i] < TokenTTL THEN token[i] + 1 ELSE token[i]]
    /\ UNCHANGED <<active, pc, claim, served>>

Few(n) == IF n < Window + TokenTTL THEN n ELSE Window + TokenTTL

\* How long the user of a request has been without the permission of its route after
\* a step that takes n ticks.
Missed(i, n) ==
    IF pc'[i] \in {"idle", "done"} \/ Has(who[i], route[i], held') THEN 0
    ELSE IF pc[i] # "idle" THEN Few(absent[i] + n)
    ELSE LET ago == changed[who[i]][RouteKey[route[i]]] IN
         IF ago < Window THEN ago ELSE Window + TokenTTL

Note(n) ==
    /\ absent' = [i \in Request |-> Missed(i, n)]
    /\ seen' = seen \cup {i \in Request : pc'[i] \in {"authenticate", "load"} /\ who[i] \in active'}
    /\ UNCHANGED <<who, route>>

-----------------------------------------------------------------------------
Init ==
    /\ A!Init
    /\ active \in SUBSET User
    /\ who \in [Request -> User]
    /\ route \in [Request -> Routes]
    /\ pc = [i \in Request |-> "idle"]
    /\ claim = [i \in Request |-> "none"]
    /\ token = [i \in Request |-> 0]
    /\ served = {}
    /\ absent = [i \in Request |-> 0]
    /\ seen = {}

Serve(i) ==
    \/ Arrive(i)
    \/ authenticate(i)
    \/ loadPermissions(i)
    \/ Ends(i)
    \/ ChangeGrants(i)
    \/ PatchUser(i)
    \/ DimsServes(i)
    \/ DimsRefuses(i)

Next ==
    \/ (\E i \in Request : Serve(i)) /\ Note(0)
    \/ Outside /\ Note(0)
    \/ Tick /\ Note(1)

Spec == Init /\ [][Next]_vars

-----------------------------------------------------------------------------
(* Properties.                                                             *)

TypeOK ==
    /\ held \in [User -> SUBSET Perm]
    /\ changed \in [User -> [Perm -> 0..Window]]
    /\ DOMAIN granted \subseteq Request
    /\ granted \in [DOMAIN granted -> SUBSET Perm]
    /\ active \subseteq User
    /\ who \in [Request -> User]
    /\ route \in [Request -> Routes]
    /\ pc \in [Request -> Stage]
    /\ claim \in [Request -> Perm \cup {"none"}]
    /\ token \in [Request -> 0..TokenTTL]
    /\ served \subseteq Request
    /\ absent \in [Request -> 0..(Window + TokenTTL)]
    /\ seen \subseteq Request

\* No handler runs for a user who has been deactivated ever since the request
\* arrived, whatever permissions the cache still has of that user.
OnlyActiveUsersEnter == \A i \in Request : pc[i] \in {"handler", "dims"} => i \in seen

\* labs.services.ts: "the `permission` passed to `callDims` MUST equal the
\* `requirePermission(...)` key gating the corresponding route".  A token claims what
\* its request was let in by, so DIMS never serves a call by another permission.
ClaimsWereGranted ==
    \A i \in Request :
        pc[i] = "dims" => claim[i] = RouteKey[route[i]] /\ claim[i] \in granted[i]

\* The end of a revocation: DIMS serves no call for a permission that its user has
\* been without for longer than a decision may lag, which is less than Window, and
\* then a token may live, which is less than TokenTTL.
RevocationReachesDims ==
    [][\A i \in served' \ served : absent[i] <= (Window - 1) + (TokenTTL - 1)]_vars

\* Nobody has, or may still be taken to have, a permission to change grants, and no
\* handler with one is at work.
Sealed ==
    /\ \A u \in User, p \in Perm \cap {"Users.AssignRoles", "Roles.Manage"} :
          p \notin held[u] /\ changed[u][p] >= Window
    /\ \A i \in Request : pc[i] = "handler" => route[i] \notin ForOneUser \cup ForARole

\* Authority over grants does not come from nowhere: once all of it is withdrawn and
\* has run out, no requests, in whatever order, bring it back.  Only a writer outside
\* of this program can (and bootstrap-superadmin.ts is there to do it).
SealedStaysSealed == [][Sealed /\ ~Sealed' => UNCHANGED pc]_vars
=============================================================================
