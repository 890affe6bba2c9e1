-------------------------------- MODULE Rbac --------------------------------
(***************************************************************************)
(* Role-based access control of the admin backend: the role, user-role and *)
(* role-permission tables, the handlers that change them                   *)
(* (users.services.ts, roles.services.ts and their repositories), the      *)
(* in-process permission cache (permissionsCache.ts) and the middleware    *)
(* that reads through it (loadPermissions.ts).                             *)
(*                                                                         *)
(* A request is an HTTP request being served.  Between two of its steps    *)
(* lies an await of the handler, where steps of other requests interleave. *)
(* A transaction runs at READ COMMITTED: its reads are steps of their own, *)
(* and its writes, which nobody sees before they commit and which the row  *)
(* locks keep apart from other writers of the same rows, are one step with *)
(* the commit.  See README.md, "Rbac", for the argument.                   *)
(*                                                                         *)
(* A definition named X_SomeBug is a mutant of X: the definition a likely  *)
(* mistake in the code would give.  Only the mutants of PROJECT.json use it.*)
(***************************************************************************)
EXTENDS Integers, Sequences, FiniteSets

CONSTANTS
    User,        \* user ids that have a row in DIMSAdminUsers
    Role,        \* role ids, those of rows not created yet included
    Perm,        \* permission ids (a permission's id and its key are one)
    ActivePerm,  \* the permissions that are live and active
    Name,        \* role names
    NoName,      \* the name of a patch that has none
    Request,     \* requests; each is served once
    RoleLists,   \* the bodies of POST /users/:id/roles: lists of written role ids
    PermLists,   \* the bodies of PUT /roles/:id/permissions and POST /roles
    Urls,        \* how clients spell the ids they put into a URL
    Kinds,       \* the endpoints that clients call
    Faults,      \* the faults that may happen: "db", "ack", "audit", "crash"
    TTL,         \* PERMISSION_CACHE_TTL_SECONDS, in ticks
    SweepEvery   \* the 60 s between two sweeps of the cache, in ticks

\* An id that a client writes may be spelled as the database spells it or with other
\* letters in upper case: z.string().uuid() accepts both, SQL Server takes them for
\* the same id, and JavaScript takes them for different strings.
Spelling == {"db", "other"}
Written(S) == [id : S, as : Spelling]

AllKinds == {"load", "assign", "revoke", "create", "update", "remove", "setPerms"}

ASSUME ConstantsAssumption ==
    /\ ActivePerm \subseteq Perm
    /\ NoName \notin Name
    /\ RoleLists \subseteq Seq(Written(Role))
    /\ PermLists \subseteq Seq(Written(Perm))
    /\ Urls \subseteq Spelling
    /\ Kinds \subseteq AllKinds
    /\ Faults \subseteq {"db", "ack", "audit", "crash"}
    /\ TTL \in Nat
    /\ SweepEvery \in Nat \ {0}

VARIABLES
    users,      \* rows of DIMSAdminUsers whose DeletedAt is null
    roles,      \* DIMSAdminRoles: a function from the ids of its rows
    userRoles,  \* DIMSAdminUserRoles: set of <<user, role>>
    rolePerms,  \* DIMSAdminRolePermissions: set of <<role, permission>>
    audit,      \* requests that have a row in DIMSAdminAuditLogs
    committed,  \* history: requests whose transaction committed
    cache,      \* permissionStore: a function from the cached users
    sinceSweep, \* ticks since lastSweep, at most SweepEvery
    pc,         \* the await a request is suspended at
    op,         \* what a request asks for
    rows,       \* local of a handler: the rows its last read returned
    affected,   \* local of a handler: the users it is going to invalidate
    reply       \* what a request was answered

tables == <<users, roles, userRoles, rolePerms>>
journal == <<audit, committed>>
store == <<cache, sinceSweep>>
control == <<pc, op, rows, affected, reply>>
vars == <<tables, journal, store, control>>

-----------------------------------------------------------------------------
(* Rows, cache entries and requests.                                       *)

RoleRow == [name : Name, system : BOOLEAN, active : BOOLEAN, deleted : BOOLEAN]

\* left: ticks until expiresAt, negative once it has passed.
Entry == [keys : SUBSET Perm, left : Int]

LoadOp == [kind : {"load"}, user : User]
\* url: the spelling of the user's id.
AssignOp == [kind : {"assign"}, user : User, url : Spelling, ids : RoleLists]
RevokeOp == [kind : {"revoke"}, user : User, url : Spelling, role : Role]
CreateOp == [kind : {"create"}, name : Name, ids : PermLists]
UpdateOp == [kind : {"update"}, role : Role, name : Name \cup {NoName},
             active : {"on", "off", "same"}]
RemoveOp == [kind : {"remove"}, role : Role]
SetPermsOp == [kind : {"setPerms"}, role : Role, ids : PermLists]
NoOp == [kind |-> "none"]
Op == LoadOp \cup AssignOp \cup RevokeOp \cup CreateOp \cup UpdateOp
        \cup RemoveOp \cup SetPermsOp \cup {NoOp}

Stage == {"idle", "query", "store", "capture", "read", "recheck", "commit",
          "invalidate", "reread", "done"}
Reply == {"none", "ok", "notFound", "invalid", "forbidden", "conflict", "error",
          "lost"}

\* The stages at which a request waits for the database.
DbStage == {"query", "capture", "read", "recheck", "commit", "reread"}

\* The rows a list names, and those it names by the very string the database has.
Ids(list) == {list[k].id : k \in DOMAIN list}
AsStored(list) == {list[k].id : k \in {j \in DOMAIN list : list[j].as = "db"}}

\* A list passes validation when the query finds as many rows as it has ids, so
\* a list that repeats an id never does, nor one that spells it in two ways.
AllFound(list, ok) == Cardinality(Ids(list) \cap ok) = Len(list)

LiveRole(r) == r \in DOMAIN roles /\ ~roles[r].deleted
ActiveRole(r) == LiveRole(r) /\ roles[r].active
ActiveRoles_Live == {r \in DOMAIN roles : LiveRole(r)}
ActiveRoles == {r \in DOMAIN roles : ActiveRole(r)}
Holders_Rows(r) == {a \in userRoles : a[2] = r}
Holders(r) == {u \in User : <<u, r>> \in userRoles}
PermsOf(r) == {p \in Perm : <<r, p>> \in rolePerms}
Bearers_Active(n) == {s \in DOMAIN roles : ActiveRole(s) /\ roles[s].name = n}
Bearers(n) == {s \in DOMAIN roles : LiveRole(s) /\ roles[s].name = n}
NameTaken(n, r) == Bearers(n) \ {r} # {}

\* What the join in loadPermissions returns for user u.
Effective(u) ==
    {p \in ActivePerm :
        \E r \in DOMAIN roles :
            ActiveRole(r) /\ <<u, r>> \in userRoles /\ <<r, p>> \in rolePerms}

-----------------------------------------------------------------------------
(* The parts handlers are made of.                                         *)

Accept(i, o, stage, users_) ==
    /\ op' = [op EXCEPT ![i] = o]
    /\ pc' = [pc EXCEPT ![i] = stage]
    /\ affected' = [affected EXCEPT ![i] = users_]
    /\ UNCHANGED <<rows, reply>>

\* The ids of the body that are not among the strings the read returned, and the
\* strings it returned that are not in the body: sets of strings, so an id that is
\* spelled otherwise counts as missing although its row is there.
Missing_All(i) == Ids(op[i].ids)
Missing(i) == Ids(op[i].ids) \ (rows[i] \cap AsStored(op[i].ids))
Surplus_Kept(i) == {}
Surplus(i) == rows[i] \ AsStored(op[i].ids)

\* invalidateUserPermissions(id) deletes the entry of that key, and the keys are
\* made of ids as the database spells them.
Keyed(u, url) == IF url = "db" THEN {u} ELSE {}

\* The handler returns or throws: its locals are gone.
Answer(i, code) ==
    /\ pc' = [pc EXCEPT ![i] = "done"]
    /\ reply' = [reply EXCEPT ![i] = code]
    /\ rows' = [rows EXCEPT ![i] = {}]
    /\ affected' = [affected EXCEPT ![i] = {}]

Refuse(i, o, code) == op' = [op EXCEPT ![i] = o] /\ Answer(i, code)

Goto(i, stage) == pc' = [pc EXCEPT ![i] = stage]

\* writeAudit inside the transaction, and its commit.  A failure to insert the
\* row is logged and swallowed, and the transaction goes on.
Commit(i) ==
    /\ committed' = committed \cup {i}
    /\ \/ audit' = audit \cup {i}
       \/ "audit" \in Faults /\ audit' = audit

Rollback_AuditOutside(i, code) ==
    /\ Answer(i, code)
    /\ audit' = audit \cup {i}
    /\ UNCHANGED <<op, tables, committed, store>>
Rollback_Swallowed(i, code) ==
    /\ Answer(i, "ok")
    /\ UNCHANGED <<op, tables, journal, store>>
Rollback(i, code) ==
    /\ Answer(i, code)
    /\ UNCHANGED <<op, tables, journal, store>>

-----------------------------------------------------------------------------
(* loadPermissions and the cache.                                          *)

Sweep_Never == cache
Sweep ==
    IF sinceSweep < SweepEvery THEN cache
    ELSE [u \in {v \in DOMAIN cache : cache[v].left > 0} |-> cache[u]]

Swept == IF sinceSweep < SweepEvery THEN sinceSweep ELSE 0

Hit_AtExpiry(u) == u \in DOMAIN Sweep /\ Sweep[u].left >= 0
Hit(u) == u \in DOMAIN Sweep /\ Sweep[u].left > 0

Without(c, us) == [u \in DOMAIN c \ us |-> c[u]]

\* getCachedPermissions: sweep, then serve the entry or drop it.
Lookup(i, u) ==
    /\ "load" \in Kinds
    /\ pc[i] = "idle"
    /\ LET o == [kind |-> "load", user |-> u] IN
       \/ /\ Hit(u)
          /\ cache' = Sweep
          /\ Refuse(i, o, "ok")
       \/ /\ ~Hit(u)
          /\ cache' = Without(Sweep, {u})
          /\ Accept(i, o, "query", {})
    /\ sinceSweep' = Swept
    /\ UNCHANGED <<tables, journal>>

Query(i) ==
    /\ pc[i] = "query"
    /\ rows' = [rows EXCEPT ![i] = Effective(op[i].user)]
    /\ Goto(i, "store")
    /\ UNCHANGED <<op, affected, reply, tables, journal, store>>

\* setCachedPermissions, then next().
Store(i) ==
    /\ pc[i] = "store"
    /\ cache' = [u \in DOMAIN cache \cup {op[i].user} |->
                    IF u = op[i].user THEN [keys |-> rows[i], left |-> TTL]
                    ELSE cache[u]]
    /\ Answer(i, "ok")
    /\ UNCHANGED <<op, tables, journal, sinceSweep>>

-----------------------------------------------------------------------------
(* users.services.ts: assignRoles and revokeRole.                          *)

AssignCheck(i, u, url, ids) ==
    /\ "assign" \in Kinds
    /\ pc[i] = "idle"
    /\ LET o == [kind |-> "assign", user |-> u, url |-> url, ids |-> ids] IN
       \/ u \notin users /\ Refuse(i, o, "notFound")
       \/ /\ u \in users
          /\ ~AllFound(ids, ActiveRoles)
          /\ Refuse(i, o, "invalid")
       \/ /\ u \in users
          /\ AllFound(ids, ActiveRoles)
          /\ Accept(i, o, "read", Keyed(u, url))
    /\ UNCHANGED <<tables, journal, store>>

Attached_Rows(u, ids) == {<<u, r>> : r \in {s \in Ids(ids) : <<u, s>> \in userRoles}}
Attached(u, ids) == {r \in Ids(ids) : <<u, r>> \in userRoles}

\* attachRoles: which of the roles the user already has.
AssignRead(i) ==
    /\ pc[i] = "read"
    /\ op[i].kind = "assign"
    /\ rows' = [rows EXCEPT ![i] = Attached(op[i].user, op[i].ids)]
    /\ Goto(i, "recheck")
    /\ UNCHANGED <<op, affected, reply, tables, journal, store>>

\* The primary key refuses the rows to insert; there is no row to delete.
Clashes(i) ==
    op[i].kind = "assign" /\ ({op[i].user} \X Missing(i)) \cap userRoles # {}
NothingToRevoke(i) ==
    op[i].kind = "revoke" /\ <<op[i].user, op[i].role>> \notin userRoles

\* The transaction's last read, of the user, after its write: nobody sees the write
\* before the commit, which is a step of its own.
UserReread(i) ==
    /\ pc[i] = "recheck"
    /\ \/ Clashes(i) /\ Rollback(i, "error")
       \/ /\ ~Clashes(i)
          /\ NothingToRevoke(i) \/ op[i].user \notin users
          /\ Rollback(i, "notFound")
       \/ /\ ~Clashes(i) /\ ~NothingToRevoke(i) /\ op[i].user \in users
          /\ Goto(i, "commit")
          /\ UNCHANGED <<op, rows, affected, reply, tables, journal, store>>

AssignCommit(i) ==
    /\ pc[i] = "commit"
    /\ op[i].kind = "assign"
    /\ \/ Clashes(i) /\ Rollback(i, "error")
       \/ /\ ~Clashes(i)
          /\ userRoles' = userRoles \cup ({op[i].user} \X Missing(i))
          /\ Commit(i)
          /\ Goto(i, "invalidate")
          /\ UNCHANGED <<op, rows, affected, reply, users, roles, rolePerms, store>>

RevokeCheck(i, u, url, r) ==
    /\ "revoke" \in Kinds
    /\ pc[i] = "idle"
    /\ LET o == [kind |-> "revoke", user |-> u, url |-> url, role |-> r] IN
       \/ u \notin users /\ Refuse(i, o, "notFound")
       \/ u \in users /\ Accept(i, o, "recheck", Keyed(u, url))
    /\ UNCHANGED <<tables, journal, store>>

RevokeCommit(i) ==
    /\ pc[i] = "commit"
    /\ op[i].kind = "revoke"
    /\ \/ NothingToRevoke(i) /\ Rollback(i, "notFound")
       \/ /\ ~NothingToRevoke(i)
          /\ userRoles' = userRoles \ {<<op[i].user, op[i].role>>}
          /\ Commit(i)
          /\ Goto(i, "invalidate")
          /\ UNCHANGED <<op, rows, affected, reply, users, roles, rolePerms, store>>

-----------------------------------------------------------------------------
(* roles.services.ts: create, update, remove and setPermissions.           *)

CreateCheck(i, n, ids) ==
    /\ "create" \in Kinds
    /\ pc[i] = "idle"
    /\ LET o == [kind |-> "create", name |-> n, ids |-> ids]
           taken == Bearers(n) # {} IN
       \/ taken /\ Refuse(i, o, "conflict")
       \/ ~taken /\ ~AllFound(ids, ActivePerm) /\ Refuse(i, o, "invalid")
       \/ ~taken /\ AllFound(ids, ActivePerm) /\ Accept(i, o, "commit", {})
    /\ UNCHANGED <<tables, journal, store>>

\* The unique index on the names of live roles refuses a name taken since.
CreateCommit(i, r) ==
    /\ pc[i] = "commit"
    /\ op[i].kind = "create"
    /\ r \notin DOMAIN roles
    /\ \/ /\ NameTaken(op[i].name, r)
          /\ Rollback(i, "error")
       \/ /\ ~NameTaken(op[i].name, r)
          /\ roles' = [s \in DOMAIN roles \cup {r} |->
                          IF s = r THEN [name |-> op[i].name, system |-> FALSE,
                                         active |-> TRUE, deleted |-> FALSE]
                          ELSE roles[s]]
          /\ rolePerms' = rolePerms \cup ({r} \X Ids(op[i].ids))
          /\ rows' = [rows EXCEPT ![i] = {r}]
          /\ Commit(i)
          /\ Goto(i, "reread")
          /\ UNCHANGED <<op, affected, reply, users, userRoles, store>>

Locked_NameOnly(r, n, a) == roles[r].system /\ n # NoName
Locked(r, n, a) == roles[r].system /\ (n # NoName \/ a # "same")

\* A role of that name has an id that is not the string in the URL.  The role is
\* taken for another one of its name (in other letters) when its id is respelled.
Duplicate(r, n) ==
    NameTaken(n, r) \/ ("other" \in Urls /\ n = roles[r].name)

UpdateCheck(i, r, n, a) ==
    /\ "update" \in Kinds
    /\ pc[i] = "idle"
    /\ LET o == [kind |-> "update", role |-> r, name |-> n, active |-> a] IN
       \/ ~LiveRole(r) /\ Refuse(i, o, "notFound")
       \/ LiveRole(r) /\ Locked(r, n, a) /\ Refuse(i, o, "forbidden")
       \/ /\ LiveRole(r) /\ ~Locked(r, n, a) /\ n # NoName /\ Duplicate(r, n)
          /\ Refuse(i, o, "conflict")
       \/ /\ LiveRole(r) /\ ~Locked(r, n, a) /\ (n # NoName => ~NameTaken(n, r))
          /\ Accept(i, o, IF a = "off" THEN "capture" ELSE "commit", {})
    /\ UNCHANGED <<tables, journal, store>>

Patched(row, o) ==
    [row EXCEPT !.name = IF o.name = NoName THEN @ ELSE o.name,
                !.active = IF o.active = "same" THEN @ ELSE o.active = "on"]

\* patchRole writes the row of that id, deleted or not; the index on names
\* covers only rows that are not.
UpdateCommit(i) ==
    /\ pc[i] = "commit"
    /\ op[i].kind = "update"
    /\ LET o == op[i]
           refused == /\ LiveRole(o.role)
                      /\ o.name # NoName
                      /\ NameTaken(o.name, o.role) IN
       \/ refused /\ Rollback(i, "error")
       \/ /\ ~refused
          /\ roles' = [roles EXCEPT ![o.role] = Patched(@, o)]
          /\ Commit(i)
          /\ Goto(i, "invalidate")
          /\ UNCHANGED <<op, rows, affected, reply, users, userRoles, rolePerms, store>>

RemoveCheck(i, r) ==
    /\ "remove" \in Kinds
    /\ pc[i] = "idle"
    /\ LET o == [kind |-> "remove", role |-> r] IN
       \/ ~LiveRole(r) /\ Refuse(i, o, "notFound")
       \/ LiveRole(r) /\ roles[r].system /\ Refuse(i, o, "forbidden")
       \/ LiveRole(r) /\ ~roles[r].system /\ Accept(i, o, "capture", {})
    /\ UNCHANGED <<tables, journal, store>>

RemoveCommit_KeepsUserRoles(i) ==
    /\ pc[i] = "commit"
    /\ op[i].kind = "remove"
    /\ roles' = [roles EXCEPT ![op[i].role].deleted = TRUE, ![op[i].role].active = FALSE]
    /\ Commit(i)
    /\ Goto(i, "invalidate")
    /\ UNCHANGED <<op, rows, affected, reply, users, userRoles, rolePerms, store>>
\* softDeleteRole: the row is marked and its assignments go.
RemoveCommit(i) ==
    /\ pc[i] = "commit"
    /\ op[i].kind = "remove"
    /\ LET r == op[i].role IN
       /\ roles' = [roles EXCEPT ![r].deleted = TRUE, ![r].active = FALSE]
       /\ userRoles' = {a \in userRoles : a[2] # r}
    /\ Commit(i)
    /\ Goto(i, "invalidate")
    /\ UNCHANGED <<op, rows, affected, reply, users, rolePerms, store>>

SetPermsCheck(i, r, ids) ==
    /\ "setPerms" \in Kinds
    /\ pc[i] = "idle"
    /\ LET o == [kind |-> "setPerms", role |-> r, ids |-> ids] IN
       \/ ~LiveRole(r) /\ Refuse(i, o, "notFound")
       \/ LiveRole(r) /\ ~AllFound(ids, ActivePerm) /\ Refuse(i, o, "invalid")
       \/ LiveRole(r) /\ AllFound(ids, ActivePerm) /\ Accept(i, o, "capture", {})
    /\ UNCHANGED <<tables, journal, store>>

\* setRolePermissions: which permissions the role has.
SetPermsRead(i) ==
    /\ pc[i] = "read"
    /\ op[i].kind = "setPerms"
    /\ rows' = [rows EXCEPT ![i] = PermsOf(op[i].role)]
    /\ Goto(i, "commit")
    /\ UNCHANGED <<op, affected, reply, tables, journal, store>>

\* Delete and then insert the difference between that set and the one asked for: a
\* row whose id the body respells is deleted and inserted again.
SetPermsCommit(i) ==
    /\ pc[i] = "commit"
    /\ op[i].kind = "setPerms"
    /\ LET r == op[i].role
           toAdd == {r} \X Missing(i)
           left == rolePerms \ ({r} \X Surplus(i)) IN
       \/ toAdd \cap left # {} /\ Rollback(i, "error")
       \/ /\ toAdd \cap left = {}
          /\ rolePerms' = left \cup toAdd
          /\ Commit(i)
          /\ Goto(i, "invalidate")
          /\ UNCHANGED <<op, rows, affected, reply, users, roles, userRoles, store>>

-----------------------------------------------------------------------------
(* Steps several handlers share.                                           *)

Capture_AfterDelete(i) ==
    /\ pc[i] = "capture"
    /\ affected' = [affected EXCEPT ![i] =
                       IF op[i].kind = "remove" THEN {} ELSE Holders(op[i].role)]
    /\ Goto(i, IF op[i].kind = "setPerms" THEN "read" ELSE "commit")
    /\ UNCHANGED <<op, rows, reply, tables, journal, store>>

\* findUserIdsByRoleId, inside the transaction and before its writes.
Capture(i) ==
    /\ pc[i] = "capture"
    /\ affected' = [affected EXCEPT ![i] = Holders(op[i].role)]
    /\ Goto(i, IF op[i].kind = "setPerms" THEN "read" ELSE "commit")
    /\ UNCHANGED <<op, rows, reply, tables, journal, store>>

\* After the commit: invalidate(Many)UserPermissions.
Invalidate(i) ==
    /\ pc[i] = "invalidate"
    /\ cache' = Without(cache, affected[i])
    /\ \/ /\ op[i].kind \in {"update", "setPerms"}
          /\ Goto(i, "reread")
          /\ UNCHANGED <<rows, affected, reply>>
       \/ /\ op[i].kind \notin {"update", "setPerms"}
          /\ Answer(i, "ok")
    /\ UNCHANGED <<op, tables, journal, sinceSweep>>

Reread_IgnoresGone(i) ==
    /\ pc[i] = "reread"
    /\ \A r \in IF op[i].kind = "create" THEN rows[i] ELSE {op[i].role} : LiveRole(r)
    /\ Answer(i, "ok")
    /\ UNCHANGED <<op, tables, journal, store>>

\* findRoleDetail, for the response: the role may be gone by now.
Reread(i) ==
    /\ pc[i] = "reread"
    /\ LET shown == IF op[i].kind = "create" THEN rows[i] ELSE {op[i].role} IN
       \/ (\A r \in shown : LiveRole(r)) /\ Answer(i, "ok")
       \/ (\E r \in shown : ~LiveRole(r)) /\ Answer(i, "notFound")
    /\ UNCHANGED <<op, tables, journal, store>>

-----------------------------------------------------------------------------
(* Faults, other writers and time.                                         *)

\* A query fails, or the transaction does (deadlock victim, timeout): the
\* handler's promise rejects, and nothing it wrote is kept.
DbError(i) ==
    /\ "db" \in Faults
    /\ pc[i] \in DbStage
    /\ Answer(i, "error")
    /\ UNCHANGED <<op, tables, journal, store>>

\* The transaction committed but its acknowledgement is lost: $transaction
\* rejects and the code after it does not run.
AckLost(i) ==
    /\ "ack" \in Faults
    /\ pc[i] = "invalidate"
    /\ Answer(i, "error")
    /\ UNCHANGED <<op, tables, journal, store>>

\* The process dies and starts again: the cache and the requests being served
\* are gone, the database is not.
Crash ==
    /\ "crash" \in Faults
    /\ LET hit == {i \in Request : pc[i] \notin {"idle", "done"}} IN
       /\ pc' = [i \in Request |-> IF i \in hit THEN "done" ELSE pc[i]]
       /\ reply' = [i \in Request |-> IF i \in hit THEN "lost" ELSE reply[i]]
       /\ rows' = [i \in Request |-> {}]
       /\ affected' = [i \in Request |-> {}]
    /\ cache' = Without(cache, User)
    /\ sinceSweep' = SweepEvery
    /\ UNCHANGED <<op, tables, journal>>

\* Users are soft-deleted by other writers of the database; no code here does.
SoftDeleteUser(u) ==
    /\ u \in users
    /\ users' = users \ {u}
    /\ UNCHANGED <<roles, userRoles, rolePerms, journal, store, control>>

\* An entry's clock stops SweepEvery ticks after it expired: nothing tells
\* later values apart.
Aged(e) == [e EXCEPT !.left = IF @ > -SweepEvery THEN @ - 1 ELSE @]

Tick ==
    /\ cache' = [u \in DOMAIN cache |-> Aged(cache[u])]
    /\ sinceSweep' = IF sinceSweep < SweepEvery THEN sinceSweep + 1 ELSE sinceSweep
    /\ UNCHANGED <<tables, journal, control>>

-----------------------------------------------------------------------------
Init ==
    /\ users \in SUBSET User
    /\ roles \in UNION {[D -> RoleRow] : D \in SUBSET Role}
    /\ \A r \in DOMAIN roles : ~roles[r].deleted /\ ~NameTaken(roles[r].name, r)
    /\ userRoles \in SUBSET (User \X DOMAIN roles)
    /\ rolePerms \in SUBSET ((DOMAIN roles) \X Perm)
    /\ audit = {}
    /\ committed = {}
    /\ cache = [u \in {} |-> [keys |-> {}, left |-> 0]]
    /\ sinceSweep = SweepEvery
    /\ pc = [i \in Request |-> "idle"]
    /\ op = [i \in Request |-> NoOp]
    /\ rows = [i \in Request |-> {}]
    /\ affected = [i \in Request |-> {}]
    /\ reply = [i \in Request |-> "none"]

\* A request arrives and its handler runs to the first await that matters.
Arrive(i) ==
    \/ \E u \in User : Lookup(i, u)
    \/ \E u \in User, url \in Urls, ids \in RoleLists : AssignCheck(i, u, url, ids)
    \/ \E u \in User, url \in Urls, r \in Role : RevokeCheck(i, u, url, r)
    \/ \E n \in Name, ids \in PermLists : CreateCheck(i, n, ids)
    \/ \E r \in Role, n \in Name \cup {NoName}, a \in {"on", "off", "same"} :
          UpdateCheck(i, r, n, a)
    \/ \E r \in Role : RemoveCheck(i, r)
    \/ \E r \in Role, ids \in PermLists : SetPermsCheck(i, r, ids)

\* A handler's transaction ends by itself: it commits or rolls back.
EndTx(i) ==
    \/ AssignCommit(i)
    \/ RevokeCommit(i)
    \/ \E r \in Role : CreateCommit(i, r)
    \/ UpdateCommit(i)
    \/ RemoveCommit(i)
    \/ SetPermsCommit(i)

\* The handler of a request that has arrived goes on.
Continue(i) ==
    \/ Query(i)
    \/ Store(i)
    \/ Capture(i)
    \/ AssignRead(i)
    \/ SetPermsRead(i)
    \/ UserReread(i)
    \/ EndTx(i)
    \/ Invalidate(i)
    \/ Reread(i)

Environment ==
    \/ Crash
    \/ \E u \in User : SoftDeleteUser(u)
    \/ Tick

Next ==
    \/ \E i \in Request : Arrive(i) \/ Continue(i) \/ DbError(i) \/ AckLost(i)
    \/ Environment

Spec == Init /\ [][Next]_vars

\* Every await of a handler settles: the database answers or its time limit
\* (2 s to get a connection, 5 s for a transaction) rejects the promise, and the
\* event loop then runs the handler on.  Time passes.
Fairness ==
    /\ \A i \in Request : WF_vars(Continue(i))
    /\ WF_vars(Tick)

FairSpec == Spec /\ Fairness

-----------------------------------------------------------------------------
(* Properties.                                                             *)

TypeOK ==
    /\ users \subseteq User
    /\ DOMAIN roles \subseteq Role
    /\ roles \in [DOMAIN roles -> RoleRow]
    /\ userRoles \subseteq User \X Role
    /\ rolePerms \subseteq Role \X Perm
    /\ audit \subseteq Request
    /\ committed \subseteq Request
    /\ DOMAIN cache \subseteq User
    /\ cache \in [DOMAIN cache -> Entry]
    /\ sinceSweep \in 0..SweepEvery
    /\ pc \in [Request -> Stage]
    /\ op \in [Request -> Op]
    /\ rows \in [Request -> SUBSET (Role \cup Perm)]
    /\ affected \in [Request -> SUBSET User]
    /\ reply \in [Request -> Reply]

\* No two live roles have the same name, whatever creations and renamings run
\* between the duplicate check of a handler and its write (the check is outside
\* the transaction; the filtered index UX_DIMSAdminRoles_Name_Active decides).
LiveNamesUnique ==
    \A r, s \in DOMAIN roles :
        LiveRole(r) /\ LiveRole(s) /\ roles[r].name = roles[s].name => r = s

\* The cache cannot grow without bound: an entry that is still there expired no
\* longer ago than the last sweep, so a sweep leaves only entries that can be
\* served (permissionsCache.ts, sweepExpired).
SweepKeepsUp == \A u \in DOMAIN cache : cache[u].left + sinceSweep >= 0

\* An audit row of a mutation exists only if the mutation committed: rolling the
\* transaction back takes the row with it (writeAudit gets the transaction).
AuditOnlyIfCommitted == audit \subseteq committed

Mutation(i) == op[i].kind \notin {"load", "none"}

Tells(i) ==
    /\ reply[i] = "ok" /\ Mutation(i) => i \in committed
    /\ reply[i] \in {"invalid", "forbidden", "conflict"} => i \notin committed
    /\ reply[i] = "notFound" /\ op[i].kind \in {"assign", "revoke", "remove"}
          => i \notin committed

\* What the client is told about its mutation is true: "ok" means that it
\* committed, and a refusal that it did not.  (The 404 of update, create and
\* setPermissions may come from the re-read after the commit, and a 500 or a
\* lost connection say nothing.)
RepliesTellTheTruth == \A i \in Request : Tells(i)

\* Where a handler is suspended agrees with what it serves, what it holds and
\* whether its transaction has committed.
AtStage(i) ==
    /\ pc[i] \in {"query", "store"} => op[i].kind = "load"
    /\ pc[i] = "store" => rows[i] \subseteq Perm
    /\ pc[i] = "capture" => op[i].kind \in {"update", "remove", "setPerms"}
    /\ pc[i] = "read" => op[i].kind \in {"assign", "setPerms"}
    /\ pc[i] = "recheck" => op[i].kind \in {"assign", "revoke"}
    /\ pc[i] = "commit" => Mutation(i)
    /\ pc[i] = "invalidate" => op[i].kind \in {"assign", "revoke", "update", "remove", "setPerms"}
    /\ pc[i] = "reread" => op[i].kind \in {"create", "update", "setPerms"}
    /\ pc[i] \in {"invalidate", "reread"} => i \in committed
    /\ pc[i] \notin {"invalidate", "reread", "done"} => i \notin committed
    /\ pc[i] # "done" => reply[i] = "none"

\* The inductive invariant of the handlers: types alone are not inductive, since
\* what Store caches is well typed only because a load has read permissions.
HandlerInv == TypeOK /\ \A i \in Request : AtStage(i) /\ Tells(i)

\* A system role is never deleted, renamed, deactivated or made an ordinary
\* role, whichever checks and writes interleave.
SystemRolesIntact ==
    [][\A r \in DOMAIN roles :
          roles[r].system => r \in DOMAIN roles' /\ roles'[r] = roles[r]]_vars

\* Its inductive counterpart: a transaction that was let through and is going to
\* write a system role patches neither its name nor its activity.
Harmless(i) ==
    pc[i] \in {"capture", "commit"} /\ op[i].kind \in {"update", "remove"}
        => /\ op[i].role \in DOMAIN roles
           /\ roles[op[i].role].system
                 => op[i].kind = "update" /\ op[i].name = NoName /\ op[i].active = "same"

SystemTargets == \A i \in Request : Harmless(i)

\* Every request that arrives is answered, whatever became of the rows its
\* handler read before.
Answered ==
    \A i \in Request : pc[i] \notin {"idle", "done"} ~> pc[i] = "done"

\* ----- What the repository says and the code does not do -----

\* loadPermissions.ts: "mutations in users.services.ts and roles.services.ts
\* invalidate affected user keys so revoked access takes effect on the next
\* request": once every request has been answered, no cached entry that would
\* be served holds a permission its user no longer has.
RevocationEffective ==
    (\A i \in Request : pc[i] \in {"idle", "done"})
        => \A u \in DOMAIN cache :
              cache[u].left > 0 => cache[u].keys \subseteq Effective(u)
=============================================================================
