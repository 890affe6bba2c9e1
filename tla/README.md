# A formal model of the DIMS admin backend

This directory holds TLA+ specifications of the admin backend in this repository,
the TLC configurations that check them on small instances, and TLAPS proofs of what
they promise for every instance. It is meant to be read beside the code. Paths such as
`roles.services.ts` are relative to the server's source directory; `init-db.sql` is the
SQL Server schema under `db/scripts/`.

## 1. The system

An Express server in one Node.js process, in front of SQL Server through Prisma. Admins
sign in with Google, get a session cookie, and manage users, roles and permissions; some
routes proxy to the DIMS .NET API with a service JWT.

| Component | State | Operations | Talks to |
|---|---|---|---|
| Users service (`users.services.ts`, `users.repositories.ts`) | `DIMSAdminUsers`, `DIMSAdminUserRoles` | list, get, update, assignRoles, revokeRole | audit writer, permission cache |
| Roles service (`roles.services.ts`, `roles.repositories.ts`) | `DIMSAdminRoles`, `DIMSAdminRolePermissions` | list, get, create, update, remove, setPermissions | audit writer, permission cache |
| Permission cache (`permissionsCache.ts`) | a Map with expiries, the time of the last sweep | get, set, invalidate, invalidateMany | called by loadPermissions and both services |
| loadPermissions | `req.permissions` | one middleware | cache, database |
| Audit writer (`audit.writer.ts`) | `DIMSAdminAuditLogs` | writeAudit, in a transaction or not | called by every mutation, sign-in, sign-out |
| Session store (`prismaSessionStore.ts`, `session.ts`) | `DIMSAdminSessions` | get, set, destroy, touch | express-session calls it around every handler |
| authenticate | `req.user` | one middleware | session, database |
| Auth service (`auth.services.ts`, `auth.repositories.ts`) | `DIMSAdminUsers`, the session | signInWithGoogle, signOut | Google, audit writer, session |
| requirePermission | `req.permissions`, the key of the route | one middleware | loadPermissions before it, the handler behind it |
| Service JWT (`serviceJwt.ts`) | a token's claim and expiry | mintServiceJwt | called by callDims |
| Permission catalogue | read-only rows | list, get | - |
| DIMS client and labs (`dims.services.ts`, `labs.services.ts`) | a timer per call | callDims; list, create, update, delete lab | keystore, DIMS, audit writer |
| Keystore (`keystore.ts`), JWKS | one shared promise | getKeystore | disk or Secrets Manager |
| Bootstrap, shutdown, health | `shuttingDown`, the Prisma client | start, shutdown, /health, /ready | everything |
| Rate limit, CSRF, CORS, helmet, request id, logging | counters inside libraries | middleware | - |
| Operator scripts (`scripts/`) | the database | apply the schema, bootstrap a super admin, compare permissions | run by hand beside the server |

What makes it hard:

- A handler is a sequence of awaits. Between two of them any other request may run to
  its own next await, and everything the handler read before may be out of date: the
  permission rows that loadPermissions is about to cache, the user list that a role
  mutation captured in order to invalidate it, the duplicate and system-role checks that
  run before the transaction, the session object that express-session writes back when
  the response ends.
- An id has more than one spelling. Validation accepts a UUID in any letter case, SQL
  Server ignores the case, and JavaScript compares ids, and makes cache keys of them, as
  strings.
- Transactions run at READ COMMITTED: a read inside one is not protected from a commit
  between it and the write it feeds.
- The cache is invalidated after the commit and outside of it. A lost acknowledgement, a
  crash or an error in between leaves it alone.
- Queries fail, transactions time out, the audit row fails by itself and is swallowed,
  the process dies; users are soft-deleted by programs that are not in this repository.
- Permissions pass through two clocks after they are withdrawn: the cache entry that the
  gate decides by, and the service token that was minted on that decision. An operator's
  program grants a role without either the process or its cache knowing.
- DIMS may act on a call whose answer never comes; the timer that ends the call is
  cleared before the body is read. A shutdown waits for connections, which is not the
  same as waiting for handlers.
- Some promises are not awaited (the destroy of a deactivated user's session, the delete
  of an expired row), and some callbacks must be called on error or a response hangs.

What correct means, component by component:

- *services*: a reply tells the truth about the commit; no two live roles share a name;
  a system role is immutable; replacing a permission set leaves that set; an audit row
  exists only for what committed; every request is answered.
- *cache*: it never serves a revoked permission, except for causes one can name; it does
  not keep what it can no longer serve.
- *gate*: however invalidations are missed, access lags the tables by a bounded time, in
  both directions; nobody inactive gets in; authority that was withdrawn and has run out
  does not come back by itself.
- *session store*: a destroyed session stays destroyed; only a sign-in says whose it is; a 200 to a sign-in is not ahead
  of the row; a failing store does not leave a response open; what is to be destroyed is.
- *sign-in*: one live user per Google account; only users who may sign in do.
- *DIMS client*: every call ends; what is audited or answered with 2xx did happen at
  DIMS; the permission in the token is the one the route demanded.
- *lifecycle*: a clean exit cuts off nobody who waits; the forced exit leaves calls the
  time they have; the process exits.

`PROJECT.json` lists each hazard at its line with the properties that cover it.

## 2. Modules

| Module | What it is |
|---|---|
| `Rbac` | tables, services, cache, loadPermissions, audit; its properties |
| `RbacHistory` | `Rbac` with history: who was overtaken by a commit, which mutations were, and whose cache entry may be stale for a known reason; the mapping to `Grants` |
| `Grants` | the abstract specification of the two services: mutations that are checked and take effect in one step, and what is left of one that another overtook |
| `Access` | the abstract specification of access control: what users hold, and how old a view of it may be that a request is decided by |
| `Operator` | `Rbac` with `bootstrap-superadmin.ts` running beside the server |
| `RbacAccess` | `Operator` with clocks as history, and the refinement mapping to `Access` |
| `Gate` | authenticate, loadPermissions (taken for `Access`), requirePermission, the handlers behind them, and the service token at DIMS; its properties |
| `MCRbac`, `MCRbacHistory`, `MCRbacAccess`, `MCGate` | instances for TLC |
| `Rbac_proofs`, `RbacHistory_proofs`, `Grants_proofs`, `RbacAccess_proofs`, `Gate_proofs` | TLAPS proofs |
| `Sessions` | session store, express-session, authenticate, sign-in, sign-out, activation of users; its properties; the mapping to `Login` |
| `Login` | the abstract specification of both: sessions that are in force or not, whose they are, and who gets in with one |
| `MCSessions`, `Sessions_proofs`, `Login_proofs` | instances and proofs |
| `Server` | boot with the keys, calls of DIMS from the labs routes, graceful shutdown; its properties |
| `MCServer`, `Server_proofs` | instances and proofs |

A definition named `X_SomeBug` is a variant of `X` as a plausible mistake in the code
would make it. No specification uses it: each is there to show that a property notices
that mistake (`PROJECT.json`, "mutants").

### Rbac

*State.* `users`, `roles`, `userRoles`, `rolePerms` and `audit` are the tables. Users
here are the rows that are not deleted, since these handlers ask only for that.
`cache` and `sinceSweep` are `permissionStore` and `lastSweep`; time is a count of ticks,
and an entry records how many are left. Each request has a program counter `pc` (the
await it is suspended at), its body `op`, the locals that survive an await (`rows`: what
its last read returned; `affected`: whom it is going to invalidate) and its `reply`.
`committed` is history: the requests whose transaction committed.

*Actions.* Each handler is cut at the awaits where what it has read can go stale:

| Code | Actions |
|---|---|
| `loadPermissions` | `Lookup` (sweep, hit or drop), `Query`, `Store` |
| `assignRoles` | `AssignCheck`, `AssignRead`, `UserReread`, `AssignCommit`, `Invalidate` |
| `revokeRole` | `RevokeCheck`, `UserReread`, `RevokeCommit`, `Invalidate` |
| `create` | `CreateCheck`, `CreateCommit`, `Reread` |
| `update` | `UpdateCheck`, `Capture` (only when it deactivates), `UpdateCommit`, `Invalidate`, `Reread` |
| `remove` | `RemoveCheck`, `Capture`, `RemoveCommit`, `Invalidate` |
| `setPermissions` | `SetPermsCheck`, `Capture`, `SetPermsRead`, `SetPermsCommit`, `Invalidate`, `Reread` |
| faults | `DbError`, `AckLost`, `Crash`, and `Commit` without the audit row |
| others | `SoftDeleteUser`, `Tick` |

The two or three look-ups a check makes before its transaction are one step. What the
later steps use of them is only that the check passed, and their answer may be out of
date by the next step anyway, so cutting them would add interleavings and no outcome
that a property tells apart.

*Transactions.* The reads of a transaction are steps of their own, because at READ
COMMITTED they keep no lock on what they return. Its writes are one step with the commit:
every row it writes is locked exclusively until it ends, so no other writer of those rows
comes between, and no reader sees them before. An insert into a table with a primary key
or a filtered unique index waits for a transaction that holds the key, and then succeeds
or fails on the committed state, which is what the guard of the commit step looks at. The
foreign-key check of an assignment waits for a transaction that is writing the role row;
the row is still there after a soft delete, so it then succeeds. A deadlock victim, a
time-out or a lost connection is `DbError`.

*Order inside a handler.* `assignRoles` and `revokeRole` write, read the user again to
decide between commit and rollback, and then commit: `UserReread` comes before the commit
and is a step of its own, so a user may be deleted between the two, and the row is
committed all the same. The keys are asked at both steps: at `UserReread`, since the write
is before it and fails at once on a key that is there already, and at the commit, which
is where a write that waited for another transaction is ordered after it. `update` and
`setPermissions` re-read after the commit and the invalidation: a role removed meanwhile
gives a 404 for a mutation that happened, which `RepliesTellTheTruth` allows and states.

*Validation of lists.* `assignRoles`, `create` and `setPermissions` compare the number
of rows found with the length of the list, so a list that names an id twice is refused;
`AllFound` says it that way and the instances contain such a list.

*Spelling of ids.* `z.string().uuid()` accepts upper and lower case, a `UNIQUEIDENTIFIER`
has no case, and Prisma returns it in one spelling. An id that a client writes is therefore
a record of the row it means (`id`) and of whether it is the very string that the
database returns (`as`: `"db"` or `"other"`). Queries go by the row, so validation and
captures do not see a difference. Code that compares strings does: `Missing` and `Surplus`
are differences of strings, so a row whose id the body spells otherwise counts as missing
and as surplus at once. For a grant that means a duplicate key and a 500. For a
replacement it means that the row is deleted and inserted again, which comes to the same
set because the delete is first. `Keyed` says which cache entry an id of a URL leads to:
`assignRoles` and `revokeRole` use the URL's string and `loadPermissions` the database's,
so another spelling leads to none. The ids of roles in URLs reach a string comparison only
in `Duplicate`; whose entries a role mutation invalidates, it reads from the database.

### RbacHistory

Adds `overlapped` (requests that hold something they read while another transaction
committed), `crossed` (mutations that another one overtook since they were checked) and
`excused` (users whose entry may be stale for one of four reasons, `Excuses`). `HNext` is
`Next` with one equation for each of the three, whose right side says nothing of their
next values: whatever step of `Rbac` is taken, it determines them, and so the history blocks
none. What is shown here holds of `Rbac`. It turns the vague "invalidation works unless there
is a race" into a statement that can be wrong: if the cache holds a permission its user
has lost, then a handler is about to delete the entry, or a load was overtaken between its
query and its store, or a capture was overtaken between its read and the commit, or a
revocation spelled the user's id otherwise than the cache does, or an acknowledgement was
lost. The first, second and fourth of these mishaps need another commit or a fault at the
wrong moment; the third needs nothing but an upper-case letter (`rbac_casing`).

`overlapped` also says what the other read-then-write transactions keep of their result:
`ReplaceIsExact`, `NoSelfInflictedError`, and `StrayOnlyIfOvertaken`. A transaction that
fails on a key or an index was overtaken, or grants a held role by another spelling of its
id (`RespellsHeld`). `softDeleteRole`
drops the assignments of the role it removes, and a grant that checked the role before
and inserts after it brings one back (the transaction of `assignRoles` does not look
again). The row gives nobody a permission, since every query asks for live roles; what is
shown is that this overtaking is the only way to it.

### Grants

A reader who wants to know what the users and roles services do to the tables needs neither
awaits nor stages for it. `Grants` has the four tables and the set of mutations under way
(`open`). A mutation begins when what it asks for is `Allowed`; it ends by one step with its
whole `Effect`, if what it asks for is still `Allowed` then; or it is aborted and leaves
nothing, which stands for a rollback, a failed query and a crash alike. A mutation is `late`
once another one took effect since it began, and only then may its step be a weaker one,
`Late`: a grant may give fewer rows (those it found there have gone), and rows of roles that
were deactivated or removed; a patch or a removal may meet a role that is removed; a
replacement may leave a mixture of two bodies. What a late mutation never does is in `Late`
as well: it gives no second live role a name, breaks no protection of a system role, and adds or takes away nothing outside of what the body says of
that user or role. Creations and revocations have no late form: the index, the row and the
catalogue decide at the commit. The user of a grant or a revocation must be there when it
begins (`Addressed`); nothing keeps the user's row until it takes effect. How ids are
spelled leaves no trace here: `Grants` takes a list for the rows it names.

`RbacHistory` maps itself onto it: `open` is what the requests between their check and the end
of their transaction ask for, `late` is `crossed`. That a grant, a difference that was computed
from an earlier read, or a name checked outside of the transaction comes to an exact step
whenever nobody interfered is the reason why the code can do without SERIALIZABLE, and `Late`
is what it pays. (Without `Late` the refinement fails: the overtaking happens.)

### Access, Operator, RbacAccess

`Access` has no tables, no cache and no handlers. A user holds a set of permissions that
changes in any way at any time; `changed` counts the ticks since a user last gained or
lost each permission; a request is decided once, by the present set or by one that
differs from it only in permissions that changed less than `Window` ticks ago.

`Operator` adds the program that gives the first administrator their role: four queries
by its own connection, cut at each await, without a transaction, an audit row or an
invalidation. It runs while the server crashes and comes back. Each query may fail, and
the operator may stop it. The look-up by e-mail address finds any live user.

`RbacAccess` maps them onto `Access`: `held` is what the tables give (`Effective`),
`granted` what `Lookup` and `Store` put into `req.permissions`, and `Window` is
`TTL + Lag`. That is the worst case of both delays: a query is answered, waits `Lag`
ticks to be stored, and the entry is then served for `TTL` ticks less one, since an entry is
expired at the instant its TTL is over. `Lag` stands for the time between the database's
answer and its use: one turn of the event loop, for which the code states no limit; the
one thing the history constrains is that time does not pass a load by for longer. The
refinement holds for every kind of missed invalidation at once, because it does not rest
on invalidation at all. It is what the operator is told by the script ("wait up to ~5 min
for the permission cache TTL") and what a reactivated role must rely on. `Coherent` is the
other half: which changes do not need the wait.

`AccessAssumption` asks for `TTL > 0`. `env.ts` accepts 0 as well; then every entry is
expired when it is stored and the cache serves nothing.

### Gate

*State.* `held`, `changed` and `granted` of `Access`; the `active` users; per request the
user its session names (`who`), its `route`, `pc`, and of a call of DIMS the permission in
its token (`claim`) and the token's age (`token`); `served`, the calls DIMS has served; as
history, `absent` (for how long the user of a request in flight has been without the
permission it asks for) and `seen` (whose user has been active since they arrived).

| Code | Actions and operators |
|---|---|
| the four routers and `/me` | `RouteKey`, `Labs`, `ForOneUser`, `ForARole` |
| `authenticate` | `authenticate` |
| `loadPermissions`, `requirePermission`, and the handler up to its first await | `loadPermissions` (with `Access`'s `Decide`, `requirePermission`, `mintServiceJwt`) |
| `assignRoles`, `revokeRole`, the four mutations of roles | `ChangeGrants` |
| `PATCH /users/:id` | `PatchUser` |
| `callDims`, as DIMS sees it | `DimsServes`, `DimsRefuses` |
| a failing query, a refused body, a handler that only reads | `Ends` |
| operator scripts, other writers, time | `Outside`, `Tick` |

*One turn.* When the permissions are there, `next()` calls the gate and the handler
synchronously, and the token's times are fixed before anything but a resolved promise is
awaited. No other request runs and no time passes between the decision and the token, which
is why they are one action. The handler itself runs later, and on a decision that may be
out of date by then: `ChangeGrants` and `PatchUser` do not ask again.

*Composition.* `Gate` uses no more of the permission path than the actions `Decide`,
`Change` and `Tick` of `Access`, and `RbacAccess` shows that the detailed model provides
them, with `Window = TTL + Lag`. What mutations do to grants is any change of one user
(`assignRoles`, `revokeRole`) or of all users (roles); `Rbac` has them row by row. The sessions
come from `Sessions`: a request without one, or with one that names nobody, ends in the 401
that is left out here.

*End to end.* `RevocationReachesDims` puts the clocks together: a decision lags by less
than `Window`, a token lives for less than `TokenTTL`, and both are reached.
`SealedStaysSealed` is about the loop through the gate, in which grants decide about
grants: when nobody holds Users.AssignRoles or Roles.Manage, `Window` has passed, and the last
handler that was let in is done, then no sequence of requests brings them back. Without the
last two conditions it is false, and that is how it should be read: a withdrawal is over when
the TTL has passed *and* the handlers that were let in have ended.

### Sessions

*State.* `users` with their account, activity and deletion; `sessions`, the rows of the
store with ticks to their expiry; the audit rows; the ids that cookies hold (`issued`);
the destroys that were called and not awaited (`burning`); as history the ids destroyed
since they were last saved (`gone`). Per request: `pc`, `op`, the session object `sess`
(its id, its user and whether it differs from what was loaded), the row a sign-in found,
the expiry a store write will write, and the reply.

*Actions.* `Arrive` and `GetSession` load the session; `Authenticate`, `PatchCheck`,
`PatchCommit` are a call and a `PATCH /users/:id`; `FindUser`, `Upsert`, `Audit` are a
sign-in; `Audit`, `Destroy` a sign-out; `Save`, `Touch` and `WriteFails` end a response;
`Burn` and `BurnFails` are the destroy that authenticate does not await.

*express-session* is a dependency, modelled from the options in `session.ts`: with
`resave: false` and `saveUninitialized: false` a session is saved only if a handler
changed it; otherwise, if it was loaded for this cookie, it is touched; the response ends
after the store's callback, error or not; after `destroy` there is nothing to write.
All but the last byte of the response is sent before that callback; "answered" means the
end of the response here.
`Prisma` sends a query only when its promise is awaited or given a `then`; this is why
the `deleteMany` inside `get` is not an action.

*Abstractions.* Token verification is an account or a refusal. Of a patch only isActive
is kept. Every other authenticated endpoint is `call`: what it does to its own tables is
in `Rbac`. A permission check that fails in front of `PATCH` behaves like a call. E-mail
addresses are left out: their unique index is one of the reasons of the fault `db`.

### Login

What a session is to somebody who does not care for await points, stages, expiry times or
responses. `Login` has a table of sessions with their `owner`s, the set of those that are in
force (`valid`) and of those that are going to be ended (`doomed`), and requests that hold a session
(`held`) and act as a user (`acting`). A request loads the session its cookie names only if
it is in force (`Load`), acts as its user only if that user is live and active at that moment
(`Enter`), and switches users on or off only while it acts (`Switch`). A session gets an
owner only by `Write`, at the end of a sign-in that proved an account (`Prove`): the user is
of that account, was active, and the session is the one it came with or one that no cookie
names. A request that loaded a session may put it back in force, or leave it
expired, but only if it is still there, and without saying whose it is (`Prolong`). A
session leaves the table by a sign-out that holds it, or by `End`, which needs a request that
met a user who is not active (`Doom`). `Release` is everything that may be forgotten: a
refusal, a failed query, a write that did not happen, the process.

`Sessions` maps itself onto it: `held` is the session object until the response has ended,
`acting` its user from the door on, `valid` the rows with time left. `Login` promises less than
one may expect where the code does: `Prove` does not ask whether the user is deleted (see
section 3); a session that was destroyed may be written again by a sign-in that
still holds it; whoever was let in before a deactivation is not stopped by it.

### Server

*State.* `phase`, `exit`, `force` (the timer of the forced exit) and, as history, `early`
(the requests in flight when the shutdown began) are the process; `linger` says that a
connection without a request is still open after `server.close`, and `hungUp` whose
clients have gone; `dims` and `applied` are DIMS' side of the calls; `audited` is our log.
Per request: `pc`, the route `op`, the `age` of its call and the `reply`.

| Code | Actions |
|---|---|
| `bootstrap`, `getKeystore` | `KeysLoaded`, `KeysFail` |
| a labs route up to `fetch` | `Arrive` |
| `callDims` | `Headers`, `Abort`, `NetFails`, then `Body`, `BodyFails` |
| `createLab`, `updateLab`, `deleteLab` | `Audit` after a body that says 2xx |
| `shutdown` | `ShutDown`, `Drained`, `Disconnected`, `ForceExit` |
| others | `DimsActs`, `HangUp`, `ConnectionEnds`, `Killed`, `Tick` |

*What is cut where.* Authentication, the gate and the schema are a rejection or nothing
in `Arrive`: they are in the other modules. Minting a token cannot fail here, since
`bootstrap` awaited the keys and the promise is kept for good; for the same reason
callers never share a load of the keys in flight. An error of the network before the
headers is a 502 `DIMS_UNAVAILABLE`; one while the body is read is outside of the `try`
and becomes a 500 `INTERNAL_ERROR` (the comment at `dims.services.ts:14` promises an
`UpstreamError` for DIMS' responses).

*Timers.* Node runs a timer that is due before time goes on, so `Tick` waits for `Due`
timers. Of two things that happen in one tick, either may come first.

*Connections.* `server.close` ends idle connections and waits for the rest. A client may
keep its connection after an answer, and send another request on it, until it closes it
or the keep-alive limit of 65 s passes, which is longer than the grace of 15 s. A client
that hangs up frees its connection at once and not its handler, so `Drained` may come
while that handler is still at work. Then `$disconnect` and `process.exit(0)` run under
it: a change that DIMS made may lack its audit row although the exit was clean. The
comment in `shutdown.ts` ("Wait for in-flight requests to finish") does not say so;
`CleanExitLosesNothing` is stated for requests somebody waits for, and so is
`AnsweredChangesAreLogged`: while the database takes inserts, whoever is told of a change
finds it in the log. An insert that an exit overtakes may or may not have been made.

## 3. Runs

Every run is exhaustive on its instance. Symmetry is used only where no liveness is checked.

| Run | Asks | Instance |
|---|---|---|
| `rbac` | `TypeOK`, `AuditOnlyIfCommitted`, `RepliesTellTheTruth`, `LiveNamesUnique`, `SystemRolesIntact`, `Answered` | every endpoint and fault, two requests at a time; one user, a system role, an ordinary one and room for two creations; fairness, no symmetry |
| `coherence` | `HTypeOK`, `Coherent`, `SweepKeepsUp`, `StrayOnlyIfOvertaken` | loads, grants and revoking mutations of two users, three at a time, ids in URLs spelled in both ways, lost acknowledgements and crashes |
| `isolation` | `MutationsAsPromised`, `ReplaceIsExact`, `NoSelfInflictedError` | all six mutations of one user and three roles, three at a time, lists that respell a held role and a held permission, a database that works |
| `access` | `OpTypeOK`, `BoundedStaleness` | loads and (de)activations of a role, three at a time, the operator's program, lost acknowledgements, crashes; TTL and lag of 1 |
| `gate` | `TypeOK`, `OnlyActiveUsersEnter`, `ClaimsWereGranted`, `RevocationReachesDims`, `SealedStaysSealed` | two users, one with authority over users and grants, one over labs; two requests on three kinds of route; window and lifetime of tokens of 1 |
| `sessions` | `TypeOK`, `DestroyedStaysDestroyed`, `OneLiveUserPerAccount`, `SignedInHasSession`, `OnlySignInSetsUser`, `LoginAsPromised` | sign-ins of two accounts, calls and sign-outs, three at a time, from an empty database; crashes, lost audit rows, destroys that fail |
| `session_live` | `AllAnswered`, `BurnsEventually`, `LoginAsPromised` | every request, two at a time, from one session; failing queries, fairness, no symmetry |
| `server` | `TypeOK`, `CleanExitLosesNothing`, `LabsTellTheTruth`, `AnsweredChangesAreLogged`, `GraceCoversCalls`, `ExitsEventually`, `CallsEnd` | two calls, a reading and a changing route, every fault but a failing insert, limits of 1 and 2 ticks, fairness |

Disagreements between the repository's own statements and what the code does. Each run
checks one such statement and TLC shows how it fails:

| Run | Statement | What happens |
|---|---|---|
| `rbac_revocation` | revoked access takes effect on the next request (`loadPermissions.ts`) | a load queries, a revocation commits and invalidates, the load stores the old rows |
| `rbac_casing` | the same | one request at a time: a load, then a revocation whose URL has the user's id in upper case; the entry stays |
| `session_pruned` | expired rows are pruned on read (`prismaSessionStore.ts`) | the delete is never sent |
| `server_timeout` | a hard timeout (`dims.services.ts`) | the headers come in time and clear the timer, the body comes later |

Other statements are contradicted by a line or two of code, and need no model checker:

- `me.routes.ts` says that `GET /me` is "Loaded fresh from DB each call (no caching in
  v1)", and the route goes through `loadPermissions` and its cache.
- `auth.services.ts` says of a sign-in "Reject if the user is soft-deleted or deactivated".
  The look-up by account ignores `deletedAt`, and the decision looks at isActive alone: a
  soft-deleted user who is still active gets a session and a 200. authenticate then refuses
  the session (`Login!Enter`, in `LoginAsPromised`).
- `softDeleteRole` in `roles.repositories.ts` says that it will "Also drop user→role
  assignments for this role"; a grant that checked the role before may insert one after
  (`StrayOnlyIfOvertaken` says exactly when).
- `check-permissions-sync.ts` compares `constants/permissions.ts` with the seeds under
  `db/migrations/`, as the comment in `permissions.ts` has it too. The seeds are in
  `db/scripts/init-db.sql`, so the script finds no keys and exits with 1. (The two lists
  do agree.)
- `init-db.sql` describes `Roles.Manage` as "Create / edit / delete non-system roles", and
  `setPermissions` does not ask whether the role is a system role.
- `audit.writer.ts` says that an audit row given a transaction commits and aborts with
  the mutation, and swallows the error of its insert: the mutation commits without a row.
  What does hold is the other half, `AuditOnlyIfCommitted`.
- `shutdown.ts`: see the end of *Server* above.

*Why the bounds are enough.* Each hazard is between a reader and a writer, or two writers
of one row, with at most one more request to invalidate or remove. `rbac` has everything
with two requests; `coherence`, `isolation`, `access` and `sessions` have the endpoints they are
about with three. Two roles let a permission be lost through one and kept through the
other. Two users, in `coherence`, let an invalidation hit the wrong one and an entry outlive
the loads of its own user; the other instances of the tables have one user, and for any number
of them there are the theorems. `rbac` has four role ids, so that two creations fit beside the two
roles it starts from. In `isolation` the constraint `OneField` lets a patch change a role's
name or its activity, since the two do not meet in what it asks (`rbac` has patches of
both). In `access` the constraint `Switches` leaves patches their effect on
activity only, since permissions do not depend on names, and TTL and `Lag` of 1 make both
halves of the window count: a mutant that serves an entry at its expiry exceeds it by one
tick. `Urls` and the lists have ids in both spellings where a property can tell them apart: in
`rbac`, `coherence` and `access` those of URLs, in `rbac` and `isolation` those of bodies;
`rbac_revocation` has the database's spelling alone, so that its trace is a race, and
`rbac_casing` has the other one and `Alone`, so that its trace is none. `coherence` leaves
failing queries to `rbac`: a rollback changes neither the cache nor the tables. In `gate` the constraint `Withdrawals` lets other writers only take away, and nobody gain
Users.Edit; grants by requests stay free, which is what `SealedStaysSealed` is about. TTL and the sweep
interval are one or two ticks, enough for an entry to expire, to be swept, and to be
renewed. Bounds are the sizes of the constant sets in each configuration; `Aged` stops an
entry's clock `SweepEvery` ticks after its expiry, after which no operator can tell the
values apart. In `Server` an age stops at one tick past the time limit; a limit on calls that
is one tick shorter than the grace is the tightest case of the assumption of
`GraceCoversCalls`. In `gate` the window and the lifetime of tokens are one tick each, so that a
call is served only before either has passed; how longer delays add up is left to
`RevocationCorrect`. For what is proved, the bounds do not matter.

*Deadlock.* Time can always pass once the timers that are due have run, so no state is a
deadlock and the check stays on.

*Fairness.* Weak fairness of each request's next step: a query is answered or rejected
(Prisma limits the wait for a connection to 2 s and an interactive transaction to 5 s),
and the event loop then runs the handler. Weak fairness of a destroy that was called and
of the clock. No fairness of arrivals, faults, or other writers; and none in `access` and
`gate`, which promise nothing but bounds. In `session_live` every
query may fail except that destroy, and the process does not die: the code retries a
destroy only when the cookie comes again. In `server`: the timers, the clock, the audit
insert, and the end of a body one way or the other (`fetch` gives up on a body that
stalls for 300 s, a limit of its own, but every chunk sets that limit back, so a DIMS that
went on trickling a body would hold its call: that bodies end or stall is assumed, and
`CallsEnd` rests on it). That DIMS answers at all is not assumed, nor anything of clients, of the end
of connections or of the disconnect: that the process exits rests on the forced exit.

## 4. Proofs

For any sets of users, roles, permissions, names, lists and spellings of ids, accounts, session ids and requests, any
TTL, sweep interval and time limits, and any combination of endpoints and faults:

| Theorem | Says | Argument |
|---|---|---|
| `Rbac_proofs!HandlersCorrect` | `HandlerInv` | inductive: types, plus what each stage holds, plus what each reply means |
| `Rbac_proofs!TypeCorrect` | `TypeOK` | from `HandlerInv`; types alone are not inductive, as what `Store` caches is well typed only because a load has read permissions |
| `Rbac_proofs!RepliesCorrect` | `RepliesTellTheTruth` | from `HandlerInv` (`AtStage` ties the stage to the commit) |
| `Rbac_proofs!AuditCorrect` | `AuditOnlyIfCommitted` | inductive by itself |
| `Rbac_proofs!SweepCorrect` | `SweepKeepsUp` | inductive with the types: a lookup sweeps before it resets the interval |
| `Rbac_proofs!NamesCorrect` | `LiveNamesUnique` | inductive with the types: the index decides at the commit |
| `Rbac_proofs!SystemRolesCorrect` | `SystemRolesIntact` | from `SystemTargets`: a write that is under way against a system role patches nothing |
| `RbacHistory_proofs!CoherenceCorrect` | `Coherent` | `CoherenceInv` = `HandlerInv`, `FreshRows` (what a load not overtaken will store is still granted) and `CaptureComplete` (a list not overtaken, of a mutation that spells the user as the cache does, misses nobody who loses a permission), with `Coherent`; `Excuses` covers the rest |
| `RbacHistory_proofs!HistoryTypeCorrect` | `HTypeOK` | from the same |
| `RbacHistory_proofs!ReplaceCorrect` | `ReplaceIsExact` | from `ReadsFresh` (what a transaction not overtaken has read is still so), inductive with `HandlerInv` |
| `RbacHistory_proofs!ErrorsExplained` | `NoSelfInflictedError`, when `db` is not among the faults | from `ReadsFresh`: the guard on keys and names is what was read, except for a held role that the list respells |
| `RbacHistory_proofs!StraysExplained` | `StrayOnlyIfOvertaken` | from `ReadsFresh`: the roles a grant checked are live at its insert |
| `Grants_proofs!MutationsRefined` | `MutationsAsPromised`, that is `HSpec => G!Spec` | `GrantsInv` = `HandlerInv`, `SystemTargets`, and `ChecksFresh` (what a mutation that no commit crossed was checked for still holds, and what it read is still so); then each arrival is a `Begin`, each commit a `Commit` with the full `Effect` or `Late`, and everything else an `Abort`, a stutter or a deleted user |
| `RbacAccess_proofs!AccessRefined` | `TSpec => A!Spec` | the invariant `AccessInv`: rows a load holds differ from the tables only in what changed within `waited` ticks, a cache entry with `left` ticks to live only in what changed within `Window - left`; then every step is a `Change`, a `Decide`, a `Tick` or a stutter |
| `RbacAccess_proofs!OperatorTypes` | `OpTypeOK` | from the same |
| `RbacAccess_proofs!OperatorIsHarmless` | `RepliesTellTheTruth`, `AuditOnlyIfCommitted`, `LiveNamesUnique` and `SweepKeepsUp` of `OpSpec` | the steps of `Rbac` by the lemmas of its own theorems; the program writes nothing but an assignment, which none of them reads |
| `RbacAccess_proofs!OperatorKeepsSystemRoles` | `SystemRolesIntact` of `OpSpec` | from `SystemTargets`, as in `Rbac` |
| `RbacAccess_proofs!AccessIsOperator` | every behaviour of `TSpec` is one of `OpSpec` | step by step |
| `Gate_proofs!GateCorrect` | `GateInv` | inductive: types, `Timed` (what the history knows of a missing permission), `LetIn` (behind the gate, a permission was granted, and has been missing no longer than the decision lagged and the token has aged) |
| `Gate_proofs!TypeCorrect`, `ActiveCorrect`, `ClaimsCorrect` | `TypeOK`, `OnlyActiveUsersEnter`, `ClaimsWereGranted` | from `GateInv` |
| `Gate_proofs!RevocationCorrect` | `RevocationReachesDims` | from `GateInv` at the step that serves the call |
| `Gate_proofs!SealedCorrect` | `SealedStaysSealed` | action by action: with every view of authority current, a decision lets nobody behind such a route, and only handlers change grants |
| `Sessions_proofs!SessionsCorrect` | `SessionInv` | inductive: types, `Sound` (a session object with an id came from a row that leaves only by a destroy), `Placed` (where a request is says what it asks for) |
| `Sessions_proofs!TypeCorrect` | `TypeOK` | from `SessionInv` |
| `Sessions_proofs!DestroyedCorrect` | `DestroyedStaysDestroyed` | inductive: only five actions write the table, and only `Save` adds a row |
| `Sessions_proofs!AccountsCorrect` | `OneLiveUserPerAccount` | inductive with the types: the index decides at the insert |
| `Sessions_proofs!SignedInCorrect` | `SignedInHasSession` | from `SessionInv`, by the action that ends the request |
| `Sessions_proofs!SessionUserCorrect` | `OnlySignInSetsUser` | `Owned` (the row a sign-in found and the user in its session are of its account) is inductive with `SessionInv`; of the actions that write the table only `Save` changes a row's user |
| `Login_proofs!LoginRefined` | `LoginAsPromised`, that is `Spec => L!Spec` | `LoginInv` = `SessionInv`, `Owned` of every request, and `Entered` (until it is served a request has no session and no answer, behind the door it has the session of a user, and only a session as loaded is touched); then each step is one of `Login`'s actions, or changes nothing but who has been answered and is a `Release` |
| `Server_proofs!ServerCorrect` | `ServerInv` | inductive: types, and `Placed`, which ties the stage of a call to its answer, to what DIMS did and to the phase of the process |
| `Server_proofs!TypeCorrect` | `TypeOK` | from `ServerInv`; that a timer never passes its limit needs `Tick`'s guard |
| `Server_proofs!CleanExitCorrect` | `CleanExitLosesNothing` | from `ServerInv`: in flight while disconnecting means hung up |
| `Server_proofs!LabsCorrect` | `LabsTellTheTruth` | from `ServerInv`: the audit stage is reached only when DIMS made the change |
| `Server_proofs!AuditsCorrect` | `AnsweredChangesAreLogged` | from `ServerInv`: an answer while disconnecting goes to a client that hung up, any other follows the insert |
| `Server_proofs!GraceCorrect` | `GraceCoversCalls` | from `ServerInv`: for an earlier call that waits, its age and what is left of the grace add up to the grace or more |

The assumptions are `ConstantsAssumption`, `AccessAssumption`, `GateAssumption`,
`SessionAssumption` and `ServerAssumption`: model values lie outside the sets they
complement, lists are sequences of ids in one of their two spellings, times are numbers, and the TTL, the window and the
lifetime of tokens are not 0 (`env.ts` allows 0 for the TTL and the lifetime, with which nothing is
served from the cache, and DIMS serves nothing). TLC evaluates them in every run that extends the module.

Every invariant and action property that a run checks has its theorem, and so have the
refinements. Only model-checked are the liveness properties (`Answered`, `AllAnswered`,
`BurnsEventually`, `ExitsEventually`, `CallsEnd`), which are beyond the prover.

## 5. Not modelled

- *Signing and key discovery*: the signing of tokens and the JWKS routes are cryptography
  and constants. What matters of a token, its claim and its age, is in `Gate`.
- *Catalogue, lists and look-ups*: `list` and `get` of users, roles and permissions only
  read, and answer what they read.
- *Limits and headers*: the counters of `authRateLimit` live in `express-rate-limit`, and an
  answer of 429 is a request that never arrives here. `adminRateLimit` and `csrf.ts` are
  defined and not mounted in `app.ts`. CORS, helmet, request ids, logging and body parsing
  keep no state.
- *Two more scripts*: `apply-raw-sql.ts` runs the batches of the schema one after the other
  before there is a server, and says of itself that it cannot be repeated;
  `check-permissions-sync.ts` compares two files.
- *Configuration*: `env.ts` is read once. The values it admits are those of the assumptions
  in section 4, and any `Timeout` and `Grace`, of which `GraceCoversCalls` says when they fit.
- *Other string comparisons of ids*: what a reply and an audit row list as `added`,
  `alreadyHad`, `removed` or `missing` follows the same differences and is left out with the
  rest of their contents. (Names of roles are compared by the database; where `update` compares
  them too, equal ones only skip a look-up that would find the role itself.)
- *Redis*: nothing imports the client. Two processes behind one address are excluded by the
  comment in `permissionsCache.ts`.
- *Orders without a promise*: two requests of one session slide its expiry in the order
  their writes arrive; a sign-out is audited before its session is destroyed, which may
  fail. The models have both behaviours, and nothing in the repository says which is right.

## 6. Plan

1. *Core* (done): `Rbac`, `RbacHistory`, `Sessions`, their runs and theorems.
2. *Server* (done): boot, calls of DIMS and shutdown, their runs and theorems; what of a
   shutdown may be missing from the log.
3. *Refinement* (done): `Access`, the operator's program, and `RbacAccess`.
4. *Gate* (done): the chain in front of the handlers, composed with `Access`.
5. *Proofs* (done): every safety property that a run checks, and the refinement of `Access`.
6. *Two more abstract specifications* (done): `Grants`, implemented by the handlers of
   `Rbac`, and `Login`, implemented by `Sessions`.
7. *Next*: what a change of a lab promises to its client and to the log, implemented by
   `Server`; `Sessions` in front of `Gate` instead of `who`; `bootstrap-superadmin.ts` after a
   crash of its own, once it writes more than one row.
