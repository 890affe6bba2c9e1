------------------------------- MODULE Sessions -------------------------------
(***************************************************************************)
(* Sessions and users: the store behind express-session                    *)
(* (prismaSessionStore.ts), the middleware that turns a session into a     *)
(* user (authenticate.ts), sign-in and sign-out (auth.services.ts), and the *)
(* deactivation of a user (users.services.ts, update).                     *)
(*                                                                         *)
(* A request works on the session object it loaded when it arrived and     *)
(* writes it back, or slides its expiry, when it ends; between the two lie *)
(* awaits at which other requests of the same cookie run.  express-session *)
(* itself is modelled from its options in session.ts: resave and           *)
(* saveUninitialized are off, rolling is on.                               *)
(*                                                                         *)
(* A definition named X_SomeBug is a mutant of X, as in Rbac.              *)
(***************************************************************************)
EXTENDS Integers

CONSTANTS
    User,      \* ids of rows of DIMSAdminUsers, those not created yet included
    NoUser,
    Account,   \* Google accounts (the sub claim)
    NoAccount, \* an ID token that verification refuses
    Sid,       \* session ids
    NoSid,     \* no cookie; the id of a session that has not been saved
    Request,   \* requests; each is served once
    Kinds,     \* what clients ask for: "call" is any authenticated endpoint
    Faults,    \* what may fail: "db" (a query awaited), "burn" (one that is
               \* not), "audit" (an audit row), "crash" (the process)
    TTL        \* SESSION_COOKIE_TTL_HOURS, in ticks

ASSUME SessionAssumption ==
    /\ NoUser \notin User
    /\ NoAccount \notin Account
    /\ NoSid \notin Sid
    /\ Kinds \subseteq {"call", "patch", "signIn", "signOut"}
    /\ Faults \subseteq {"db", "burn", "audit", "crash"}
    /\ TTL \in Nat \ {0}

VARIABLES
    users,    \* DIMSAdminUsers: a function from the ids of its rows
    sessions, \* DIMSAdminSessions: a function from the sids of its rows
    audited,  \* requests that have a row in DIMSAdminAuditLogs
    issued,   \* sids that some cookie holds
    burning,  \* sids whose destroy() was called and not awaited
    gone,     \* history: sids destroyed, and not saved again since
    pc,       \* the await a request is suspended at
    op,       \* what a request asks for
    sess,     \* req.session of a request
    found,    \* local of a sign-in: the row it looked up, or NoUser
    due,      \* local of a store write: ticks until the expiry it writes
    reply     \* the response, sent when pc is "done"

database == <<users, sessions, audited>>
background == <<issued, burning, gone>>
control == <<pc, op, sess, found, due, reply>>
vars == <<database, background, control>>

UserRow == [google : Account, active : BOOLEAN, deleted : BOOLEAN]
SessionRow == [user : User, left : Nat]
Session == [sid : Sid \cup {NoSid}, user : User \cup {NoUser}, dirty : BOOLEAN]

CallOp == [kind : {"call", "signOut"}, cookie : Sid \cup {NoSid}]
SignInOp == [kind : {"signIn"}, cookie : Sid \cup {NoSid}, account : Account \cup {NoAccount}]
PatchOp == [kind : {"patch"}, cookie : Sid \cup {NoSid}, target : User,
            active : {"on", "off", "same"}]
NoOp == [kind |-> "none", cookie |-> NoSid]
Op == CallOp \cup SignInOp \cup PatchOp \cup {NoOp}

Stage == {"idle", "get", "authenticate", "check", "commit", "find", "upsert",
          "audit", "destroy", "save", "touch", "done"}
Reply == {"none", "ok", "unauthorized", "notFound", "error", "lost"}

LiveUser(u) == u \in DOMAIN users /\ ~users[u].deleted
ActiveUser_Any(u) == LiveUser(u)
ActiveUser(u) == LiveUser(u) /\ users[u].active
Readable_Expired(s) == s \in DOMAIN sessions
Readable(s) == s \in DOMAIN sessions /\ sessions[s].left > 0
Fresh == [sid |-> NoSid, user |-> NoUser, dirty |-> FALSE]
Without(f, ks) == [k \in DOMAIN f \ ks |-> f[k]]
Goto(i, stage) == pc' = [pc EXCEPT ![i] = stage]

-----------------------------------------------------------------------------
(* express-session around the handlers.                                    *)

\* res.end: a session that was changed is saved, one that was loaded has its
\* expiry slid, and only then does the response end.
Finish(i, code, s) ==
    /\ sess' = [sess EXCEPT ![i] = s]
    /\ reply' = [reply EXCEPT ![i] = code]
    /\ due' = [due EXCEPT ![i] = TTL]
    /\ Goto(i, IF s.dirty THEN "save" ELSE IF s.sid # NoSid THEN "touch" ELSE "done")

\* req.session was destroyed or never there: nothing to write.
Close(i, code) ==
    /\ reply' = [reply EXCEPT ![i] = code]
    /\ Goto(i, "done")
    /\ UNCHANGED <<sess, due>>

Begin(i, s, stage) ==
    /\ sess' = [sess EXCEPT ![i] = s]
    /\ Goto(i, stage)
    /\ UNCHANGED <<reply, due>>

\* The session middleware calls next(): the handler runs to its first await.
Serve(i, o, s) ==
    \/ /\ o.kind \in {"call", "patch"}
       /\ \/ s.user = NoUser /\ Finish(i, "unauthorized", s)
          \/ s.user # NoUser /\ Begin(i, s, "authenticate")
    \/ /\ o.kind = "signIn"
       /\ \/ o.account = NoAccount /\ Finish(i, "unauthorized", s)
          \/ o.account # NoAccount /\ Begin(i, s, "find")
    \/ /\ o.kind = "signOut"
       /\ Begin(i, s, "audit")

Arrive(i, o) ==
    /\ pc[i] = "idle"
    /\ o.kind \in Kinds
    /\ o.cookie \in issued \cup {NoSid}
    /\ op' = [op EXCEPT ![i] = o]
    /\ IF o.cookie = NoSid THEN Serve(i, o, Fresh) ELSE Begin(i, Fresh, "get")
    /\ UNCHANGED <<found, database, background>>

\* store.get.  Of an expired row it says that there is no session; the
\* deleteMany it makes for that row is a promise nobody awaits, and Prisma sends
\* a query only when its promise is awaited, so the row stays.
GetSession(i) ==
    /\ pc[i] = "get"
    /\ LET s == op[i].cookie IN
       Serve(i, op[i], IF Readable(s)
                       THEN [sid |-> s, user |-> sessions[s].user, dirty |-> FALSE]
                       ELSE Fresh)
    /\ UNCHANGED <<op, found, database, background>>

\* store.set is an upsert.  A session without an id gets one that is new.
Save(i, s) ==
    /\ pc[i] = "save"
    /\ IF sess[i].sid = NoSid THEN s \notin issued ELSE s = sess[i].sid
    /\ sessions' = [t \in DOMAIN sessions \cup {s} |->
                       IF t = s THEN [user |-> sess[i].user, left |-> due[i]]
                       ELSE sessions[t]]
    /\ issued' = issued \cup {s}
    /\ gone' = gone \ {s}
    /\ sess' = [sess EXCEPT ![i].sid = s]
    /\ Goto(i, "done")
    /\ UNCHANGED <<users, audited, burning, op, found, due, reply>>

\* store.touch is an updateMany: of a session that is gone it updates nothing.
Touch_Upsert(i) ==
    /\ pc[i] = "touch"
    /\ sessions' = [t \in DOMAIN sessions \cup {sess[i].sid} |->
                       IF t = sess[i].sid THEN [user |-> sess[i].user, left |-> due[i]]
                       ELSE sessions[t]]
    /\ Goto(i, "done")
    /\ UNCHANGED <<users, audited, background, op, sess, found, due, reply>>
Touch_WritesData(i) ==
    /\ pc[i] = "touch"
    /\ sessions' = [t \in DOMAIN sessions |->
                       IF t = sess[i].sid THEN [user |-> sess[i].user, left |-> due[i]]
                       ELSE sessions[t]]
    /\ Goto(i, "done")
    /\ UNCHANGED <<users, audited, background, op, sess, found, due, reply>>
Touch(i) ==
    /\ pc[i] = "touch"
    /\ sessions' = [t \in DOMAIN sessions |->
                       IF t = sess[i].sid THEN [sessions[t] EXCEPT !.left = due[i]]
                       ELSE sessions[t]]
    /\ Goto(i, "done")
    /\ UNCHANGED <<users, audited, background, op, sess, found, due, reply>>

WriteFails_NoCallback(i) ==
    /\ "db" \in Faults
    /\ pc[i] \in {"save", "touch"}
    /\ Goto(i, "hung")
    /\ UNCHANGED <<op, sess, found, due, reply, database, background>>
\* The store passes the error to its callback, and the response ends all the
\* same, with the status it had.
WriteFails(i) ==
    /\ "db" \in Faults
    /\ pc[i] \in {"save", "touch"}
    /\ Goto(i, "done")
    /\ UNCHANGED <<op, sess, found, due, reply, database, background>>

-----------------------------------------------------------------------------
(* authenticate, and the handler of PATCH /users/:id behind it.            *)

\* A session of a user who is not live and active is destroyed in the
\* background, and nothing of it is written when the response ends.
Authenticate(i) ==
    /\ pc[i] = "authenticate"
    /\ \/ /\ ~ActiveUser(sess[i].user)
          /\ burning' = burning \cup {sess[i].sid}
          /\ Close(i, "unauthorized")
       \/ /\ ActiveUser(sess[i].user)
          /\ burning' = burning
          /\ \/ op[i].kind = "call" /\ Finish(i, "ok", sess[i])
             \/ op[i].kind = "patch" /\ Begin(i, sess[i], "check")
    /\ UNCHANGED <<op, found, database, issued, gone>>

Burn_Unsent(s) ==
    /\ s \in burning
    /\ burning' = burning \ {s}
    /\ UNCHANGED <<database, issued, gone, control>>
Burn(s) ==
    /\ s \in burning
    /\ burning' = burning \ {s}
    /\ sessions' = Without(sessions, {s})
    /\ gone' = gone \cup {s}
    /\ UNCHANGED <<users, audited, issued, control>>

\* authenticate ignores the outcome.
BurnFails(s) ==
    /\ "burn" \in Faults
    /\ s \in burning
    /\ burning' = burning \ {s}
    /\ UNCHANGED <<database, issued, gone, control>>

PatchCheck(i) ==
    /\ pc[i] = "check"
    /\ \/ ~LiveUser(op[i].target) /\ Finish(i, "notFound", sess[i])
       \/ LiveUser(op[i].target) /\ Begin(i, sess[i], "commit")
    /\ UNCHANGED <<op, found, database, background>>

\* Update by id, re-read, audit and commit: a user soft-deleted meanwhile rolls
\* the transaction back.
PatchCommit(i) ==
    /\ pc[i] = "commit"
    /\ LET u == op[i].target
           want == op[i].active IN
       \/ /\ ~LiveUser(u)
          /\ Finish(i, "notFound", sess[i])
          /\ UNCHANGED <<users, audited>>
       \/ /\ LiveUser(u)
          /\ users' = [users EXCEPT ![u].active = IF want = "same" THEN @ ELSE want = "on"]
          /\ audited' \in {audited \cup {i}} \cup (IF "audit" \in Faults THEN {audited} ELSE {})
          /\ Finish(i, "ok", sess[i])
    /\ UNCHANGED <<op, found, sessions, background>>

-----------------------------------------------------------------------------
(* Sign-in and sign-out.                                                   *)

RowsOf_Rows(a) == {users[u] : u \in {v \in DOMAIN users : users[v].google = a}}
RowsOf(a) == {u \in DOMAIN users : users[u].google = a}

\* The lookup does not ask whether the row is deleted.
FindUser(i) ==
    /\ pc[i] = "find"
    /\ LET mine == RowsOf(op[i].account) IN
       \E u \in IF mine = {} THEN {NoUser} ELSE mine :
           found' = [found EXCEPT ![i] = u]
    /\ Begin(i, sess[i], "upsert")
    /\ UNCHANGED <<op, reply, due, database, background>>

\* req.session.adminUserId = id: the session differs from the one loaded if that
\* one was another user's.
SignedIn_KeepsFresh(s, u) == [s EXCEPT !.user = u, !.dirty = s.sid # NoSid /\ s.user # u]
SignedIn(s, u) == [s EXCEPT !.user = u, !.dirty = s.user # u]

\* Which users may not sign in: the code looks at isActive alone.
Decide(i, u) ==
    \/ /\ users'[u].active
       /\ sess' = [sess EXCEPT ![i] = SignedIn(sess[i], u)]
       /\ reply' = [reply EXCEPT ![i] = "ok"]
    \/ /\ ~users'[u].active
       /\ sess' = sess
       /\ reply' = [reply EXCEPT ![i] = "unauthorized"]

Taken_ById(a) == FALSE
\* The filtered unique index UX_DIMSAdminUsers_GoogleId_Active.
Taken(a) == \E u \in RowsOf(a) : LiveUser(u)

\* Refresh the row that was found or, if there was none, create one.
Upsert(i, u) ==
    /\ pc[i] = "upsert"
    /\ \/ /\ found[i] # NoUser
          /\ u = found[i]
          /\ users' = users
          /\ Decide(i, u)
          /\ Goto(i, "audit")
          /\ due' = due
       \/ /\ found[i] = NoUser
          /\ ~Taken(op[i].account)
          /\ u \notin DOMAIN users
          /\ users' = [v \in DOMAIN users \cup {u} |->
                          IF v = u THEN [google |-> op[i].account, active |-> TRUE,
                                         deleted |-> FALSE]
                          ELSE users[v]]
          /\ Decide(i, u)
          /\ Goto(i, "audit")
          /\ due' = due
       \/ /\ found[i] = NoUser
          /\ Taken(op[i].account)
          /\ users' = users
          /\ Finish(i, "error", sess[i])
    /\ found' = [found EXCEPT ![i] = NoUser]
    /\ UNCHANGED <<op, sessions, audited, background>>

\* writeAudit outside a transaction; an error is swallowed.
Audit(i) ==
    /\ pc[i] = "audit"
    /\ audited' \in {audited \cup {i}} \cup (IF "audit" \in Faults THEN {audited} ELSE {})
    /\ \/ op[i].kind = "signIn" /\ Finish(i, reply[i], sess[i])
       \/ op[i].kind = "signOut" /\ Begin(i, sess[i], "destroy")
    /\ UNCHANGED <<op, found, users, sessions, background>>

\* signOut waits for the deleteMany of store.destroy.
Destroy(i) ==
    /\ pc[i] = "destroy"
    /\ sessions' = Without(sessions, {sess[i].sid})
    /\ gone' = gone \cup ({sess[i].sid} \ {NoSid})
    /\ Close(i, "ok")
    /\ UNCHANGED <<op, found, users, audited, issued, burning>>

-----------------------------------------------------------------------------
(* Faults, other writers and time.                                         *)

\* A query of the handler fails.  The error response ends like any other, except
\* that there is no session to write if it was never loaded or is destroyed.
DbError(i) ==
    /\ "db" \in Faults
    /\ \/ pc[i] \in {"get", "destroy"} /\ Close(i, "error")
       \/ /\ pc[i] \in {"authenticate", "check", "commit", "find", "upsert"}
          /\ Finish(i, "error", sess[i])
    /\ found' = [found EXCEPT ![i] = NoUser]
    /\ UNCHANGED <<op, database, background>>

\* The process dies and starts again: the tables are what survives.
Crash ==
    /\ "crash" \in Faults
    /\ LET hit == {i \in Request : pc[i] \notin {"idle", "done"}} IN
       /\ pc' = [i \in Request |-> IF i \in hit THEN "done" ELSE pc[i]]
       /\ reply' = [i \in Request |-> IF i \in hit THEN "lost" ELSE reply[i]]
    /\ burning' = {}
    /\ found' = [i \in Request |-> NoUser]
    /\ UNCHANGED <<op, sess, due, database, issued, gone>>

\* Users are soft-deleted by other writers of the database; no code here does.
SoftDeleteUser(u) ==
    /\ LiveUser(u)
    /\ users' = [users EXCEPT ![u].deleted = TRUE]
    /\ UNCHANGED <<sessions, audited, background, control>>

Aged(n) == IF n > 0 THEN n - 1 ELSE 0

Tick ==
    /\ sessions' = [s \in DOMAIN sessions |-> [sessions[s] EXCEPT !.left = Aged(@)]]
    /\ due' = [i \in Request |-> Aged(due[i])]
    /\ UNCHANGED <<users, audited, background, pc, op, sess, found, reply>>

-----------------------------------------------------------------------------
Init ==
    /\ users \in UNION {[D -> UserRow] : D \in SUBSET User}
    /\ \A u, v \in DOMAIN users :
          LiveUser(u) /\ LiveUser(v) /\ u # v => users[u].google # users[v].google
    /\ sessions \in UNION {[D -> [user : DOMAIN users, left : 0..TTL]] : D \in SUBSET Sid}
    /\ audited = {}
    /\ issued = DOMAIN sessions
    /\ burning = {}
    /\ gone = {}
    /\ pc = [i \in Request |-> "idle"]
    /\ op = [i \in Request |-> NoOp]
    /\ sess = [i \in Request |-> Fresh]
    /\ found = [i \in Request |-> NoUser]
    /\ due = [i \in Request |-> 0]
    /\ reply = [i \in Request |-> "none"]

\* The request goes on from the await it is suspended at.
Continue(i) ==
    \/ GetSession(i)
    \/ Authenticate(i)
    \/ PatchCheck(i)
    \/ PatchCommit(i)
    \/ FindUser(i)
    \/ \E u \in User : Upsert(i, u)
    \/ Audit(i)
    \/ Destroy(i)
    \/ \E s \in Sid : Save(i, s)
    \/ Touch(i)

Fault ==
    \/ \E i \in Request : DbError(i) \/ WriteFails(i)
    \/ \E s \in Sid : BurnFails(s)
    \/ Crash

Next ==
    \/ \E i \in Request : (\E o \in Op : Arrive(i, o)) \/ Continue(i)
    \/ \E s \in Sid : Burn(s)
    \/ Fault
    \/ \E u \in User : SoftDeleteUser(u)
    \/ Tick

Spec == Init /\ [][Next]_vars

\* The database settles every query, and the event loop runs what waited for it;
\* a destroy() that was called runs although nobody waits for it.
Fairness ==
    /\ \A i \in Request : WF_vars(Continue(i))
    /\ \A s \in Sid : WF_vars(Burn(s))
    /\ WF_vars(Tick)

FairSpec == Spec /\ Fairness

-----------------------------------------------------------------------------
(* Properties.                                                             *)

TypeOK ==
    /\ DOMAIN users \subseteq User
    /\ users \in [DOMAIN users -> UserRow]
    /\ DOMAIN sessions \subseteq Sid
    /\ sessions \in [DOMAIN sessions -> SessionRow]
    /\ audited \subseteq Request
    /\ issued \subseteq Sid
    /\ burning \subseteq Sid
    /\ gone \subseteq Sid
    /\ pc \in [Request -> Stage]
    /\ op \in [Request -> Op]
    /\ sess \in [Request -> Session]
    /\ found \in [Request -> User \cup {NoUser}]
    /\ due \in [Request -> Nat]
    /\ reply \in [Request -> Reply]

\* A session that sign-out or authenticate destroyed stays destroyed, although
\* requests that loaded it before are still going to slide its expiry: only a
\* sign-in that writes the session brings it back.
DestroyedStaysDestroyed == gone \cap DOMAIN sessions = {}

\* No two live users have one Google account, however many first sign-ins of it
\* run at once (upsertUserOnGoogleSignIn looks before it creates).
OneLiveUserPerAccount ==
    \A u, v \in DOMAIN users :
        LiveUser(u) /\ LiveUser(v) /\ users[u].google = users[v].google => u = v

\* When the response of an accepted sign-in ends, its session has a row, unless the
\* write failed or the session was destroyed while the sign-in ran.  (express-session
\* sends all but the last byte before the write, and ends the response after it.)
SignedInHasSession ==
    [][\A i \in Request :
          /\ op[i].kind = "signIn"
          /\ pc[i] # "done" /\ pc'[i] = "done" /\ reply'[i] = "ok"
          /\ "db" \notin Faults
          => sess'[i].sid \in DOMAIN sessions' \cup gone']_vars

\* A session's user is set by a sign-in whose Google account is that user's, and by
\* nothing else: a request that loaded the session for its former user, and ends
\* after another sign-in took the session over, does not write that user back.
OnlySignInSetsUser ==
    [][\A s \in DOMAIN sessions' :
          s \notin DOMAIN sessions \/ sessions'[s].user # sessions[s].user =>
             \E i \in Request :
                /\ op[i].kind = "signIn"
                /\ sessions'[s].user \in RowsOf(op[i].account)
                /\ pc[i] = "save" /\ pc'[i] = "done"]_vars

\* A request acts as a user from the moment authenticate let it in.
Acts(i) ==
    /\ op[i].kind \in {"call", "patch"}
    /\ pc[i] \in {"check", "commit"} \/ reply[i] \in {"ok", "notFound"}

Acting == [i \in Request |-> IF Acts(i) THEN sess[i].user ELSE NoUser]
Ended == {i \in Request : pc[i] = "done"}
Held == [i \in Request |-> IF i \in Ended THEN Fresh ELSE sess[i]]
Owner == [s \in DOMAIN sessions |-> sessions[s].user]
Valid == {s \in DOMAIN sessions : sessions[s].left > 0}

L == INSTANCE Login WITH
        owner <- Owner, valid <- Valid, doomed <- burning,
        held <- Held, acting <- Acting, ended <- Ended

\* The store, express-session and the handlers implement Login, although every
\* request works on a copy of the session from its start and writes it at its end.
LoginAsPromised == L!Spec

\* "Burn the cookie so the next request hits the login flow cleanly": the session
\* of a user who is gone or deactivated is deleted although nobody waits for it.
BurnsEventually == \A s \in Sid : s \in burning ~> s \notin DOMAIN sessions

\* Every request that arrives is answered, also when the store fails to write
\* its session.
AllAnswered == \A i \in Request : pc[i] \notin {"idle", "done"} ~> pc[i] = "done"

\* What SignedInHasSession rests on: a session object with an id was loaded from a
\* row, which leaves the table only by a destroy; an object without one is new,
\* and names a user only when it is dirty.
Sound(s) ==
    /\ s.sid # NoSid => s.sid \in DOMAIN sessions \cup gone
    /\ s.user # NoUser /\ ~s.dirty => s.sid # NoSid
    /\ s.dirty => s.user # NoUser

\* Where a request is suspended says what it asks for and what its session is.
Placed(i) ==
    /\ pc[i] \in {"touch", "authenticate"} => sess[i].sid # NoSid
    /\ pc[i] = "save" => sess[i].dirty
    /\ pc[i] \in {"authenticate", "check", "commit"} => op[i].kind \in {"call", "patch"}
    /\ pc[i] \in {"find", "upsert"}
          => op[i].kind = "signIn" /\ op[i].account # NoAccount /\ ~sess[i].dirty
    /\ pc[i] = "destroy" => op[i].kind = "signOut"
    /\ pc[i] = "audit" /\ op[i].kind = "signIn" /\ reply[i] = "ok"
          => sess[i].dirty \/ sess[i].sid # NoSid

SessionInv == TypeOK /\ \A i \in Request : Sound(sess[i]) /\ Placed(i)

\* What OnlySignInSetsUser rests on: the row a sign-in found, and the user it put
\* into its session, are of its account, and rows keep their account.
Owned(i) ==
    /\ pc[i] = "upsert" /\ found[i] # NoUser => found[i] \in RowsOf(op[i].account)
    /\ sess[i].dirty => op[i].kind = "signIn" /\ sess[i].user \in RowsOf(op[i].account)

\* ----- What the repository says and the code does not do -----

\* prismaSessionStore.ts: "Expired rows are pruned lazily on read": when a call
\* was refused because the session of its cookie had expired, the row goes.
PrunedOnRead ==
    \A i \in Request :
        /\ op[i].kind = "call" /\ pc[i] = "done" /\ reply[i] = "unauthorized"
        /\ op[i].cookie \in DOMAIN sessions
        /\ ~Readable(op[i].cookie)
        ~> op[i].cookie \notin DOMAIN sessions
=============================================================================
