--------------------------------- MODULE Login ---------------------------------
(***************************************************************************)
(* What it takes to get in, without awaits, expiries or responses: a table *)
(* of sessions that are owned by users and in force or not; requests that  *)
(* bring a cookie or proof of a Google account; and the users they act as. *)
(***************************************************************************)
CONSTANTS
    User, NoUser,
    Sid, NoSid,
    Request,
    Op         \* what requests may bring

VARIABLES
    users,     \* the rows of users
    owner,     \* a function from the sessions there are to users
    valid,     \* the sessions in force
    issued,    \* the sessions that some cookie names
    doomed,    \* the sessions that are to be ended
    op,        \* what a request brought
    held,      \* the session a request works on; dirty: by a sign-in of its own
    acting,    \* the user a request acts as
    ended      \* the requests that have been answered

vars == <<users, owner, valid, issued, doomed, op, held, acting, ended>>

Nothing == [sid |-> NoSid, user |-> NoUser, dirty |-> FALSE]
LiveUser(u) == u \in DOMAIN users /\ ~users[u].deleted
ActiveUser(u) == LiveUser(u) /\ users[u].active
HasSession(i) == held[i].sid # NoSid

Init ==
    /\ valid \subseteq DOMAIN owner
    /\ issued = DOMAIN owner
    /\ doomed = {}
    /\ \A i \in Request : op[i].kind = "none"
    /\ held = [i \in Request |-> Nothing]
    /\ acting = [i \in Request |-> NoUser]
    /\ ended = {}

-----------------------------------------------------------------------------
Brings(i) ==
    /\ op[i].kind = "none"
    /\ \E o \in Op : o.cookie \in issued \cup {NoSid} /\ op' = [op EXCEPT ![i] = o]
    /\ ended' \in {ended, ended \cup {i}}
    /\ UNCHANGED <<users, owner, valid, issued, doomed, held, acting>>

\* A request gets the session its cookie names, if that is in force.
Load(i) ==
    /\ i \notin ended
    /\ held[i] = Nothing
    /\ op[i].cookie \in valid
    /\ held' = [held EXCEPT ![i] = [sid |-> op[i].cookie, user |-> owner[op[i].cookie],
                                    dirty |-> FALSE]]
    /\ UNCHANGED <<users, owner, valid, issued, doomed, op, acting, ended>>

\* It acts as the user of that session if the user is active.
Enter(i) ==
    /\ op[i].kind \in {"call", "patch"}
    /\ HasSession(i)
    /\ ActiveUser(held[i].user)
    /\ acting' = [acting EXCEPT ![i] = held[i].user]
    /\ UNCHANGED <<users, owner, valid, issued, doomed, op, held, ended>>

\* Whoever acts may activate and deactivate users.
Switch(i) ==
    /\ op[i].kind = "patch" /\ acting[i] # NoUser
    /\ LiveUser(op[i].target)
    /\ \E b \in BOOLEAN : users' = [users EXCEPT ![op[i].target].active = b]
    /\ UNCHANGED <<owner, valid, issued, doomed, op, held, acting, ended>>

\* A sign-in is for a user of the account it proved, who need not be there before.
Prove(i) ==
    /\ i \notin ended
    /\ op[i].kind = "signIn" /\ ~held[i].dirty
    /\ \E u \in User :
          /\ \/ users' = users
             \/ /\ u \notin DOMAIN users
                /\ \A v \in DOMAIN users : LiveUser(v) => users[v].google # op[i].account
                /\ users' = [v \in DOMAIN users \cup {u} |->
                                IF v = u THEN [google |-> op[i].account, active |-> TRUE,
                                               deleted |-> FALSE]
                                ELSE users[v]]
          /\ u \in DOMAIN users' /\ users'[u].google = op[i].account /\ users'[u].active
          /\ held' = [held EXCEPT ![i] = [sid |-> held[i].sid, user |-> u,
                                          dirty |-> held[i].user # u]]
    /\ UNCHANGED <<owner, valid, issued, doomed, op, acting, ended>>

-----------------------------------------------------------------------------
(* A request ends, and may leave a trace in the table.                     *)

Leaves(i) ==
    /\ ended' = ended \cup {i}
    /\ held' = [held EXCEPT ![i] = Nothing]

\* Only a sign-in gives a session to a user: the one it came with, or a new one.
Write(i) ==
    /\ held[i].dirty
    /\ \E s \in Sid :
          /\ IF HasSession(i) THEN s = held[i].sid ELSE s \notin issued
          /\ owner' = [t \in DOMAIN owner \cup {s} |->
                          IF t = s THEN held[i].user ELSE owner[t]]
          /\ valid' \in {valid \cup {s}, valid \ {s}}
          /\ issued' = issued \cup {s}
    /\ Leaves(i)
    /\ UNCHANGED <<users, doomed, op, acting>>

\* Only who got a session while it was in force prolongs it, and only while it is
\* there: an answer that took too long leaves it expired.
Prolong(i) ==
    /\ ~held[i].dirty /\ held[i].sid \in DOMAIN owner
    /\ valid' \in {valid \cup {held[i].sid}, valid \ {held[i].sid}}
    /\ Leaves(i)
    /\ UNCHANGED <<users, owner, issued, doomed, op, acting>>

Gone(s) ==
    /\ owner' = [t \in DOMAIN owner \ {s} |-> owner[t]]
    /\ valid' = valid \ {s}

SignOut(i) ==
    /\ op[i].kind = "signOut"
    /\ Gone(held[i].sid)
    /\ Leaves(i)
    /\ UNCHANGED <<users, issued, doomed, op, acting>>

\* A session is ended for its user only if the user is not active.
Doom(i) ==
    /\ HasSession(i) /\ ~ActiveUser(held[i].user)
    /\ doomed' = doomed \cup {held[i].sid}
    /\ Leaves(i)
    /\ UNCHANGED <<users, owner, valid, issued, op, acting>>

\* Nothing is left of a request that is refused or fails, or of all of them if the
\* process dies; what was to be ended may be forgotten.
Release ==
    /\ ended \subseteq ended'
    /\ held' = [i \in Request |-> IF i \in ended' THEN Nothing ELSE held[i]]
    /\ acting' \in [Request -> User \cup {NoUser}]
    /\ \A i \in Request : acting'[i] \in {acting[i], NoUser}
    /\ doomed' \subseteq doomed
    /\ UNCHANGED <<users, owner, valid, issued, op>>

-----------------------------------------------------------------------------
End(s) ==
    /\ s \in doomed
    /\ Gone(s)
    /\ doomed' = doomed \ {s}
    /\ UNCHANGED <<users, issued, op, held, acting, ended>>

Expire ==
    /\ valid' \subseteq valid
    /\ UNCHANGED <<users, owner, issued, doomed, op, held, acting, ended>>

SoftDeleteUser ==
    /\ \E u \in DOMAIN users : users' = [users EXCEPT ![u].deleted = TRUE]
    /\ UNCHANGED <<owner, valid, issued, doomed, op, held, acting, ended>>

Next ==
    \/ \E i \in Request :
          \/ Brings(i) \/ Load(i) \/ Enter(i) \/ Switch(i) \/ Prove(i)
          \/ Write(i) \/ Prolong(i) \/ SignOut(i) \/ Doom(i)
    \/ \E s \in Sid : End(s)
    \/ Release
    \/ Expire
    \/ SoftDeleteUser

Spec == Init /\ [][Next]_vars
=============================================================================
