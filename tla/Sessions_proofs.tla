---------------------------- MODULE Sessions_proofs ----------------------------
(***************************************************************************)
(* Theorems about Sessions.  SessionInv carries the types and what ties the *)
(* session object of a request to the rows of the store.                   *)
(***************************************************************************)
EXTENDS Sessions, TLAPS

-----------------------------------------------------------------------------
(* Types.                                                                  *)

LEMMA OpFields ==
  ASSUME NEW o \in Op
  PROVE  /\ o.cookie \in Sid \cup {NoSid}
         /\ o.kind = "patch" => o.target \in User
         /\ o.kind = "signIn" => o.account \in Account \cup {NoAccount}
  BY DEF Op, CallOp, SignInOp, PatchOp, NoOp

TableTypes ==
    /\ DOMAIN users \subseteq User
    /\ users \in [DOMAIN users -> UserRow]
    /\ DOMAIN sessions \subseteq Sid
    /\ sessions \in [DOMAIN sessions -> SessionRow]
    /\ audited \subseteq Request

SetTypes == issued \subseteq Sid /\ burning \subseteq Sid /\ gone \subseteq Sid

ControlTypes ==
    /\ pc \in [Request -> Stage]
    /\ op \in [Request -> Op]
    /\ sess \in [Request -> Session]
    /\ found \in [Request -> User \cup {NoUser}]
    /\ due \in [Request -> Nat]
    /\ reply \in [Request -> Reply]

LEMMA TypeGroups ==
  /\ TypeOK <=> TableTypes /\ SetTypes /\ ControlTypes
  /\ TypeOK' <=> TableTypes' /\ SetTypes' /\ ControlTypes'
  BY DEF TypeOK, TableTypes, SetTypes, ControlTypes

\* A step writes the local of a sign-in and what the request asks for, beside
\* what Finish, Begin and Close write.
LocalTypes == op' \in [Request -> Op] /\ found' \in [Request -> User \cup {NoUser}]

LEMMA FinishType ==
  ASSUME ControlTypes, LocalTypes, NEW i \in Request, NEW code \in Reply, NEW s \in Session,
         Finish(i, code, s)
  PROVE  ControlTypes'
  BY SessionAssumption DEF ControlTypes, LocalTypes, Finish, Goto, Stage

LEMMA BeginType ==
  ASSUME ControlTypes, LocalTypes, NEW i \in Request, NEW stage \in Stage, NEW s \in Session,
         Begin(i, s, stage)
  PROVE  ControlTypes'
  BY DEF ControlTypes, LocalTypes, Begin, Goto

LEMMA CloseType ==
  ASSUME ControlTypes, LocalTypes, NEW i \in Request, NEW code \in Reply, Close(i, code)
  PROVE  ControlTypes'
  BY DEF ControlTypes, LocalTypes, Close, Goto, Stage

LEMMA FreshType == Fresh \in Session
  BY DEF Fresh, Session

LEMMA ServeType ==
  ASSUME ControlTypes, LocalTypes, NEW i \in Request, NEW o, NEW s \in Session,
         Serve(i, o, s)
  PROVE  ControlTypes'
  <1>1. ASSUME NEW code \in Reply, Finish(i, code, s) PROVE ControlTypes'
    BY <1>1, FinishType
  <1>2. ASSUME NEW stage \in Stage, Begin(i, s, stage) PROVE ControlTypes'
    BY <1>2, BeginType
  <1>3. "unauthorized" \in Reply /\ {"authenticate", "find", "audit"} \subseteq Stage
    BY DEF Reply, Stage
  <1> QED
    BY <1>1, <1>2, <1>3 DEF Serve

LEMMA TypeInit == Init => TypeOK
  BY DEF Init, TypeOK, UserRow, SessionRow, Fresh, Session, Op, NoOp, Stage, Reply

LEMMA TypeArrive ==
  ASSUME TypeOK, NEW i \in Request, NEW o \in Op, Arrive(i, o)
  PROVE  TypeOK'
  <1>1. ControlTypes /\ LocalTypes
    BY TypeGroups DEF Arrive, ControlTypes, LocalTypes
  <1>2. ControlTypes'
    BY <1>1, ServeType, BeginType, FreshType DEF Arrive, Stage
  <1> QED
    BY <1>2, TypeGroups DEF Arrive, database, background, TableTypes, SetTypes

\* A step that keeps what a request asks for, and writes at most "no user" to the
\* local of a sign-in.
LEMMA LocalsKept ==
  ASSUME ControlTypes, op' = op,
         \/ found' = found
         \/ \E i \in Request : found' = [found EXCEPT ![i] = NoUser]
         \/ found' = [i \in Request |-> NoUser]
  PROVE  LocalTypes
  BY DEF ControlTypes, LocalTypes

LEMMA ControlAt ==
  ASSUME ControlTypes, NEW i \in Request
  PROVE  sess[i] \in Session /\ op[i] \in Op /\ reply[i] \in Reply
         /\ found[i] \in User \cup {NoUser} /\ due[i] \in Nat
  BY DEF ControlTypes

LEMMA Literals ==
  /\ {"ok", "unauthorized", "notFound", "error", "lost"} \subseteq Reply
  /\ {"authenticate", "check", "commit", "find", "upsert", "audit", "destroy", "done"}
        \subseteq Stage
  BY DEF Reply, Stage

LEMMA TypeGetSession ==
  ASSUME TypeOK, NEW i \in Request, GetSession(i)
  PROVE  TypeOK'
  <1> DEFINE s == op[i].cookie
  <1>1. TableTypes /\ SetTypes /\ ControlTypes
    BY TypeGroups
  <1>2. LocalTypes
    BY <1>1, LocalsKept DEF GetSession
  <1>3. op[i] \in Op
    BY <1>1, ControlAt
  <1>4. ASSUME Readable(s)
        PROVE  [sid |-> s, user |-> sessions[s].user, dirty |-> FALSE] \in Session
    <2>1. sessions[s] \in SessionRow /\ s \in Sid
      BY <1>1, <1>4 DEF Readable, TableTypes
    <2> QED
      BY <2>1 DEF SessionRow, Session
  <1> DEFINE t == IF Readable(s)
                  THEN [sid |-> s, user |-> sessions[s].user, dirty |-> FALSE] ELSE Fresh
  <1>5. t \in Session
    BY <1>4, FreshType
  <1>6. Serve(i, op[i], t)
    BY DEF GetSession
  <1>7. ControlTypes'
    BY <1>1, <1>2, <1>5, <1>6, ServeType
  <1> QED
    BY <1>1, <1>7, TypeGroups DEF GetSession, database, background, TableTypes, SetTypes

LEMMA TypeAuthenticate ==
  ASSUME TypeOK, NEW i \in Request, Placed(i), Authenticate(i)
  PROVE  TypeOK'
  <1>1. TableTypes /\ SetTypes /\ ControlTypes
    BY TypeGroups
  <1>2. LocalTypes
    BY <1>1, LocalsKept DEF Authenticate
  <1>3. sess[i] \in Session
    BY <1>1, ControlAt
  <1>4. ControlTypes'
    BY <1>1, <1>2, <1>3, Literals, CloseType, FinishType, BeginType DEF Authenticate
  <1>5. SetTypes'
    <2>1. sess[i].sid \in Sid
      BY <1>3 DEF Authenticate, Placed, Session
    <2> QED
      BY <1>1, <2>1 DEF Authenticate, SetTypes
  <1> QED
    BY <1>1, <1>4, <1>5, TypeGroups DEF Authenticate, database, TableTypes

\* What PATCH writes to isActive is a Boolean.
LEMMA PatchedRow ==
  ASSUME TableTypes, NEW u \in DOMAIN users, NEW want,
         users' = [users EXCEPT ![u].active = IF want = "same" THEN @ ELSE want = "on"]
  PROVE  /\ DOMAIN users' = DOMAIN users
         /\ users' \in [DOMAIN users -> UserRow]
         /\ \A v \in DOMAIN users : /\ users'[v].google = users[v].google
                                    /\ users'[v].deleted = users[v].deleted
  <1> DEFINE b == IF want = "same" THEN users[u].active ELSE want = "on"
  <1>1. users[u] \in UserRow
    BY DEF TableTypes
  <1>2. users[u].active \in BOOLEAN
    BY <1>1 DEF UserRow
  <1>3. (want = "on") \in BOOLEAN
    BY Zenon
  <1>4. b \in BOOLEAN
    BY <1>2, <1>3, Zenon
  <1>5. users' = [users EXCEPT ![u].active = b]
    OBVIOUS
  <1> HIDE DEF b
  <1>6. [users[u] EXCEPT !.active = b] \in UserRow
    BY <1>1, <1>4 DEF UserRow
  <1>7. users' = [users EXCEPT ![u] = [users[u] EXCEPT !.active = b]]
    BY <1>5
  <1>8. \A v \in DOMAIN users : users[v] \in UserRow
    BY DEF TableTypes
  <1> QED
    BY <1>1, <1>4, <1>6, <1>7, <1>8 DEF TableTypes, UserRow

LEMMA TypePatch ==
  ASSUME TypeOK, NEW i \in Request, PatchCheck(i) \/ PatchCommit(i)
  PROVE  TypeOK'
  <1>1. TableTypes /\ SetTypes /\ ControlTypes
    BY TypeGroups
  <1>2. LocalTypes
    BY <1>1, LocalsKept DEF PatchCheck, PatchCommit
  <1>3. sess[i] \in Session
    BY <1>1, ControlAt
  <1>4. ControlTypes'
    BY <1>1, <1>2, <1>3, Literals, FinishType, BeginType DEF PatchCheck, PatchCommit
  <1>5. audited' \subseteq Request /\ sessions' = sessions
    BY <1>1 DEF PatchCheck, PatchCommit, TableTypes, database
  <1>6. users' = users \/ (DOMAIN users' = DOMAIN users /\ users' \in [DOMAIN users -> UserRow])
    BY <1>1, PatchedRow DEF PatchCheck, PatchCommit, LiveUser, database
  <1>7. TableTypes'
    BY <1>1, <1>5, <1>6 DEF TableTypes
  <1>8. SetTypes'
    BY <1>1 DEF PatchCheck, PatchCommit, SetTypes, background
  <1> QED
    BY <1>4, <1>7, <1>8, TypeGroups

LEMMA TypeFindUser ==
  ASSUME TypeOK, NEW i \in Request, FindUser(i)
  PROVE  TypeOK'
  <1>1. TableTypes /\ SetTypes /\ ControlTypes
    BY TypeGroups
  <1>2. LocalTypes
    <2>1. RowsOf(op[i].account) \subseteq User
      BY <1>1 DEF RowsOf, TableTypes
    <2> QED
      BY <1>1, <2>1 DEF FindUser, LocalTypes, ControlTypes
  <1>3. sess[i] \in Session
    BY <1>1, ControlAt
  <1>4. ControlTypes'
    BY <1>1, <1>2, <1>3, Literals, BeginType DEF FindUser
  <1> QED
    BY <1>1, <1>4, TypeGroups DEF FindUser, database, background, TableTypes, SetTypes

LEMMA TypeSignedIn ==
  ASSUME NEW s \in Session, NEW u \in User
  PROVE  SignedIn(s, u) \in Session
  BY DEF SignedIn, Session

LEMMA TypeUpsert ==
  ASSUME TypeOK, NEW i \in Request, Placed(i), NEW u \in User, Upsert(i, u)
  PROVE  TypeOK'
  <1>1. TableTypes /\ SetTypes /\ ControlTypes
    BY TypeGroups
  <1>2. LocalTypes
    BY <1>1, LocalsKept DEF Upsert
  <1>3. sess[i] \in Session
    BY <1>1, ControlAt
  <1>4. ASSUME Decide(i, u), Goto(i, "audit"), due' = due
        PROVE  ControlTypes'
    BY <1>1, <1>2, <1>3, <1>4, Literals, TypeSignedIn DEF Decide, Goto, ControlTypes, LocalTypes
  <1>5. ControlTypes'
    BY <1>1, <1>2, <1>3, <1>4, Literals, FinishType DEF Upsert
  <1>6. op[i].account \in Account
    BY <1>1, ControlAt, OpFields DEF Placed, Upsert
  <1>7. TableTypes'
    <2>1. [google |-> op[i].account, active |-> TRUE, deleted |-> FALSE] \in UserRow
      BY <1>6 DEF UserRow
    <2> QED
      BY <1>1, <2>1 DEF Upsert, TableTypes
  <1> QED
    BY <1>1, <1>5, <1>7, TypeGroups DEF Upsert, background, SetTypes

LEMMA TypeAudit ==
  ASSUME TypeOK, NEW i \in Request, Audit(i)
  PROVE  TypeOK'
  <1>1. TableTypes /\ SetTypes /\ ControlTypes
    BY TypeGroups
  <1>2. LocalTypes
    BY <1>1, LocalsKept DEF Audit
  <1>3. sess[i] \in Session /\ reply[i] \in Reply
    BY <1>1, ControlAt
  <1>4. ControlTypes'
    BY <1>1, <1>2, <1>3, Literals, FinishType, BeginType DEF Audit
  <1>5. TableTypes'
    BY <1>1 DEF Audit, TableTypes
  <1> QED
    BY <1>1, <1>4, <1>5, TypeGroups DEF Audit, background, SetTypes

\* The writes of the store.
LEMMA TypeStore ==
  ASSUME TypeOK, NEW i \in Request, Sound(sess[i]), Placed(i),
         \/ \E s \in Sid : Save(i, s)
         \/ Touch(i) \/ WriteFails(i) \/ Destroy(i)
  PROVE  TypeOK'
  <1>1. TableTypes /\ SetTypes /\ ControlTypes
    BY TypeGroups
  <1>2. sess[i] \in Session /\ due[i] \in Nat
    BY <1>1, ControlAt
  <1>3. ASSUME NEW s \in Sid, Save(i, s) PROVE TypeOK'
    <2>1. [user |-> sess[i].user, left |-> due[i]] \in SessionRow
      BY <1>2, <1>3 DEF Save, Sound, Placed, SessionRow, Session
    <2>2. TableTypes' /\ SetTypes'
      BY <1>1, <1>3, <2>1 DEF Save, TableTypes, SetTypes
    <2>3. [sess[i] EXCEPT !.sid = s] \in Session
      BY <1>2 DEF Session
    <2>4. sess' = [sess EXCEPT ![i] = [sess[i] EXCEPT !.sid = s]]
      BY <1>3 DEF Save
    <2>5. ControlTypes'
      BY <1>1, <1>3, <2>3, <2>4, Literals DEF Save, ControlTypes, Goto
    <2> QED
      BY <2>2, <2>5, TypeGroups
  <1>4. ASSUME Touch(i) PROVE TypeOK'
    <2>1. \A t \in DOMAIN sessions : [sessions[t] EXCEPT !.left = due[i]] \in SessionRow
      BY <1>1, <1>2 DEF TableTypes, SessionRow
    <2>2. TableTypes' /\ SetTypes'
      BY <1>1, <1>4, <2>1 DEF Touch, TableTypes, SetTypes, background
    <2>3. ControlTypes'
      BY <1>1, <1>4, Literals DEF Touch, ControlTypes, Goto
    <2> QED
      BY <2>2, <2>3, TypeGroups
  <1>5. ASSUME WriteFails(i) PROVE TypeOK'
    <2>1. ControlTypes'
      BY <1>1, <1>5, Literals DEF WriteFails, ControlTypes, Goto
    <2> QED
      BY <1>1, <1>5, <2>1, TypeGroups
      DEF WriteFails, TableTypes, SetTypes, database, background
  <1>6. ASSUME Destroy(i) PROVE TypeOK'
    <2>1. LocalTypes
      BY <1>1, <1>6, LocalsKept DEF Destroy
    <2>2. ControlTypes'
      BY <1>1, <1>6, <2>1, Literals, CloseType DEF Destroy
    <2>3. TableTypes' /\ SetTypes'
      BY <1>1, <1>2, <1>6 DEF Destroy, TableTypes, SetTypes, Without, Session
    <2> QED
      BY <2>2, <2>3, TypeGroups
  <1> QED
    BY <1>3, <1>4, <1>5, <1>6

LEMMA TypeDbError ==
  ASSUME TypeOK, NEW i \in Request, DbError(i)
  PROVE  TypeOK'
  <1>1. TableTypes /\ SetTypes /\ ControlTypes
    BY TypeGroups
  <1>2. LocalTypes
    BY <1>1, LocalsKept DEF DbError
  <1>3. sess[i] \in Session
    BY <1>1, ControlAt
  <1>4. ControlTypes'
    BY <1>1, <1>2, <1>3, Literals, CloseType, FinishType DEF DbError
  <1> QED
    BY <1>1, <1>4, TypeGroups DEF DbError, database, background, TableTypes, SetTypes

\* The steps that are no request's own.
LEMMA TypeBackground ==
  ASSUME TypeOK,
         \/ \E s \in Sid : Burn(s) \/ BurnFails(s)
         \/ Crash
         \/ \E u \in User : SoftDeleteUser(u)
         \/ Tick
  PROVE  TypeOK'
  <1>1. TableTypes /\ SetTypes /\ ControlTypes
    BY TypeGroups
  <1>2. ASSUME NEW s \in Sid, Burn(s) PROVE TypeOK'
    BY <1>1, <1>2, TypeGroups
    DEF Burn, Without, control, TableTypes, SetTypes, ControlTypes
  <1>3. ASSUME NEW s \in Sid, BurnFails(s) PROVE TypeOK'
    BY <1>1, <1>3, TypeGroups
    DEF BurnFails, control, database, TableTypes, SetTypes, ControlTypes
  <1>4. ASSUME Crash PROVE TypeOK'
    <2>1. pc' \in [Request -> Stage] /\ reply' \in [Request -> Reply]
      BY <1>1, <1>4, Literals DEF Crash, ControlTypes
    <2>2. ControlTypes'
      BY <1>1, <1>4, <2>1 DEF Crash, ControlTypes
    <2> QED
      BY <1>1, <1>4, <2>2, TypeGroups DEF Crash, database, TableTypes, SetTypes
  <1>5. ASSUME NEW u \in User, SoftDeleteUser(u) PROVE TypeOK'
    <2>1. [users[u] EXCEPT !.deleted = TRUE] \in UserRow
      BY <1>1, <1>5 DEF SoftDeleteUser, LiveUser, TableTypes, UserRow
    <2>2. users' = [users EXCEPT ![u] = [users[u] EXCEPT !.deleted = TRUE]]
      BY <1>5 DEF SoftDeleteUser
    <2>3. TableTypes'
      BY <1>1, <1>5, <2>1, <2>2 DEF SoftDeleteUser, TableTypes
    <2> QED
      BY <1>1, <1>5, <2>3, TypeGroups
      DEF SoftDeleteUser, background, control, SetTypes, ControlTypes
  <1>6. ASSUME Tick PROVE TypeOK'
    <2>1. \A n \in Nat : Aged(n) \in Nat
      BY DEF Aged
    <2>2. \A s \in DOMAIN sessions :
             [sessions[s] EXCEPT !.left = Aged(sessions[s].left)] \in SessionRow
      BY <1>1, <2>1 DEF TableTypes, SessionRow
    <2>3. TableTypes'
      BY <1>1, <1>6, <2>2 DEF Tick, TableTypes
    <2>4. due' \in [Request -> Nat]
      BY <1>1, <1>6, <2>1 DEF Tick, ControlTypes
    <2>5. ControlTypes'
      BY <1>1, <1>6, <2>4 DEF Tick, ControlTypes
    <2> QED
      BY <1>1, <1>6, <2>3, <2>5, TypeGroups DEF Tick, background, SetTypes
  <1> QED
    BY <1>2, <1>3, <1>4, <1>5, <1>6

\* Every step keeps the types where the session objects are sound.
LEMMA TypeNext ==
  ASSUME SessionInv, [Next]_vars
  PROVE  TypeOK'
  <1>1. TypeOK /\ \A i \in Request : Sound(sess[i]) /\ Placed(i)
    BY DEF SessionInv
  <1>2. ASSUME NEW i \in Request, Continue(i) PROVE TypeOK'
    BY <1>1, <1>2, TypeGetSession, TypeAuthenticate, TypePatch, TypeFindUser, TypeUpsert,
       TypeAudit, TypeStore DEF Continue
  <1>3. ASSUME Fault PROVE TypeOK'
    BY <1>1, <1>3, TypeDbError, TypeStore, TypeBackground DEF Fault
  <1>4. CASE UNCHANGED vars
    BY <1>1, <1>4 DEF vars, database, background, control, TypeOK
  <1> QED
    BY <1>1, <1>2, <1>3, <1>4, TypeArrive, TypeBackground DEF Next

-----------------------------------------------------------------------------
(* Destroyed sessions, and the rows of an account.                         *)

\* Only Save, Touch, Burn, Destroy and the clock write the session table.
LEMMA SessionsWritten ==
  ASSUME [Next]_vars
  PROVE  \/ \E i \in Request, s \in Sid : Save(i, s)
         \/ \E i \in Request : Touch(i) \/ Destroy(i)
         \/ \E s \in Sid : Burn(s)
         \/ Tick
         \/ UNCHANGED <<sessions, gone>>
  <1>1. ASSUME NEW i \in Request, Continue(i)
        PROVE  \/ \E s \in Sid : Save(i, s)
               \/ Touch(i) \/ Destroy(i)
               \/ UNCHANGED <<sessions, gone>>
    BY <1>1 DEF Continue, GetSession, Authenticate, PatchCheck, PatchCommit, FindUser,
       Upsert, Audit, database, background
  <1>2. ASSUME NEW i \in Request, NEW o \in Op, Arrive(i, o)
        PROVE  UNCHANGED <<sessions, gone>>
    BY <1>2 DEF Arrive, database, background
  <1>3. Fault => UNCHANGED <<sessions, gone>>
    BY DEF Fault, DbError, WriteFails, BurnFails, Crash, database, background
  <1>4. ASSUME NEW u \in User, SoftDeleteUser(u) PROVE UNCHANGED <<sessions, gone>>
    BY <1>4 DEF SoftDeleteUser, background
  <1> QED
    BY <1>1, <1>2, <1>3, <1>4 DEF Next, vars, database, background

\* However requests interleave, fail or are cut off, a destroyed session comes
\* back only when a sign-in saves it: sliding an expiry cannot create a row.
THEOREM DestroyedCorrect == Spec => []DestroyedStaysDestroyed
  <1>1. Init => DestroyedStaysDestroyed
    BY DEF Init, DestroyedStaysDestroyed
  <1>2. DestroyedStaysDestroyed /\ [Next]_vars => DestroyedStaysDestroyed'
    <2> SUFFICES ASSUME DestroyedStaysDestroyed, [Next]_vars
                 PROVE  DestroyedStaysDestroyed'
      OBVIOUS
    <2> USE DEF DestroyedStaysDestroyed
    <2>1. ASSUME NEW i \in Request, NEW s \in Sid, Save(i, s) PROVE DestroyedStaysDestroyed'
      BY <2>1 DEF Save
    <2>2. ASSUME NEW i \in Request, Touch(i) PROVE DestroyedStaysDestroyed'
      BY <2>2 DEF Touch, background
    <2>3. ASSUME NEW i \in Request, Destroy(i) PROVE DestroyedStaysDestroyed'
      BY <2>3 DEF Destroy, Without
    <2>4. ASSUME NEW s \in Sid, Burn(s) PROVE DestroyedStaysDestroyed'
      BY <2>4 DEF Burn, Without
    <2>5. CASE Tick
      BY <2>5 DEF Tick, background
    <2>6. CASE UNCHANGED <<sessions, gone>>
      BY <2>6
    <2> QED
      BY <2>1, <2>2, <2>3, <2>4, <2>5, <2>6, SessionsWritten
  <1> QED
    BY <1>1, <1>2, PTL DEF Spec

-----------------------------------------------------------------------------
(* Session objects.                                                        *)

\* A session object that was sound stays sound while it is kept: a row leaves the
\* table only by a destroy.
LEMMA SoundKept ==
  ASSUME TypeOK, [Next]_vars, NEW s, Sound(s)
  PROVE  Sound(s)'
  <1>1. DOMAIN sessions \cup gone \subseteq DOMAIN sessions' \cup gone'
    <2>1. ASSUME NEW i \in Request, NEW t \in Sid, Save(i, t)
          PROVE  DOMAIN sessions \cup gone \subseteq DOMAIN sessions' \cup gone'
      BY <2>1 DEF Save
    <2>2. ASSUME NEW i \in Request, Touch(i) \/ Destroy(i)
          PROVE  DOMAIN sessions \cup gone \subseteq DOMAIN sessions' \cup gone'
      BY <2>2, SessionAssumption DEF Touch, Destroy, Without, background, TypeOK
    <2>3. ASSUME NEW t \in Sid, Burn(t)
          PROVE  DOMAIN sessions \cup gone \subseteq DOMAIN sessions' \cup gone'
      BY <2>3 DEF Burn, Without
    <2>4. Tick => DOMAIN sessions' = DOMAIN sessions /\ gone' = gone
      BY DEF Tick, background
    <2> QED
      BY <2>1, <2>2, <2>3, <2>4, SessionsWritten
  <1> QED
    BY <1>1 DEF Sound

\* Of every request but the one that takes a step nothing changes.
LEMMA Others ==
  ASSUME TypeOK, NEW i \in Request,
         \/ \E o \in Op : Arrive(i, o)
         \/ Continue(i) \/ DbError(i) \/ WriteFails(i),
         NEW j \in Request, j # i
  PROVE  pc'[j] = pc[j] /\ op'[j] = op[j] /\ sess'[j] = sess[j] /\ reply'[j] = reply[j]
  <1> USE DEF Finish, Begin, Close, Goto
  <1>1. ControlTypes
    BY TypeGroups
  <1>2. ASSUME NEW o \in Op, NEW s, Serve(i, o, s)
        PROVE  pc'[j] = pc[j] /\ sess'[j] = sess[j] /\ reply'[j] = reply[j]
    BY <1>1, <1>2 DEF Serve, ControlTypes
  <1>3. ASSUME NEW o \in Op, Arrive(i, o)
        PROVE  pc'[j] = pc[j] /\ op'[j] = op[j] /\ sess'[j] = sess[j] /\ reply'[j] = reply[j]
    BY <1>1, <1>2, <1>3 DEF Arrive, ControlTypes
  <1>4. ASSUME GetSession(i)
        PROVE  pc'[j] = pc[j] /\ op'[j] = op[j] /\ sess'[j] = sess[j] /\ reply'[j] = reply[j]
    BY <1>1, <1>2, <1>4, ControlAt DEF GetSession
  <1>5. ASSUME NEW u \in User, Upsert(i, u)
        PROVE  pc'[j] = pc[j] /\ op'[j] = op[j] /\ sess'[j] = sess[j] /\ reply'[j] = reply[j]
    BY <1>1, <1>5 DEF Upsert, Decide, ControlTypes
  <1>6. ASSUME NEW s \in Sid, Save(i, s)
        PROVE  pc'[j] = pc[j] /\ op'[j] = op[j] /\ sess'[j] = sess[j] /\ reply'[j] = reply[j]
    BY <1>1, <1>6 DEF Save, ControlTypes
  <1>7. ASSUME \/ Authenticate(i) \/ PatchCheck(i) \/ PatchCommit(i) \/ FindUser(i)
               \/ Audit(i) \/ Destroy(i) \/ Touch(i) \/ DbError(i) \/ WriteFails(i)
        PROVE  pc'[j] = pc[j] /\ op'[j] = op[j] /\ sess'[j] = sess[j] /\ reply'[j] = reply[j]
    BY <1>1, <1>7 DEF Authenticate, PatchCheck, PatchCommit, FindUser, Audit, Destroy, Touch,
       DbError, WriteFails, ControlTypes
  <1> QED
    BY <1>3, <1>4, <1>5, <1>6, <1>7 DEF Continue

\* Where the parts that handlers are made of leave a request.
LEMMA FinishPlaced ==
  ASSUME ControlTypes, NEW i \in Request, NEW code, NEW s, Finish(i, code, s)
  PROVE  Placed(i)' /\ sess'[i] = s
  BY DEF ControlTypes, Finish, Goto, Placed

LEMMA ClosePlaced ==
  ASSUME ControlTypes, NEW i \in Request, NEW code, Close(i, code)
  PROVE  Placed(i)' /\ sess'[i] = sess[i]
  BY DEF ControlTypes, Close, Goto, Placed

LEMMA BeginEffect ==
  ASSUME ControlTypes, NEW i \in Request, NEW s, NEW stage, Begin(i, s, stage)
  PROVE  pc'[i] = stage /\ sess'[i] = s /\ reply' = reply
  BY DEF ControlTypes, Begin, Goto

\* Serve gets a session object that is new or was loaded from a row.
LEMMA ServePlaced ==
  ASSUME ControlTypes, NEW i \in Request, NEW o \in Op, op'[i] = o, NEW s, Serve(i, o, s),
         s.user # NoUser => s.sid # NoSid, ~s.dirty
  PROVE  Placed(i)' /\ sess'[i] = s
  <1>1. ASSUME NEW code, Finish(i, code, s) PROVE Placed(i)' /\ sess'[i] = s
    BY <1>1, FinishPlaced
  <1>2. ASSUME o.kind \in {"call", "patch"}, s.user # NoUser, Begin(i, s, "authenticate")
        PROVE  Placed(i)' /\ sess'[i] = s
    BY <1>2, BeginEffect DEF Placed
  <1>3. ASSUME o.kind = "signIn", o.account # NoAccount, Begin(i, s, "find")
        PROVE  Placed(i)' /\ sess'[i] = s
    BY <1>3, BeginEffect DEF Placed
  <1>4. ASSUME o.kind = "signOut", Begin(i, s, "audit")
        PROVE  Placed(i)' /\ sess'[i] = s
    BY <1>4, BeginEffect DEF Placed
  <1> QED
    BY <1>1, <1>2, <1>3, <1>4 DEF Serve

\* A step of a request leaves its session object sound and places it.
LEMMA OwnStep ==
  ASSUME SessionInv, [Next]_vars, NEW i \in Request,
         \/ \E o \in Op : Arrive(i, o)
         \/ Continue(i) \/ DbError(i) \/ WriteFails(i)
  PROVE  Sound(sess[i])' /\ Placed(i)'
  <1>1. TypeOK /\ Sound(sess[i]) /\ Placed(i)
    BY DEF SessionInv
  <1>2. ControlTypes /\ TableTypes
    BY <1>1, TypeGroups
  <1>3. sess[i] \in Session /\ op[i] \in Op
    BY <1>2, ControlAt
  <1>4. ASSUME NEW s, sess'[i] = s, Sound(s) PROVE Sound(sess[i])'
    <2>1. Sound(s)'
      BY <1>1, <1>4, SoundKept
    <2> QED
      BY <1>4, <2>1 DEF Sound
  <1>5. Sound(Fresh) /\ Fresh.user = NoUser /\ ~Fresh.dirty
    BY DEF Sound, Fresh
  <1>6. ASSUME NEW o \in Op, Arrive(i, o) PROVE Sound(sess[i])' /\ Placed(i)'
    <2>1. op'[i] = o
      BY <1>2, <1>6 DEF Arrive, ControlTypes
    <2>2. CASE o.cookie = NoSid
      BY <1>2, <1>4, <1>5, <1>6, <2>1, <2>2, ServePlaced DEF Arrive
    <2>3. CASE o.cookie # NoSid
      <3>1. pc'[i] = "get" /\ sess'[i] = Fresh
        BY <1>2, <1>6, <2>3, BeginEffect DEF Arrive
      <3> QED
        BY <1>4, <1>5, <3>1 DEF Placed
    <2> QED
      BY <2>2, <2>3
  <1>7. ASSUME GetSession(i) PROVE Sound(sess[i])' /\ Placed(i)'
    <2> DEFINE s == op[i].cookie
               t == IF Readable(s)
                    THEN [sid |-> s, user |-> sessions[s].user, dirty |-> FALSE] ELSE Fresh
    <2>1. Serve(i, op[i], t) /\ op' = op
      BY <1>7 DEF GetSession
    <2>2. Sound(t) /\ (t.user # NoUser => t.sid # NoSid) /\ ~t.dirty
      <3>1. CASE Readable(s)
        <4>1. s \in DOMAIN sessions /\ s # NoSid
          BY <1>2, <3>1, SessionAssumption DEF Readable, TableTypes
        <4> QED
          BY <3>1, <4>1 DEF Sound
      <3>2. CASE ~Readable(s)
        BY <1>5, <3>2
      <3> QED
        BY <3>1, <3>2
    <2> HIDE DEF t
    <2>3. Placed(i)' /\ sess'[i] = t
      BY <1>2, <1>3, <2>1, <2>2, ServePlaced
    <2> QED
      BY <1>4, <2>2, <2>3
  <1>8. ASSUME sess'[i] = sess[i] PROVE Sound(sess[i])'
    BY <1>1, <1>4, <1>8
  <1>9. ASSUME Authenticate(i) PROVE Sound(sess[i])' /\ Placed(i)'
    <2>1. ASSUME op[i].kind = "patch", Begin(i, sess[i], "check"), op' = op
          PROVE  Placed(i)' /\ sess'[i] = sess[i]
      BY <1>2, <2>1, BeginEffect DEF Placed
    <2> QED
      BY <1>2, <1>8, <1>9, <2>1, FinishPlaced, ClosePlaced DEF Authenticate
  <1>10. ASSUME PatchCheck(i) \/ PatchCommit(i) PROVE Sound(sess[i])' /\ Placed(i)'
    <2>1. ASSUME pc[i] = "check", Begin(i, sess[i], "commit"), op' = op
          PROVE  Placed(i)' /\ sess'[i] = sess[i]
      BY <1>1, <1>2, <2>1, BeginEffect DEF Placed
    <2> QED
      BY <1>2, <1>8, <1>10, <2>1, FinishPlaced DEF PatchCheck, PatchCommit
  <1>11. ASSUME FindUser(i) PROVE Sound(sess[i])' /\ Placed(i)'
    <2>1. pc'[i] = "upsert" /\ sess'[i] = sess[i] /\ op' = op
      BY <1>2, <1>11, BeginEffect DEF FindUser
    <2> QED
      BY <1>1, <1>8, <1>11, <2>1 DEF FindUser, Placed
  <1>12. ASSUME NEW u \in User, Upsert(i, u) PROVE Sound(sess[i])' /\ Placed(i)'
    <2>1. op' = op /\ pc[i] = "upsert" /\ ~sess[i].dirty
      BY <1>1, <1>12 DEF Upsert, Placed
    <2>2. ASSUME Decide(i, u), Goto(i, "audit")
          PROVE  Sound(sess[i])' /\ Placed(i)'
      <3>1. pc'[i] = "audit"
        BY <1>2, <2>2 DEF Goto, ControlTypes
      <3>2. CASE reply' = [reply EXCEPT ![i] = "unauthorized"] /\ sess' = sess
        BY <1>2, <1>8, <3>1, <3>2 DEF Placed, ControlTypes
      <3>3. CASE sess' = [sess EXCEPT ![i] = SignedIn(sess[i], u)]
        <4>1. sess'[i] = SignedIn(sess[i], u)
          BY <1>2, <3>3 DEF ControlTypes
        <4>2. /\ SignedIn(sess[i], u).sid = sess[i].sid
              /\ SignedIn(sess[i], u).user = u
              /\ SignedIn(sess[i], u).dirty = (sess[i].user # u)
          BY <1>3 DEF SignedIn, Session
        <4>3. u # NoUser
          BY SessionAssumption
        <4>4. Sound(SignedIn(sess[i], u))
          BY <1>1, <2>1, <4>2, <4>3 DEF Sound
        <4>5. SignedIn(sess[i], u).dirty \/ SignedIn(sess[i], u).sid # NoSid
          BY <1>1, <2>1, <4>2, <4>3 DEF Sound
        <4> QED
          BY <1>4, <3>1, <4>1, <4>4, <4>5 DEF Placed
      <3> QED
        BY <2>2, <3>2, <3>3 DEF Decide
    <2> QED
      BY <1>2, <1>8, <1>12, <2>2, FinishPlaced DEF Upsert
  <1>13. ASSUME Audit(i) PROVE Sound(sess[i])' /\ Placed(i)'
    <2>1. ASSUME op[i].kind = "signOut", Begin(i, sess[i], "destroy"), op' = op
          PROVE  Placed(i)' /\ sess'[i] = sess[i]
      BY <1>2, <2>1, BeginEffect DEF Placed
    <2> QED
      BY <1>2, <1>8, <1>13, <2>1, FinishPlaced DEF Audit
  <1>14. ASSUME NEW s \in Sid, Save(i, s) PROVE Sound(sess[i])' /\ Placed(i)'
    <2>1. sess'[i] = [sess[i] EXCEPT !.sid = s] /\ pc'[i] = "done"
      BY <1>2, <1>14 DEF Save, Goto, ControlTypes
    <2>2. /\ sess'[i].sid = s /\ s # NoSid
          /\ sess'[i].user = sess[i].user /\ sess'[i].dirty = sess[i].dirty
      BY <1>3, <2>1, SessionAssumption DEF Session
    <2>3. s \in DOMAIN sessions'
      BY <1>14 DEF Save
    <2> QED
      BY <1>1, <2>1, <2>2, <2>3 DEF Sound, Placed
  <1>15. ASSUME Touch(i) \/ WriteFails(i) PROVE Sound(sess[i])' /\ Placed(i)'
    <2>1. sess' = sess /\ pc'[i] = "done"
      BY <1>2, <1>15 DEF Touch, WriteFails, Goto, ControlTypes
    <2> QED
      BY <1>8, <2>1 DEF Placed
  <1>16. ASSUME Destroy(i) \/ DbError(i) PROVE Sound(sess[i])' /\ Placed(i)'
    BY <1>2, <1>8, <1>16, ClosePlaced, FinishPlaced DEF Destroy, DbError
  <1> QED
    BY <1>6, <1>7, <1>9, <1>10, <1>11, <1>12, <1>13, <1>14, <1>15, <1>16 DEF Continue

LEMMA SessionInvInductive ==
  /\ Init => SessionInv
  /\ SessionInv /\ [Next]_vars => SessionInv'
  <1>1. Init => SessionInv
    BY TypeInit DEF Init, SessionInv, Sound, Placed, Fresh
  <1>2. SessionInv /\ [Next]_vars => SessionInv'
    <2> SUFFICES ASSUME SessionInv, [Next]_vars
                 PROVE  SessionInv'
      OBVIOUS
    <2>1. TypeOK /\ TypeOK' /\ \A j \in Request : Sound(sess[j]) /\ Placed(j)
      BY TypeNext DEF SessionInv
    <2>2. ASSUME NEW j \in Request, pc'[j] = pc[j], op'[j] = op[j], sess'[j] = sess[j],
                 reply'[j] = reply[j]
          PROVE  Sound(sess[j])' /\ Placed(j)'
      <3>1. ASSUME NEW s, s = sess[j] PROVE Sound(s)'
        BY <2>1, <3>1, SoundKept
      <3> QED
        BY <2>1, <2>2, <3>1 DEF Sound, Placed
    <2>3. ASSUME NEW i \in Request,
                 \/ \E o \in Op : Arrive(i, o)
                 \/ Continue(i) \/ DbError(i) \/ WriteFails(i)
          PROVE  SessionInv'
      <3>1. ASSUME NEW j \in Request PROVE Sound(sess[j])' /\ Placed(j)'
        BY <2>1, <2>2, <2>3, OwnStep, Others
      <3> QED
        BY <2>1, <3>1 DEF SessionInv
    <2>4. ASSUME UNCHANGED <<pc, op, sess, reply>> PROVE SessionInv'
      BY <2>1, <2>2, <2>4 DEF SessionInv
    <2>5. CASE Crash
      <3>1. ASSUME NEW j \in Request PROVE Sound(sess[j])' /\ Placed(j)'
        <4>1. op' = op /\ sess' = sess
          BY <2>5 DEF Crash
        <4>2. CASE pc[j] \in {"idle", "done"}
          BY <2>1, <2>2, <2>5, <4>1, <4>2 DEF Crash
        <4>3. CASE pc[j] \notin {"idle", "done"}
          <5>1. pc'[j] = "done"
            BY <2>5, <4>3 DEF Crash
          <5>2. ASSUME NEW s, s = sess[j] PROVE Sound(s)'
            BY <2>1, <5>2, SoundKept
          <5> QED
            BY <4>1, <5>1, <5>2 DEF Sound, Placed
        <4> QED
          BY <4>2, <4>3
      <3> QED
        BY <2>1, <3>1 DEF SessionInv
    <2>6. ASSUME NEW s \in Sid, Burn(s) \/ BurnFails(s) PROVE SessionInv'
      BY <2>4, <2>6 DEF Burn, BurnFails, control
    <2>7. ASSUME NEW u \in User, SoftDeleteUser(u) PROVE SessionInv'
      BY <2>4, <2>7 DEF SoftDeleteUser, control
    <2>8. CASE Tick
      BY <2>4, <2>8 DEF Tick
    <2>9. CASE UNCHANGED vars
      BY <2>4, <2>9 DEF vars, control
    <2> QED
      BY <2>3, <2>5, <2>6, <2>7, <2>8, <2>9 DEF Next, Fault
  <1> QED
    BY <1>1, <1>2

\* The session objects of requests are sound at every await, whatever happens to
\* the rows they were loaded from.
THEOREM SessionsCorrect == Spec => []SessionInv
  BY SessionInvInductive, PTL DEF Spec

\* Every variable keeps its type: what the tables, the session objects and the
\* locals of the handlers can hold.
THEOREM TypeCorrect == Spec => []TypeOK
  <1>1. SessionInv => TypeOK
    BY DEF SessionInv
  <1> QED
    BY <1>1, SessionsCorrect, PTL

\* The unique index decides between first sign-ins that have all looked before
\* any of them created: an account never gets a second live user.
THEOREM AccountsCorrect == Spec => []OneLiveUserPerAccount
  <1>1. Init => OneLiveUserPerAccount
    BY DEF Init, OneLiveUserPerAccount
  <1>2. TypeOK /\ OneLiveUserPerAccount /\ [Next]_vars => OneLiveUserPerAccount'
    <2> SUFFICES ASSUME TypeOK, OneLiveUserPerAccount, [Next]_vars
                 PROVE  OneLiveUserPerAccount'
      OBVIOUS
    <2> USE DEF OneLiveUserPerAccount, LiveUser
    <2>1. ASSUME NEW i \in Request, NEW u \in User, Upsert(i, u) PROVE OneLiveUserPerAccount'
      BY <2>1 DEF Upsert, Taken, RowsOf
    <2>2. ASSUME NEW i \in Request, PatchCommit(i) PROVE OneLiveUserPerAccount'
      BY <2>2, TypeGroups, PatchedRow DEF PatchCommit
    <2>3. ASSUME NEW u \in User, SoftDeleteUser(u) PROVE OneLiveUserPerAccount'
      BY <2>3 DEF SoftDeleteUser
    <2>4. CASE UNCHANGED users
      BY <2>4
    <2>5. ASSUME NEW i \in Request, Continue(i)
          PROVE  (\E u \in User : Upsert(i, u)) \/ PatchCommit(i) \/ UNCHANGED users
      BY <2>5 DEF Continue, GetSession, Authenticate, PatchCheck, FindUser, Audit, Destroy,
         Save, Touch, database
    <2>6. ASSUME NEW i \in Request, NEW o \in Op, Arrive(i, o) PROVE UNCHANGED users
      BY <2>6 DEF Arrive, database
    <2>7. Fault => UNCHANGED users
      BY DEF Fault, DbError, WriteFails, BurnFails, Crash, database
    <2>8. ASSUME NEW s \in Sid, Burn(s) PROVE UNCHANGED users
      BY <2>8 DEF Burn
    <2>9. Tick => UNCHANGED users
      BY DEF Tick
    <2> QED
      BY <2>1, <2>2, <2>3, <2>4, <2>5, <2>6, <2>7, <2>8, <2>9 DEF Next, vars, database
  <1> QED
    BY <1>1, <1>2, TypeCorrect, PTL DEF Spec

\* An accepted sign-in is answered only when the row of its session is written, or
\* was already there and its expiry slid: the 200 is never ahead of the store.
THEOREM SignedInCorrect == Spec => SignedInHasSession
  <1>1. SessionInv /\ [Next]_vars =>
          [\A i \in Request :
             /\ op[i].kind = "signIn"
             /\ pc[i] # "done" /\ pc'[i] = "done" /\ reply'[i] = "ok"
             /\ "db" \notin Faults
             => sess'[i].sid \in DOMAIN sessions' \cup gone']_vars
    <2> SUFFICES ASSUME SessionInv, [Next]_vars, NEW i \in Request,
                        op[i].kind = "signIn", pc[i] # "done", pc'[i] = "done",
                        reply'[i] = "ok", "db" \notin Faults
                 PROVE  sess'[i].sid \in DOMAIN sessions' \cup gone'
      OBVIOUS
    <2>1. SessionInv'
      BY SessionInvInductive
    <2>2. ASSUME sess'[i].sid # NoSid
          PROVE  sess'[i].sid \in DOMAIN sessions' \cup gone'
      BY <2>1, <2>2 DEF SessionInv, Sound
    <2> SUFFICES ASSUME sess'[i].sid = NoSid
                 PROVE  FALSE
      BY <2>2
    <2>3. TypeOK /\ Sound(sess[i]) /\ Placed(i)
      BY DEF SessionInv
    <2>4. ControlTypes /\ ControlTypes' /\ sess[i] \in Session
      BY <2>1, <2>3, TypeGroups, ControlAt DEF SessionInv
    <2>5. ASSUME NEW o, NEW s, Serve(i, o, s) PROVE FALSE
      BY <2>4, <2>5 DEF Serve, Finish, Begin, Goto, ControlTypes
    <2>6. ASSUME NEW o \in Op, Arrive(i, o) PROVE FALSE
      BY <2>4, <2>5, <2>6 DEF Arrive, Begin, Goto, ControlTypes
    <2>7. ASSUME GetSession(i) PROVE FALSE
      BY <2>5, <2>7 DEF GetSession
    <2>8. ASSUME Authenticate(i) \/ PatchCheck(i) \/ PatchCommit(i) \/ Destroy(i) PROVE FALSE
      BY <2>3, <2>8 DEF Authenticate, PatchCheck, PatchCommit, Destroy, Placed
    <2>9. ASSUME FindUser(i) PROVE FALSE
      BY <2>4, <2>9 DEF FindUser, Begin, Goto, ControlTypes
    <2>10. ASSUME NEW u \in User, Upsert(i, u) PROVE FALSE
      BY <2>4, <2>10 DEF Upsert, Finish, Goto, ControlTypes
    <2>11. ASSUME Audit(i) PROVE FALSE
      BY <2>3, <2>4, <2>11 DEF Audit, Finish, Goto, ControlTypes, Placed
    <2>12. ASSUME NEW s \in Sid, Save(i, s) PROVE FALSE
      <3>1. sess'[i].sid = s
        BY <2>4, <2>12 DEF Save, ControlTypes, Session
      <3> QED
        BY <3>1, SessionAssumption
    <2>13. ASSUME Touch(i) \/ WriteFails(i) PROVE FALSE
      BY <2>3, <2>13 DEF Touch, WriteFails, Placed
    <2>14. ASSUME DbError(i) PROVE FALSE
      BY <2>14 DEF DbError
    <2>15. ASSUME Crash PROVE FALSE
      BY <2>15 DEF Crash
    <2>16. ASSUME UNCHANGED pc PROVE FALSE
      BY <2>16
    <2>17. ASSUME NEW j \in Request, j # i,
                  \/ \E o \in Op : Arrive(j, o)
                  \/ Continue(j) \/ DbError(j) \/ WriteFails(j)
           PROVE  FALSE
      BY <2>3, <2>17, Others
    <2>18. ASSUME Continue(i) PROVE FALSE
      BY <2>7, <2>8, <2>9, <2>10, <2>11, <2>12, <2>13, <2>18 DEF Continue
    <2>19. ASSUME NEW s \in Sid, Burn(s) \/ BurnFails(s) PROVE FALSE
      BY <2>16, <2>19 DEF Burn, BurnFails, control
    <2>20. ASSUME NEW u \in User, SoftDeleteUser(u) PROVE FALSE
      BY <2>16, <2>20 DEF SoftDeleteUser, control
    <2>21. Tick \/ UNCHANGED vars => UNCHANGED pc
      BY DEF Tick, vars, control
    <2>22. ASSUME NEW j \in Request,
                  \/ \E o \in Op : Arrive(j, o)
                  \/ Continue(j) \/ DbError(j) \/ WriteFails(j)
           PROVE  FALSE
      BY <2>6, <2>13, <2>14, <2>17, <2>18, <2>22
    <2> QED
      BY <2>15, <2>16, <2>19, <2>20, <2>21, <2>22 DEF Next, Fault
  <1> QED
    BY <1>1, SessionsCorrect, PTL DEF Spec, SignedInHasSession

-----------------------------------------------------------------------------
(* The user of a session.                                                  *)

\* Rows of users keep their account, whatever else is written.
LEMMA RowsKept ==
  ASSUME TypeOK, [Next]_vars, NEW a, NEW u \in RowsOf(a)
  PROVE  u \in RowsOf(a)'
  <1>1. ASSUME UNCHANGED users PROVE u \in RowsOf(a)'
    BY <1>1 DEF RowsOf
  <1>2. ASSUME NEW i \in Request, NEW v \in User, Upsert(i, v) PROVE u \in RowsOf(a)'
    BY <1>2 DEF Upsert, RowsOf
  <1>3. ASSUME NEW i \in Request, PatchCommit(i) PROVE u \in RowsOf(a)'
    BY <1>3, TypeGroups, PatchedRow DEF PatchCommit, RowsOf
  <1>4. ASSUME NEW v \in User, SoftDeleteUser(v) PROVE u \in RowsOf(a)'
    BY <1>4 DEF SoftDeleteUser, RowsOf
  <1>5. ASSUME NEW i \in Request, Continue(i)
        PROVE  (\E v \in User : Upsert(i, v)) \/ PatchCommit(i) \/ UNCHANGED users
    BY <1>5 DEF Continue, GetSession, Authenticate, PatchCheck, FindUser, Audit, Destroy,
       Save, Touch, database
  <1>6. ASSUME \/ \E i \in Request, o \in Op : Arrive(i, o)
               \/ Fault \/ Tick \/ UNCHANGED vars
               \/ \E s \in Sid : Burn(s)
        PROVE  UNCHANGED users
    BY <1>6 DEF Arrive, Fault, DbError, WriteFails, BurnFails, Crash, Burn, Tick, vars, database
  <1> QED
    BY <1>1, <1>2, <1>3, <1>4, <1>5, <1>6 DEF Next

LEMMA OwnedKept ==
  ASSUME TypeOK, [Next]_vars, NEW j \in Request, Owned(j),
         op'[j] = op[j],
         pc'[j] = "upsert" => pc[j] = "upsert" /\ found'[j] \in {found[j], NoUser},
         sess'[j].dirty => sess[j].dirty /\ sess'[j].user = sess[j].user
  PROVE  Owned(j)'
  <1>1. \A a, u : u \in RowsOf(a) => u \in RowsOf(a)'
    BY RowsKept
  <1>2. ASSUME NEW a, NEW u, u \in RowsOf(a)', NEW b, b = a PROVE u \in RowsOf(b)'
    BY <1>2
  <1>3. ASSUME pc'[j] = "upsert", found'[j] # NoUser
        PROVE  found'[j] \in RowsOf(op[j].account)'
    BY <1>1, <1>3 DEF Owned
  <1>4. ASSUME sess'[j].dirty
        PROVE  op'[j].kind = "signIn" /\ sess'[j].user \in RowsOf(op[j].account)'
    BY <1>1, <1>4 DEF Owned
  <1> QED
    BY <1>3, <1>4 DEF Owned, RowsOf

\* A step of another request leaves the local of a sign-in alone.
LEMMA FoundKept ==
  ASSUME TypeOK, NEW i \in Request,
         \/ \E o \in Op : Arrive(i, o)
         \/ Continue(i) \/ DbError(i) \/ WriteFails(i),
         NEW j \in Request, j # i
  PROVE  found'[j] = found[j]
  BY DEF TypeOK, Arrive, Continue, GetSession, Authenticate, PatchCheck, PatchCommit, FindUser,
     Upsert, Audit, Destroy, Save, Touch, DbError, WriteFails

LEMMA OwnOwned ==
  ASSUME SessionInv, [Next]_vars, NEW i \in Request, Owned(i),
         \/ \E o \in Op : Arrive(i, o)
         \/ Continue(i) \/ DbError(i) \/ WriteFails(i)
  PROVE  Owned(i)'
  <1>1. TypeOK /\ Placed(i) /\ ControlTypes
    BY TypeGroups DEF SessionInv
  <1>2. sess[i] \in Session /\ op[i] \in Op
    BY <1>1, ControlAt
  <1>3. ASSUME pc'[i] # "upsert", ~sess'[i].dirty PROVE Owned(i)'
    BY <1>3 DEF Owned
  <1>4. ASSUME pc'[i] # "upsert", sess'[i] = sess[i], op'[i] = op[i] PROVE Owned(i)'
    BY <1>1, <1>4, OwnedKept
  <1>5. ASSUME NEW code, NEW s, Finish(i, code, s)
        PROVE  pc'[i] # "upsert" /\ sess'[i] = s
    BY <1>1, <1>5 DEF Finish, Goto, ControlTypes
  <1>6. ASSUME NEW code, Close(i, code)
        PROVE  pc'[i] # "upsert" /\ sess'[i] = sess[i]
    BY <1>1, <1>6 DEF Close, Goto, ControlTypes
  <1>7. ASSUME NEW stage, NEW s, Begin(i, s, stage)
        PROVE  pc'[i] = stage /\ sess'[i] = s
    BY <1>1, <1>7 DEF Begin, Goto, ControlTypes
  <1>8. ASSUME NEW o, NEW s, Serve(i, o, s), ~s.dirty PROVE Owned(i)'
    BY <1>3, <1>5, <1>7, <1>8 DEF Serve
  <1>9. ~Fresh.dirty
    BY DEF Fresh
  <1>10. ASSUME NEW o \in Op, Arrive(i, o) PROVE Owned(i)'
    BY <1>3, <1>7, <1>8, <1>9, <1>10 DEF Arrive
  <1>11. ASSUME GetSession(i) PROVE Owned(i)'
    <2>1. ~[sid |-> op[i].cookie, user |-> sessions[op[i].cookie].user, dirty |-> FALSE].dirty
      OBVIOUS
    <2>2. CASE Readable(op[i].cookie)
      BY <1>8, <1>11, <2>1, <2>2 DEF GetSession
    <2>3. CASE ~Readable(op[i].cookie)
      BY <1>8, <1>9, <1>11, <2>3 DEF GetSession
    <2> QED
      BY <2>2, <2>3
  <1>12. ASSUME Authenticate(i) \/ PatchCheck(i) \/ PatchCommit(i) \/ Audit(i)
                \/ Destroy(i) \/ DbError(i)
         PROVE  Owned(i)'
    <2>1. op' = op
      BY <1>12 DEF Authenticate, PatchCheck, PatchCommit, Audit, Destroy, DbError
    <2>2. pc'[i] # "upsert" /\ sess'[i] = sess[i]
      BY <1>5, <1>6, <1>7, <1>12 DEF Authenticate, PatchCheck, PatchCommit, Audit, Destroy,
         DbError
    <2> QED
      BY <1>4, <2>1, <2>2
  <1>13. ASSUME FindUser(i) PROVE Owned(i)'
    <2>1. /\ op' = op /\ users' = users /\ ~sess'[i].dirty
          /\ op[i].account # NoAccount
      BY <1>1, <1>7, <1>13 DEF FindUser, Placed, database
    <2>2. found'[i] # NoUser => found'[i] \in RowsOf(op[i].account)
      BY <1>1, <1>13 DEF FindUser, ControlTypes
    <2> QED
      BY <2>1, <2>2 DEF Owned, RowsOf
  <1>14. ASSUME NEW u \in User, Upsert(i, u) PROVE Owned(i)'
    <2>1. op' = op /\ pc[i] = "upsert" /\ op[i].kind = "signIn" /\ ~sess[i].dirty
      BY <1>1, <1>14 DEF Upsert, Placed
    <2>2. ASSUME Decide(i, u), Goto(i, "audit"), u \in RowsOf(op[i].account)'
          PROVE  Owned(i)'
      <3>1. pc'[i] = "audit"
        BY <1>1, <2>2 DEF Goto, ControlTypes
      <3>2. sess'[i] = sess[i] \/ sess'[i] = SignedIn(sess[i], u)
        BY <1>1, <2>2 DEF Decide, ControlTypes
      <3>3. SignedIn(sess[i], u).user = u
        BY <1>2 DEF SignedIn, Session
      <3>4. CASE sess'[i] = sess[i]
        BY <1>3, <2>1, <3>1, <3>4
      <3>5. CASE sess'[i] = SignedIn(sess[i], u)
        BY <2>1, <2>2, <3>1, <3>3, <3>5 DEF Owned, RowsOf
      <3> QED
        BY <3>2, <3>4, <3>5
    <2>3. CASE found[i] # NoUser
      <3>1. u = found[i] /\ users' = users /\ Decide(i, u) /\ Goto(i, "audit")
        BY <1>14, <2>3 DEF Upsert
      <3>2. u \in RowsOf(op[i].account)'
        BY <2>1, <2>3, <3>1 DEF Owned, RowsOf
      <3> QED
        BY <2>2, <3>1, <3>2
    <2>4. CASE found[i] = NoUser /\ ~Taken(op[i].account)
      <3>1. /\ users' = [v \in DOMAIN users \cup {u} |->
                            IF v = u THEN [google |-> op[i].account, active |-> TRUE,
                                           deleted |-> FALSE]
                            ELSE users[v]]
            /\ Decide(i, u) /\ Goto(i, "audit")
        BY <1>14, <2>4 DEF Upsert
      <3>2. u \in RowsOf(op[i].account)'
        BY <2>1, <3>1 DEF RowsOf
      <3> QED
        BY <2>2, <3>1, <3>2
    <2>5. CASE found[i] = NoUser /\ Taken(op[i].account)
      <3>1. Finish(i, "error", sess[i])
        BY <1>14, <2>5 DEF Upsert
      <3> QED
        BY <1>3, <1>5, <2>1, <3>1
    <2> QED
      BY <2>3, <2>4, <2>5
  <1>15. ASSUME NEW s \in Sid, Save(i, s) PROVE Owned(i)'
    <2>1. sess'[i] = [sess[i] EXCEPT !.sid = s] /\ pc'[i] = "done" /\ op' = op
      BY <1>1, <1>15 DEF Save, Goto, ControlTypes
    <2>2. sess'[i].user = sess[i].user /\ sess'[i].dirty = sess[i].dirty
      BY <1>2, <2>1 DEF Session
    <2> QED
      BY <1>1, <2>1, <2>2, OwnedKept
  <1>16. ASSUME Touch(i) \/ WriteFails(i) PROVE Owned(i)'
    <2>1. sess' = sess /\ op' = op /\ pc'[i] = "done"
      BY <1>1, <1>16 DEF Touch, WriteFails, Goto, ControlTypes
    <2> QED
      BY <1>4, <2>1
  <1> QED
    BY <1>10, <1>11, <1>12, <1>13, <1>14, <1>15, <1>16 DEF Continue

OwnedInv == \A i \in Request : Owned(i)

LEMMA OwnedNext == SessionInv /\ OwnedInv /\ [Next]_vars => OwnedInv'
  <1> SUFFICES ASSUME SessionInv, OwnedInv, [Next]_vars, NEW j \in Request
               PROVE  Owned(j)'
    BY DEF OwnedInv
  <1>1. TypeOK /\ Owned(j)
    BY DEF SessionInv, OwnedInv
  <1>2. ASSUME NEW i \in Request,
               \/ \E o \in Op : Arrive(i, o)
               \/ Continue(i) \/ DbError(i) \/ WriteFails(i)
        PROVE  Owned(j)'
    <2>1. CASE i = j
      BY <1>1, <1>2, <2>1, OwnOwned
    <2>2. CASE i # j
      <3>1. pc'[j] = pc[j] /\ op'[j] = op[j] /\ sess'[j] = sess[j]
        BY <1>1, <1>2, <2>2, Others
      <3>2. found'[j] = found[j]
        BY <1>1, <1>2, <2>2, FoundKept
      <3> QED
        BY <1>1, <3>1, <3>2, OwnedKept
    <2> QED
      BY <2>1, <2>2
  <1>3. CASE Crash
    <2>1. op' = op /\ sess' = sess /\ (pc'[j] = pc[j] \/ pc'[j] = "done") /\ found'[j] = NoUser
      BY <1>3 DEF Crash
    <2> QED
      BY <1>1, <2>1, OwnedKept
  <1>4. ASSUME UNCHANGED <<pc, op, sess, found>> PROVE Owned(j)'
    BY <1>1, <1>4, OwnedKept
  <1>5. ASSUME NEW s \in Sid, Burn(s) \/ BurnFails(s) PROVE Owned(j)'
    BY <1>4, <1>5 DEF Burn, BurnFails, control
  <1>6. ASSUME NEW u \in User, SoftDeleteUser(u) PROVE Owned(j)'
    BY <1>4, <1>6 DEF SoftDeleteUser, control
  <1>7. Tick \/ UNCHANGED vars => UNCHANGED <<pc, op, sess, found>>
    BY DEF Tick, vars, control
  <1> QED
    BY <1>2, <1>3, <1>4, <1>5, <1>6, <1>7 DEF Next, Fault

\* Whatever requests a session has in flight, and however they are delayed, only a
\* sign-in sets its user (set and touch of prismaSessionStore.ts, signInWithGoogle).
THEOREM SessionUserCorrect == Spec => OnlySignInSetsUser
  <1> DEFINE Set(s) ==
        s \notin DOMAIN sessions \/ sessions'[s].user # sessions[s].user =>
           \E i \in Request :
              /\ op[i].kind = "signIn"
              /\ sessions'[s].user \in RowsOf(op[i].account)
              /\ pc[i] = "save" /\ pc'[i] = "done"
  <1>1. ASSUME SessionInv, OwnedInv, [Next]_vars, NEW s \in DOMAIN sessions' PROVE Set(s)
    <2>1. ASSUME NEW i \in Request, NEW t \in Sid, Save(i, t) PROVE Set(s)
      <3>1. Placed(i) /\ Owned(i) /\ pc \in [Request -> Stage]
        BY <1>1 DEF SessionInv, OwnedInv, TypeOK
      <3>2. op[i].kind = "signIn" /\ sess[i].user \in RowsOf(op[i].account)
        BY <2>1, <3>1 DEF Save, Placed, Owned
      <3>3. pc[i] = "save" /\ pc'[i] = "done"
        BY <2>1, <3>1 DEF Save, Goto
      <3>4. s = t => sessions'[s].user = sess[i].user
        BY <2>1 DEF Save
      <3>5. s # t => s \in DOMAIN sessions /\ sessions'[s] = sessions[s]
        BY <2>1 DEF Save
      <3> QED
        BY <3>2, <3>3, <3>4, <3>5
    <2>2. ASSUME \/ \E i \in Request : Touch(i) \/ Destroy(i)
                 \/ \E t \in Sid : Burn(t)
                 \/ Tick
                 \/ UNCHANGED <<sessions, gone>>
          PROVE  s \in DOMAIN sessions /\ sessions'[s].user = sessions[s].user
      <3>1. \A t \in DOMAIN sessions : sessions[t] \in SessionRow
        BY <1>1 DEF SessionInv, TypeOK
      <3>2. \A t \in DOMAIN sessions : \A n : [sessions[t] EXCEPT !.left = n].user = sessions[t].user
        BY <3>1 DEF SessionRow
      <3>3. ASSUME NEW i \in Request, Touch(i)
            PROVE  s \in DOMAIN sessions /\ sessions'[s].user = sessions[s].user
        BY <3>2, <3>3 DEF Touch
      <3>4. ASSUME NEW i \in Request, Destroy(i)
            PROVE  s \in DOMAIN sessions /\ sessions'[s].user = sessions[s].user
        BY <3>4 DEF Destroy, Without
      <3>5. ASSUME NEW t \in Sid, Burn(t)
            PROVE  s \in DOMAIN sessions /\ sessions'[s].user = sessions[s].user
        BY <3>5 DEF Burn, Without
      <3>6. ASSUME Tick
            PROVE  s \in DOMAIN sessions /\ sessions'[s].user = sessions[s].user
        BY <3>2, <3>6 DEF Tick
      <3> QED
        BY <2>2, <3>3, <3>4, <3>5, <3>6
    <2> QED
      BY <1>1, <2>1, <2>2, SessionsWritten
  <1>2. ASSUME SessionInv, OwnedInv, [Next]_vars PROVE \A s \in DOMAIN sessions' : Set(s)
    BY <1>1, <1>2
  <1>3. Init => OwnedInv
    BY DEF Init, OwnedInv, Owned, Fresh
  <1>4. Spec => [][\A s \in DOMAIN sessions' : Set(s)]_vars
    BY <1>2, <1>3, OwnedNext, SessionsCorrect, PTL DEF Spec
  <1> QED
    BY <1>4 DEF OnlySignInSetsUser
=============================================================================
