------------------------------ MODULE Login_proofs ------------------------------
(***************************************************************************)
(* The session store, express-session and the handlers implement Login.    *)
(***************************************************************************)
EXTENDS Sessions_proofs

-----------------------------------------------------------------------------
(* What the refinement rests on beside SessionInv and OwnedInv.            *)

\* Until it is served a request has no session and no answer, and behind the door
\* it has the session of a user; only a session that is as it was loaded is touched.
Entered(i) ==
    /\ pc[i] = "idle" => op[i] = NoOp
    /\ pc[i] \in {"idle", "get"} => sess[i] = Fresh
    /\ pc[i] \in {"idle", "get", "authenticate"} => reply[i] = "none"
    /\ pc[i] \in {"authenticate", "check", "commit"}
          => sess[i].sid # NoSid /\ sess[i].user # NoUser
    /\ pc[i] \in {"check", "commit"} => op[i].kind = "patch"
    /\ pc[i] = "touch" => ~sess[i].dirty

LoginInv == SessionInv /\ OwnedInv /\ \A i \in Request : Entered(i)

\* A step that is of request i.
Step(i) == (\E o \in Op : Arrive(i, o)) \/ Continue(i) \/ DbError(i) \/ WriteFails(i)

LEMMA FinishEffect ==
  ASSUME ControlTypes, NEW i \in Request, NEW code, NEW s, Finish(i, code, s)
  PROVE  /\ sess'[i] = s /\ reply'[i] = code
         /\ pc'[i] \in {"save", "touch", "done"}
         /\ pc'[i] = "touch" => ~s.dirty
         /\ s.sid # NoSid => pc'[i] # "done"
  BY DEF ControlTypes, Finish, Goto

LEMMA CloseEffect ==
  ASSUME ControlTypes, NEW i \in Request, NEW code, Close(i, code)
  PROVE  sess'[i] = sess[i] /\ reply'[i] = code /\ pc'[i] = "done"
  BY DEF ControlTypes, Close, Goto

LEMMA ServeEffect ==
  ASSUME ControlTypes, NEW i \in Request, NEW o, NEW s, Serve(i, o, s)
  PROVE  /\ sess'[i] = s
         /\ reply'[i] \in {reply[i], "unauthorized"}
         /\ pc'[i] \in {"authenticate", "find", "audit", "save", "touch", "done"}
         /\ pc'[i] = "authenticate" => s.user # NoUser /\ reply'[i] = reply[i]
         /\ pc'[i] = "touch" => ~s.dirty
         /\ s.sid # NoSid => pc'[i] # "done"
  <1> DEFINE Effect ==
               /\ sess'[i] = s
               /\ reply'[i] \in {reply[i], "unauthorized"}
               /\ pc'[i] \in {"authenticate", "find", "audit", "save", "touch", "done"}
               /\ pc'[i] = "authenticate" => s.user # NoUser /\ reply'[i] = reply[i]
               /\ pc'[i] = "touch" => ~s.dirty
               /\ s.sid # NoSid => pc'[i] # "done"
  <1>1. ASSUME Finish(i, "unauthorized", s) PROVE Effect
    BY <1>1, FinishEffect
  <1>2. ASSUME NEW stage \in {"find", "audit"}, Begin(i, s, stage) PROVE Effect
    BY <1>2, BeginEffect
  <1>3. ASSUME s.user # NoUser, Begin(i, s, "authenticate") PROVE Effect
    BY <1>3, BeginEffect
  <1> HIDE DEF Effect
  <1>4. Effect
    BY <1>1, <1>2, <1>3 DEF Serve
  <1> QED
    BY <1>4 DEF Effect

\* What store.get makes of the cookie of a request.
LEMMA Loaded ==
  ASSUME TypeOK, NEW s, Readable(s)
  PROVE  s \in Sid /\ s # NoSid /\ sessions[s].user \in User
  BY SessionAssumption DEF TypeOK, Readable, SessionRow

LEMMA OwnEntered ==
  ASSUME SessionInv, NEW i \in Request, Entered(i), Step(i)
  PROVE  Entered(i)'
  <1>1. TypeOK /\ ControlTypes /\ Sound(sess[i]) /\ Placed(i)
    BY TypeGroups DEF SessionInv
  <1>2. ASSUME pc'[i] \in {"find", "upsert", "audit", "destroy", "save", "done"}
        PROVE  Entered(i)'
    BY <1>2 DEF Entered
  <1>3. ASSUME NEW code, NEW s, Finish(i, code, s) PROVE Entered(i)'
    BY <1>1, <1>3, FinishEffect DEF Entered
  <1>4. ASSUME NEW code, Close(i, code) PROVE Entered(i)'
    BY <1>1, <1>2, <1>4, CloseEffect
  <1>5. ASSUME NEW o, NEW s, Serve(i, o, s), reply[i] = "none",
               s.user # NoUser => s.sid # NoSid
        PROVE  Entered(i)'
    BY <1>1, <1>5, ServeEffect DEF Entered
  <1>6. ASSUME NEW o \in Op, Arrive(i, o) PROVE Entered(i)'
    <2>1. reply[i] = "none"
      BY <1>6 DEF Arrive, Entered
    <2>2. CASE o.cookie = NoSid
      BY <1>5, <1>6, <2>1, <2>2 DEF Arrive, Fresh
    <2>3. CASE o.cookie # NoSid
      <3>1. pc'[i] = "get" /\ sess'[i] = Fresh /\ reply' = reply
        BY <1>1, <1>6, <2>3, BeginEffect DEF Arrive
      <3> QED
        BY <2>1, <3>1 DEF Entered
    <2> QED
      BY <2>2, <2>3
  <1>7. ASSUME GetSession(i) PROVE Entered(i)'
    <2> DEFINE c == op[i].cookie
               s == IF Readable(c)
                    THEN [sid |-> c, user |-> sessions[c].user, dirty |-> FALSE] ELSE Fresh
    <2>1. Serve(i, op[i], s) /\ reply[i] = "none"
      BY <1>7 DEF GetSession, Entered
    <2>2. s.user # NoUser => s.sid # NoSid
      BY <1>1, Loaded DEF Fresh
    <2> HIDE DEF s
    <2> QED
      BY <1>5, <2>1, <2>2
  <1>8. ASSUME Authenticate(i) \/ PatchCheck(i) PROVE Entered(i)'
    <2>1. ASSUME NEW stage \in {"check", "commit"}, Begin(i, sess[i], stage),
                 pc[i] \in {"authenticate", "check"}, op'[i].kind = "patch"
          PROVE  Entered(i)'
      BY <1>1, <2>1, BeginEffect DEF Entered
    <2>2. PatchCheck(i) => op[i].kind = "patch"
      BY DEF PatchCheck, Entered
    <2> QED
      BY <1>3, <1>4, <1>8, <2>1, <2>2 DEF Authenticate, PatchCheck
  <1>9. ASSUME PatchCommit(i) \/ DbError(i) \/ Destroy(i) PROVE Entered(i)'
    BY <1>3, <1>4, <1>9 DEF PatchCommit, DbError, Destroy
  <1>10. ASSUME FindUser(i) PROVE Entered(i)'
    BY <1>1, <1>2, <1>10, BeginEffect DEF FindUser
  <1>11. ASSUME NEW u \in User, Upsert(i, u) PROVE Entered(i)'
    <2>1. Goto(i, "audit") => pc'[i] = "audit"
      BY <1>1 DEF Goto, ControlTypes
    <2> QED
      BY <1>2, <1>3, <1>11, <2>1 DEF Upsert
  <1>12. ASSUME Audit(i) PROVE Entered(i)'
    <2>1. Begin(i, sess[i], "destroy") => pc'[i] = "destroy"
      BY <1>1, BeginEffect
    <2> QED
      BY <1>2, <1>3, <1>12, <2>1 DEF Audit
  <1>13. ASSUME \/ \E s \in Sid : Save(i, s)
                \/ Touch(i) \/ WriteFails(i)
         PROVE  Entered(i)'
    <2>1. pc'[i] = "done"
      BY <1>1, <1>13 DEF Save, Touch, WriteFails, Goto, ControlTypes
    <2> QED
      BY <1>2, <2>1
  <1> QED
    BY <1>6, <1>7, <1>8, <1>9, <1>10, <1>11, <1>12, <1>13 DEF Step, Continue

\* The steps that are no request's own.
Background ==
    \/ \E s \in Sid : Burn(s) \/ BurnFails(s)
    \/ Crash
    \/ \E u \in User : SoftDeleteUser(u)
    \/ Tick

LEMMA NextSteps == Next => Background \/ \E i \in Request : Step(i)
  BY DEF Next, Fault, Background, Step

LEMMA LoginInvInductive ==
  /\ Init => LoginInv
  /\ LoginInv /\ [Next]_vars => LoginInv'
  <1>1. Init => LoginInv
    <2>1. Init => \A i \in Request : Entered(i)
      BY DEF Init, Entered
    <2>2. Init => OwnedInv
      BY DEF Init, OwnedInv, Owned, Fresh
    <2> QED
      BY <2>1, <2>2, SessionInvInductive DEF LoginInv
  <1>2. LoginInv /\ [Next]_vars => LoginInv'
    <2> SUFFICES ASSUME LoginInv, [Next]_vars PROVE LoginInv'
      OBVIOUS
    <2>1. SessionInv /\ OwnedInv /\ SessionInv' /\ OwnedInv' /\ TypeOK
      BY SessionInvInductive, OwnedNext DEF LoginInv, SessionInv
    <2>2. ASSUME NEW j \in Request, pc'[j] = pc[j], op'[j] = op[j], sess'[j] = sess[j],
                 reply'[j] = reply[j]
          PROVE  Entered(j)'
      BY <2>2 DEF LoginInv, Entered
    <2>3. ASSUME NEW j \in Request, pc'[j] = "done" PROVE Entered(j)'
      BY <2>3 DEF Entered
    <2>4. ASSUME NEW i \in Request, Step(i), NEW j \in Request PROVE Entered(j)'
      <3>1. CASE i = j
        BY <2>1, <2>4, <3>1, OwnEntered DEF LoginInv
      <3>2. CASE i # j
        BY <2>1, <2>2, <2>4, <3>2, Others DEF Step
      <3> QED
        BY <3>1, <3>2
    <2>5. ASSUME UNCHANGED <<pc, op, sess, reply>>, NEW j \in Request PROVE Entered(j)'
      BY <2>2, <2>5
    <2>6. ASSUME Background, NEW j \in Request PROVE Entered(j)'
      <3>1. CASE Crash
        BY <2>2, <2>3, <3>1 DEF Crash
      <3>2. CASE ~Crash
        BY <2>5, <2>6, <3>2 DEF Background, Burn, BurnFails, SoftDeleteUser, Tick, control
      <3> QED
        BY <3>1, <3>2
    <2>7. UNCHANGED vars => UNCHANGED <<pc, op, sess, reply>>
      BY DEF vars, control
    <2> QED
      BY <2>1, <2>4, <2>5, <2>6, <2>7, NextSteps DEF LoginInv
  <1> QED
    BY <1>1, <1>2

-----------------------------------------------------------------------------
(* What a step is seen as.                                                 *)

\* A step of request i is seen at i alone.
LEMMA Framed ==
  ASSUME TypeOK, NEW i \in Request, Step(i)
  PROVE  /\ \A j \in Request \ {i} :
               /\ Held'[j] = Held[j] /\ Acting'[j] = Acting[j]
               /\ j \in Ended' <=> j \in Ended
         /\ Held \in [Request -> Session] /\ Held' = [j \in Request |-> Held'[j]]
         /\ Acting' = [j \in Request |-> Acting'[j]]
  <1>1. ASSUME NEW j \in Request, j # i
        PROVE  pc'[j] = pc[j] /\ op'[j] = op[j] /\ sess'[j] = sess[j] /\ reply'[j] = reply[j]
    BY <1>1, Others DEF Step
  <1>2. Held \in [Request -> Session]
    BY FreshType DEF Held, TypeOK
  <1> QED
    BY <1>1, <1>2 DEF Held, Acting, Acts, Ended

LEMMA SeenAt ==
  ASSUME NEW i \in Request
  PROVE  /\ Held[i] = IF pc[i] = "done" THEN Fresh ELSE sess[i]
         /\ Held'[i] = IF pc'[i] = "done" THEN Fresh ELSE sess'[i]
         /\ Acting[i] = IF Acts(i) THEN sess[i].user ELSE NoUser
         /\ Acting'[i] = IF Acts(i)' THEN sess'[i].user ELSE NoUser
         /\ i \in Ended <=> pc[i] = "done"
         /\ i \in Ended' <=> pc'[i] = "done"
  BY DEF Held, Acting, Ended

\* A step of a request that goes on, and one of a request that is answered.
LEMMA GoesOn ==
  ASSUME TypeOK, NEW i \in Request, Step(i), pc[i] # "done", pc'[i] # "done"
  PROVE  /\ Ended' = Ended
         /\ Held' = [Held EXCEPT ![i] = sess'[i]]
         /\ Acts(i)' => Acting' = [Acting EXCEPT ![i] = sess'[i].user]
         /\ ~Acts(i) /\ ~Acts(i)' => Acting' = Acting
         /\ Acts(i) /\ Acts(i)' /\ sess'[i].user = sess[i].user => Acting' = Acting
  <1>1. Acting = [j \in Request |-> Acting[j]]
    BY DEF Acting
  <1>2. Ended \subseteq Request /\ Ended' \subseteq Request
    BY DEF Ended
  <1>3. Ended' = Ended
    BY <1>2, Framed, SeenAt
  <1>4. Held' = [Held EXCEPT ![i] = sess'[i]]
    BY Framed, SeenAt
  <1>5. /\ Acting'[i] = IF Acts(i)' THEN sess'[i].user ELSE NoUser
        /\ Acting[i] = IF Acts(i) THEN sess[i].user ELSE NoUser
    BY SeenAt
  <1>6. Acting' = [Acting EXCEPT ![i] = Acting'[i]]
    BY <1>1, Framed
  <1>7. Acting'[i] = Acting[i] => Acting' = Acting
    BY <1>1, Framed
  <1> QED
    BY <1>3, <1>4, <1>5, <1>6, <1>7

LEMMA EndsThere ==
  ASSUME TypeOK, NEW i \in Request, Step(i), pc[i] # "done", pc'[i] = "done",
         Acts(i)' <=> Acts(i), Acts(i) => sess'[i].user = sess[i].user
  PROVE  Acting' = Acting /\ L!Leaves(i)
  <1>1. Acting = [j \in Request |-> Acting[j]]
    BY DEF Acting
  <1>2. Ended \subseteq Request /\ Ended' \subseteq Request
    BY DEF Ended
  <1>3. Ended' = Ended \cup {i}
    BY <1>2, Framed, SeenAt
  <1>4. Held' = [Held EXCEPT ![i] = Fresh]
    BY Framed, SeenAt
  <1>5. Acting' = Acting
    BY <1>1, Framed, SeenAt
  <1> QED
    BY <1>3, <1>4, <1>5 DEF L!Leaves, L!Nothing, Fresh

\* The table as Login sees it is written only with the table.
LEMMA TableKept ==
  ASSUME sessions' = sessions
  PROVE  Owner' = Owner /\ Valid' = Valid
  BY DEF Owner, Valid

\* A step that writes nothing, loads nothing and lets nobody in.
LEMMA ReleaseStep ==
  ASSUME TypeOK, TypeOK', UNCHANGED <<users, sessions, issued, op>>, burning' \subseteq burning,
         \A j \in Request :
            /\ pc[j] = "done" => pc'[j] = "done"
            /\ pc'[j] # "done" => sess'[j] = sess[j]
            /\ Acts(j)' => Acts(j) /\ sess'[j].user = sess[j].user
  PROVE  L!Release
  <1>1. Ended \subseteq Ended'
    BY DEF Ended
  <1>2. Held' = [j \in Request |-> IF j \in Ended' THEN Fresh ELSE Held[j]]
    BY DEF Held, Ended
  <1>3. Acting' \in [Request -> User \cup {NoUser}]
    BY DEF Acting, TypeOK, Session
  <1>4. \A j \in Request : Acting'[j] \in {Acting[j], NoUser}
    BY DEF Acting
  <1> QED
    BY <1>1, <1>2, <1>3, <1>4, TableKept DEF L!Release, L!Nothing, Fresh

\* The same for a step of one request.
LEMMA OwnRelease ==
  ASSUME TypeOK, TypeOK', NEW i \in Request, Step(i), pc[i] # "done",
         UNCHANGED <<users, sessions, issued, op>>, burning' = burning,
         sess'[i] = sess[i], Acts(i)' => Acts(i)
  PROVE  L!Release
  <1>1. ASSUME NEW j \in Request, j # i
        PROVE  pc'[j] = pc[j] /\ op'[j] = op[j] /\ sess'[j] = sess[j] /\ reply'[j] = reply[j]
    BY <1>1, Others DEF Step
  <1>2. ASSUME NEW j \in Request
        PROVE  /\ pc[j] = "done" => pc'[j] = "done"
               /\ pc'[j] # "done" => sess'[j] = sess[j]
               /\ Acts(j)' => Acts(j) /\ sess'[j].user = sess[j].user
    BY <1>1 DEF Acts
  <1> QED
    BY <1>2, ReleaseStep

-----------------------------------------------------------------------------
(* Each step of a request implements an action of Login.                   *)

LEMMA ArriveRefines ==
  ASSUME LoginInv, TypeOK', NEW i \in Request, NEW o \in Op, Arrive(i, o)
  PROVE  L!Brings(i)
  <1>1. TypeOK /\ ControlTypes /\ Entered(i) /\ Step(i)
    BY TypeGroups DEF LoginInv, SessionInv, Step
  <1>2. pc[i] = "idle" /\ op[i].kind = "none" /\ sess[i] = Fresh /\ reply[i] = "none"
    BY <1>1 DEF Arrive, Entered, NoOp
  <1>3. ~Acts(i)
    BY <1>2 DEF Acts
  <1>4. /\ sess'[i] = Fresh /\ reply'[i] \in {"none", "unauthorized"}
        /\ pc'[i] \notin {"check", "commit"}
    BY <1>1, <1>2, BeginEffect, ServeEffect DEF Arrive
  <1>5. ~Acts(i)'
    BY <1>4 DEF Acts
  <1>6. Acting' = Acting
    <2>1. Acting = [j \in Request |-> Acting[j]]
      BY DEF Acting
    <2> QED
      BY <1>1, <1>3, <1>5, <2>1, Framed, SeenAt
  <1>7. Held' = Held
    BY <1>1, <1>2, <1>4, Framed, SeenAt
  <1>8. Ended' \in {Ended, Ended \cup {i}}
    <2>1. Ended \subseteq Request /\ Ended' \subseteq Request
      BY DEF Ended
    <2> QED
      BY <1>1, <1>2, <2>1, Framed, SeenAt
  <1> QED
    BY <1>2, <1>6, <1>7, <1>8, TableKept DEF Arrive, database, background, L!Brings

LEMMA GetRefines ==
  ASSUME LoginInv, TypeOK', NEW i \in Request, GetSession(i)
  PROVE  L!Load(i) \/ L!Release
  <1> DEFINE c == op[i].cookie
  <1>1. TypeOK /\ ControlTypes /\ Entered(i) /\ Step(i)
    BY TypeGroups DEF LoginInv, SessionInv, Step, Continue
  <1>2. pc[i] = "get" /\ sess[i] = Fresh /\ reply[i] = "none" /\ ~Acts(i)
    BY <1>1 DEF GetSession, Entered, Acts
  <1>3. ASSUME NEW s, Serve(i, op[i], s)
        PROVE  /\ sess'[i] = s /\ ~Acts(i)'
               /\ s.sid # NoSid => pc'[i] # "done"
    BY <1>1, <1>2, <1>3, ServeEffect DEF Acts
  <1>4. UNCHANGED <<users, sessions, issued, burning, op>>
    BY DEF GetSession, database, background
  <1>5. CASE Readable(c)
    <2> DEFINE s == [sid |-> c, user |-> sessions[c].user, dirty |-> FALSE]
    <2>1. Serve(i, op[i], s)
      BY <1>5 DEF GetSession
    <2>2. sess'[i] = s /\ pc'[i] # "done" /\ ~Acts(i)'
      BY <1>1, <1>3, <1>5, <2>1, Loaded
    <2>3. Ended' = Ended /\ Held' = [Held EXCEPT ![i] = s] /\ Acting' = Acting
      BY <1>1, <1>2, <2>2, GoesOn
    <2>4. c \in Valid /\ Owner[c] = sessions[c].user
      BY <1>5 DEF Readable, Valid, Owner
    <2>5. i \notin Ended /\ Held[i] = Fresh
      BY <1>2, SeenAt
    <2> QED
      BY <1>4, <2>3, <2>4, <2>5, TableKept DEF L!Load, L!Nothing, Fresh
  <1>6. CASE ~Readable(c)
    <2>1. Serve(i, op[i], Fresh)
      BY <1>6 DEF GetSession
    <2>2. sess'[i] = sess[i] /\ ~Acts(i)'
      BY <1>2, <1>3, <2>1
    <2> QED
      BY <1>1, <1>2, <1>4, <2>2, OwnRelease
  <1> QED
    BY <1>5, <1>6

LEMMA AuthenticateRefines ==
  ASSUME LoginInv, TypeOK', NEW i \in Request, Authenticate(i)
  PROVE  L!Enter(i) \/ L!Doom(i)
  <1>1. TypeOK /\ ControlTypes /\ Entered(i) /\ Placed(i) /\ Step(i)
    BY TypeGroups DEF LoginInv, SessionInv, Step, Continue
  <1>2. /\ pc[i] = "authenticate" /\ reply[i] = "none" /\ ~Acts(i)
        /\ op[i].kind \in {"call", "patch"} /\ sess[i].sid # NoSid
    BY <1>1 DEF Authenticate, Entered, Placed, Acts
  <1>3. UNCHANGED <<users, sessions, issued, op>>
    BY DEF Authenticate, database
  <1>4. Held[i] = sess[i]
    BY <1>2, SeenAt
  <1>5. ActiveUser(sess[i].user) <=> L!ActiveUser(Held[i].user)
    BY <1>4 DEF ActiveUser, LiveUser, L!ActiveUser, L!LiveUser
  <1>6. CASE ActiveUser(sess[i].user)
    <2>1. sess'[i] = sess[i] /\ pc'[i] # "done" /\ Acts(i)' /\ burning' = burning
      BY <1>1, <1>2, <1>3, <1>6, FinishEffect, BeginEffect DEF Authenticate, Acts
    <2>2. /\ Ended' = Ended /\ Held' = [Held EXCEPT ![i] = sess[i]]
          /\ Acting' = [Acting EXCEPT ![i] = sess[i].user]
      BY <1>1, <1>2, <2>1, GoesOn
    <2>3. Held' = Held
      BY <1>1, <1>4, <2>2, Framed
    <2> QED
      BY <1>2, <1>3, <1>4, <1>5, <1>6, <2>1, <2>2, <2>3, TableKept DEF L!Enter, L!HasSession
  <1>7. CASE ~ActiveUser(sess[i].user)
    <2>1. /\ sess'[i] = sess[i] /\ pc'[i] = "done" /\ ~Acts(i)'
          /\ burning' = burning \cup {sess[i].sid}
      BY <1>1, <1>7, CloseEffect DEF Authenticate, Acts
    <2>2. Acting' = Acting /\ L!Leaves(i)
      BY <1>1, <1>2, <2>1, EndsThere
    <2> QED
      BY <1>2, <1>3, <1>4, <1>5, <1>7, <2>1, <2>2, TableKept DEF L!Doom, L!HasSession
  <1> QED
    BY <1>6, <1>7

\* A step of a request that keeps its session, writes no table and is not let in.
LEMMA QuietRefines ==
  ASSUME LoginInv, TypeOK', NEW i \in Request,
         \/ PatchCheck(i) \/ FindUser(i) \/ Audit(i) \/ DbError(i) \/ WriteFails(i)
  PROVE  L!Release
  <1>1. TypeOK /\ ControlTypes /\ Placed(i) /\ Step(i)
    BY TypeGroups DEF LoginInv, SessionInv, Step, Continue
  <1>2. pc[i] # "done" /\ op' = op
    BY DEF PatchCheck, FindUser, Audit, DbError, WriteFails
  <1>3. UNCHANGED <<users, sessions, issued, burning>>
    BY DEF PatchCheck, FindUser, Audit, DbError, WriteFails, database, background
  <1>4. ASSUME NEW code, Finish(i, code, sess[i]), code \notin {"ok", "notFound"}
        PROVE  sess'[i] = sess[i] /\ ~Acts(i)'
    BY <1>1, <1>4, FinishEffect DEF Acts
  <1>5. ASSUME Close(i, "error") PROVE sess'[i] = sess[i] /\ ~Acts(i)'
    BY <1>1, <1>5, CloseEffect DEF Acts
  <1>6. CASE PatchCheck(i)
    <2>1. Acts(i)
      BY <1>1, <1>6 DEF PatchCheck, Placed, Acts
    <2>2. sess'[i] = sess[i]
      BY <1>1, <1>6, FinishEffect, BeginEffect DEF PatchCheck
    <2> QED
      BY <1>1, <1>2, <1>3, <2>1, <2>2, OwnRelease
  <1>7. CASE FindUser(i)
    <2>1. sess'[i] = sess[i] /\ ~Acts(i)'
      BY <1>1, <1>2, <1>7, BeginEffect DEF FindUser, Placed, Acts
    <2> QED
      BY <1>1, <1>2, <1>3, <2>1, OwnRelease
  <1>8. CASE Audit(i)
    <2>1. sess'[i] = sess[i] /\ ~Acts(i)'
      BY <1>1, <1>2, <1>8, FinishEffect, BeginEffect DEF Audit, Acts
    <2> QED
      BY <1>1, <1>2, <1>3, <2>1, OwnRelease
  <1>9. CASE DbError(i)
    <2>1. sess'[i] = sess[i] /\ ~Acts(i)'
      BY <1>4, <1>5, <1>9 DEF DbError
    <2> QED
      BY <1>1, <1>2, <1>3, <2>1, OwnRelease
  <1>10. CASE WriteFails(i)
    <2>1. sess' = sess /\ reply' = reply /\ pc'[i] = "done"
      BY <1>1, <1>10 DEF WriteFails, Goto, ControlTypes
    <2>2. Acts(i)' => Acts(i)
      BY <1>2, <2>1 DEF Acts
    <2> QED
      BY <1>1, <1>2, <1>3, <2>1, <2>2, OwnRelease
  <1> QED
    BY <1>6, <1>7, <1>8, <1>9, <1>10

LEMMA PatchCommitRefines ==
  ASSUME LoginInv, TypeOK', NEW i \in Request, PatchCommit(i)
  PROVE  L!Switch(i) \/ L!Release
  <1> DEFINE u == op[i].target
             want == op[i].active
  <1>1. TypeOK /\ ControlTypes /\ TableTypes /\ Entered(i) /\ Placed(i) /\ Step(i)
    BY TypeGroups DEF LoginInv, SessionInv, Step, Continue
  <1>2. /\ pc[i] = "commit" /\ sess[i].sid # NoSid /\ sess[i].user # NoUser
        /\ op[i].kind \in {"call", "patch"} /\ Acts(i)
    BY <1>1 DEF PatchCommit, Entered, Placed, Acts
  <1>3. UNCHANGED <<sessions, issued, burning, op>>
    BY DEF PatchCommit, background
  <1>4. sess'[i] = sess[i] /\ pc'[i] # "done"
    BY <1>1, <1>2, FinishEffect DEF PatchCommit
  <1>5. CASE ~LiveUser(u)
    BY <1>1, <1>2, <1>3, <1>4, <1>5, OwnRelease DEF PatchCommit
  <1>6. CASE LiveUser(u)
    <2>1. Acts(i)'
      BY <1>1, <1>2, <1>3, <1>6, FinishEffect DEF PatchCommit, Acts
    <2>2. Ended' = Ended /\ Held' = [Held EXCEPT ![i] = sess[i]] /\ Acting' = Acting
      BY <1>1, <1>2, <1>4, <2>1, GoesOn
    <2>3. Held[i] = sess[i] /\ Acting[i] # NoUser
      BY <1>2, SeenAt
    <2>4. Held' = Held
      BY <1>1, <2>2, <2>3, Framed
    <2>5. users' = [users EXCEPT ![u].active = IF want = "same" THEN @ ELSE want = "on"]
      BY <1>6 DEF PatchCommit
    <2>6. \E b \in BOOLEAN : users' = [users EXCEPT ![u].active = b]
      <3> DEFINE b == IF want = "same" THEN users[u].active ELSE want = "on"
      <3>1. users[u] \in UserRow
        BY <1>1, <1>6 DEF TableTypes, LiveUser
      <3>2. users[u].active \in BOOLEAN
        BY <3>1 DEF UserRow
      <3>3. (want = "on") \in BOOLEAN
        BY Zenon
      <3>4. b \in BOOLEAN
        BY <3>2, <3>3, Zenon
      <3>5. users' = [users EXCEPT ![u].active = b]
        BY <2>5
      <3> QED
        BY <3>4, <3>5, Zenon
    <2>7. op[i].kind = "patch"
      BY <1>1, <1>2 DEF Entered
    <2>8. L!LiveUser(u)
      BY <1>6 DEF LiveUser, L!LiveUser
    <2> QED
      BY <1>3, <2>2, <2>3, <2>4, <2>6, <2>7, <2>8, TableKept DEF L!Switch
  <1> QED
    BY <1>5, <1>6

\* A sign-in that is let through gets a user of its account, whoever was first.
LEMMA UpsertRefines ==
  ASSUME LoginInv, TypeOK', NEW i \in Request, NEW u \in User, Upsert(i, u)
  PROVE  L!Prove(i) \/ L!Release
  <1> DEFINE a == op[i].account
             created == [google |-> a, active |-> TRUE, deleted |-> FALSE]
  <1>1. /\ TypeOK /\ ControlTypes /\ Placed(i) /\ Owned(i) /\ Step(i)
        /\ sess[i] \in Session
    BY TypeGroups, ControlAt DEF LoginInv, SessionInv, OwnedInv, Step, Continue
  <1>2. /\ pc[i] = "upsert" /\ op[i].kind = "signIn" /\ ~sess[i].dirty /\ op' = op
        /\ ~Acts(i) /\ ~Acts(i)'
    BY <1>1 DEF Upsert, Placed, Acts
  <1>3. UNCHANGED <<sessions, issued, burning>>
    BY DEF Upsert, background
  <1>4. Held[i] = sess[i] /\ i \notin Ended
    BY <1>2, SeenAt
  <1>5. ASSUME Finish(i, "error", sess[i]), users' = users PROVE L!Release
    BY <1>1, <1>2, <1>3, <1>5, FinishEffect, OwnRelease
  <1>6. ASSUME Decide(i, u), Goto(i, "audit"), users' = users, ~users'[u].active
        PROVE  L!Release
    BY <1>1, <1>2, <1>3, <1>6, OwnRelease DEF Decide
  <1>7. ASSUME Decide(i, u), Goto(i, "audit"), users'[u].active,
               u \in DOMAIN users', users'[u].google = a,
               \/ users' = users
               \/ /\ u \notin DOMAIN users /\ ~Taken(a)
                  /\ users' = [v \in DOMAIN users \cup {u} |->
                                  IF v = u THEN created ELSE users[v]]
        PROVE  L!Prove(i)
    <2>1. pc'[i] = "audit" /\ sess'[i] = SignedIn(sess[i], u)
      BY <1>1, <1>7 DEF Decide, Goto, ControlTypes
    <2>2. SignedIn(sess[i], u) = [sid |-> sess[i].sid, user |-> u, dirty |-> sess[i].user # u]
      <3>1. \A s \in Session : s = [sid |-> s.sid, user |-> s.user, dirty |-> s.dirty]
        BY DEF Session
      <3>2. SignedIn(sess[i], u) \in Session
        BY <1>1, TypeSignedIn
      <3>3. /\ SignedIn(sess[i], u).sid = sess[i].sid
            /\ SignedIn(sess[i], u).user = u
            /\ SignedIn(sess[i], u).dirty = (sess[i].user # u)
        BY <1>1 DEF SignedIn, Session
      <3> QED
        BY <3>1, <3>2, <3>3, Zenon
    <2>3. /\ Ended' = Ended /\ Acting' = Acting
          /\ Held' = [Held EXCEPT ![i] = [sid |-> Held[i].sid, user |-> u,
                                          dirty |-> Held[i].user # u]]
      BY <1>1, <1>2, <1>4, <2>1, <2>2, GoesOn
    <2>4. ~Taken(a) => \A v \in DOMAIN users : L!LiveUser(v) => users[v].google # a
      BY DEF Taken, RowsOf, LiveUser, L!LiveUser
    <2> QED
      BY <1>2, <1>3, <1>4, <1>7, <2>3, <2>4, TableKept DEF L!Prove
  <1>8. CASE found[i] # NoUser
    <2>1. u = found[i] /\ users' = users /\ Decide(i, u) /\ Goto(i, "audit")
      BY <1>8 DEF Upsert
    <2>2. u \in DOMAIN users /\ users[u].google = a
      BY <1>1, <1>2, <1>8, <2>1 DEF Owned, RowsOf
    <2> QED
      BY <1>6, <1>7, <2>1, <2>2
  <1>9. CASE found[i] = NoUser /\ ~Taken(a)
    <2>1. /\ u \notin DOMAIN users /\ Decide(i, u) /\ Goto(i, "audit")
          /\ users' = [v \in DOMAIN users \cup {u} |-> IF v = u THEN created ELSE users[v]]
      BY <1>9 DEF Upsert
    <2>2. u \in DOMAIN users' /\ users'[u].google = a /\ users'[u].active
      BY <2>1
    <2> QED
      BY <1>7, <1>9, <2>1, <2>2
  <1>10. CASE found[i] = NoUser /\ Taken(a)
    BY <1>5, <1>10 DEF Upsert
  <1> QED
    BY <1>8, <1>9, <1>10

LEMMA SaveRefines ==
  ASSUME LoginInv, TypeOK', NEW i \in Request, NEW s \in Sid, Save(i, s)
  PROVE  L!Write(i)
  <1>1. /\ TypeOK /\ ControlTypes /\ Placed(i) /\ Owned(i) /\ Step(i)
        /\ sess[i] \in Session /\ due[i] \in Nat
    BY TypeGroups, ControlAt DEF LoginInv, SessionInv, OwnedInv, Step, Continue
  <1>2. /\ pc[i] = "save" /\ sess[i].dirty /\ op[i].kind = "signIn"
        /\ op' = op /\ pc'[i] = "done"
    BY <1>1 DEF Save, Placed, Owned, Goto, ControlTypes
  <1>3. Acting' = Acting /\ L!Leaves(i)
    <2>1. ~Acts(i) /\ ~Acts(i)'
      BY <1>2 DEF Acts
    <2> QED
      BY <1>1, <1>2, <2>1, EndsThere
  <1>4. Held[i] = sess[i]
    BY <1>2, SeenAt
  <1>5. IF L!HasSession(i) THEN s = Held[i].sid ELSE s \notin issued
    BY <1>4 DEF Save, L!HasSession
  <1>6. sessions' = [t \in DOMAIN sessions \cup {s} |->
                        IF t = s THEN [user |-> sess[i].user, left |-> due[i]]
                        ELSE sessions[t]]
    BY DEF Save
  <1>7. Owner' = [t \in DOMAIN Owner \cup {s} |-> IF t = s THEN Held[i].user ELSE Owner[t]]
    BY <1>4, <1>6 DEF Owner
  <1>8. Valid' \in {Valid \cup {s}, Valid \ {s}}
    <2>1. \A t : t # s => (t \in Valid' <=> t \in Valid)
      BY <1>6 DEF Valid
    <2>2. s \in Valid' \/ s \notin Valid'
      OBVIOUS
    <2> QED
      BY <2>1, <2>2
  <1>9. UNCHANGED <<users, burning, op>> /\ issued' = issued \cup {s}
    BY DEF Save
  <1> QED
    BY <1>2, <1>3, <1>4, <1>5, <1>7, <1>8, <1>9 DEF L!Write

LEMMA TouchRefines ==
  ASSUME LoginInv, TypeOK', NEW i \in Request, Touch(i)
  PROVE  L!Prolong(i) \/ L!Release
  <1>1. TypeOK /\ ControlTypes /\ Entered(i) /\ Step(i)
    BY TypeGroups DEF LoginInv, SessionInv, Step, Continue
  <1>2. /\ pc[i] = "touch" /\ ~sess[i].dirty /\ pc'[i] = "done"
        /\ op' = op /\ sess' = sess /\ reply' = reply
        /\ UNCHANGED <<users, issued, burning>>
    BY <1>1 DEF Touch, Entered, Goto, ControlTypes, background
  <1>3. Acts(i)' <=> Acts(i)
    BY <1>2 DEF Acts
  <1>4. Held[i] = sess[i]
    BY <1>2, SeenAt
  <1> DEFINE c == sess[i].sid
  <1>5. sessions' = [t \in DOMAIN sessions |->
                        IF t = c THEN [sessions[t] EXCEPT !.left = due[i]] ELSE sessions[t]]
    BY DEF Touch
  <1>6. CASE c \in DOMAIN sessions
    <2>1. Acting' = Acting /\ L!Leaves(i)
      BY <1>1, <1>2, <1>3, EndsThere
    <2>2. \A t \in DOMAIN sessions : sessions'[t].user = sessions[t].user
      BY <1>1, <1>5 DEF TypeOK, SessionRow
    <2>3. Owner' = Owner /\ c \in DOMAIN Owner
      BY <1>5, <1>6, <2>2 DEF Owner
    <2>4. Valid' \in {Valid \cup {c}, Valid \ {c}}
      <3>1. \A t : t # c => (t \in Valid' <=> t \in Valid)
        BY <1>5 DEF Valid
      <3>2. c \in Valid' \/ c \notin Valid'
        OBVIOUS
      <3> QED
        BY <3>1, <3>2
    <2> QED
      BY <1>2, <1>4, <2>1, <2>3, <2>4 DEF L!Prolong
  <1>7. CASE c \notin DOMAIN sessions
    <2>1. sessions' = sessions
      BY <1>1, <1>5, <1>7 DEF TypeOK
    <2> QED
      BY <1>1, <1>2, <1>3, <2>1, OwnRelease
  <1> QED
    BY <1>6, <1>7

\* A session that is deleted from the table is gone for Login.
LEMMA GoneThere ==
  ASSUME NEW s, sessions' = Without(sessions, {s})
  PROVE  L!Gone(s)
  BY DEF Without, Owner, Valid, L!Gone

LEMMA DestroyRefines ==
  ASSUME LoginInv, TypeOK', NEW i \in Request, Destroy(i)
  PROVE  L!SignOut(i)
  <1>1. TypeOK /\ ControlTypes /\ Placed(i) /\ Step(i)
    BY TypeGroups DEF LoginInv, SessionInv, Step, Continue
  <1>2. /\ pc[i] = "destroy" /\ op[i].kind = "signOut" /\ op' = op
        /\ pc'[i] = "done" /\ sess'[i] = sess[i]
        /\ UNCHANGED <<users, issued, burning>>
    BY <1>1, CloseEffect DEF Destroy, Placed
  <1>3. Acting' = Acting /\ L!Leaves(i)
    <2>1. ~Acts(i) /\ ~Acts(i)'
      BY <1>2 DEF Acts
    <2> QED
      BY <1>1, <1>2, <2>1, EndsThere
  <1>4. L!Gone(Held[i].sid)
    BY <1>2, SeenAt, GoneThere DEF Destroy
  <1> QED
    BY <1>2, <1>3, <1>4 DEF L!SignOut

LEMMA StepRefines ==
  ASSUME LoginInv, TypeOK', NEW i \in Request, Step(i)
  PROVE  L!Next
  <1> USE DEF L!Next
  <1>1. ASSUME NEW o \in Op, Arrive(i, o) PROVE L!Next
    BY <1>1, ArriveRefines
  <1>2. ASSUME NEW u \in User, Upsert(i, u) PROVE L!Next
    BY <1>2, UpsertRefines
  <1>3. ASSUME NEW s \in Sid, Save(i, s) PROVE L!Next
    BY <1>3, SaveRefines
  <1>4. CASE GetSession(i) \/ Authenticate(i) \/ PatchCommit(i)
    BY <1>4, GetRefines, AuthenticateRefines, PatchCommitRefines
  <1>5. CASE PatchCheck(i) \/ FindUser(i) \/ Audit(i) \/ DbError(i) \/ WriteFails(i)
    BY <1>5, QuietRefines
  <1>6. CASE Touch(i) \/ Destroy(i)
    BY <1>6, TouchRefines, DestroyRefines
  <1> QED
    BY <1>1, <1>2, <1>3, <1>4, <1>5, <1>6 DEF Step, Continue

-----------------------------------------------------------------------------
(* The steps that are no request's own.                                    *)

\* What Login sees of the requests.
LEMMA ControlKept ==
  ASSUME UNCHANGED <<pc, op, sess, reply>>
  PROVE  Held' = Held /\ Acting' = Acting /\ Ended' = Ended
  BY DEF Held, Acting, Acts, Ended

LEMMA BackgroundRefines ==
  ASSUME LoginInv, TypeOK', Background
  PROVE  L!Next
  <1>1. TypeOK
    BY DEF LoginInv, SessionInv
  <1>2. ASSUME NEW s \in Sid, Burn(s) PROVE L!Next
    <2>1. L!Gone(s) /\ Held' = Held /\ Acting' = Acting /\ Ended' = Ended
      BY <1>2, GoneThere, ControlKept DEF Burn, control
    <2>2. L!End(s)
      BY <1>2, <2>1 DEF Burn, control, L!End
    <2> QED
      BY <2>2 DEF L!Next
  <1>3. ASSUME NEW s \in Sid, BurnFails(s) PROVE L!Next
    <2>1. L!Release
      BY <1>1, <1>3, ReleaseStep DEF BurnFails, database, control, Acts
    <2> QED
      BY <2>1 DEF L!Next
  <1>4. ASSUME Crash PROVE L!Next
    <2>1. ASSUME NEW j \in Request
          PROVE  /\ pc[j] = "done" => pc'[j] = "done"
                 /\ pc'[j] # "done" => sess'[j] = sess[j]
                 /\ Acts(j)' => Acts(j) /\ sess'[j].user = sess[j].user
      BY <1>4 DEF Crash, Acts
    <2>2. L!Release
      BY <1>1, <1>4, <2>1, ReleaseStep DEF Crash, database
    <2> QED
      BY <2>2 DEF L!Next
  <1>5. ASSUME NEW u \in User, SoftDeleteUser(u) PROVE L!Next
    <2>1. UNCHANGED <<Held, Acting, Ended, Owner, Valid>>
      BY <1>5, ControlKept, TableKept DEF SoftDeleteUser, control
    <2>2. L!SoftDeleteUser
      BY <1>5, <2>1 DEF SoftDeleteUser, LiveUser, background, control, L!SoftDeleteUser
    <2> QED
      BY <2>2 DEF L!Next
  <1>6. ASSUME Tick PROVE L!Next
    <2>1. Held' = Held /\ Acting' = Acting /\ Ended' = Ended
      BY <1>6, ControlKept DEF Tick
    <2>2. \A s \in DOMAIN sessions : sessions[s] \in SessionRow
      BY <1>1 DEF TypeOK
    <2>3. /\ DOMAIN sessions' = DOMAIN sessions
          /\ \A s \in DOMAIN sessions :
                /\ sessions'[s].user = sessions[s].user
                /\ sessions'[s].left = Aged(sessions[s].left)
      BY <1>6, <2>2 DEF Tick, SessionRow
    <2>4. Owner' = Owner
      BY <2>3 DEF Owner
    <2>5. Valid' \subseteq Valid
      BY <2>2, <2>3 DEF Valid, Aged, SessionRow
    <2>6. L!Expire
      BY <1>6, <2>1, <2>4, <2>5 DEF Tick, background, L!Expire
    <2> QED
      BY <2>6 DEF L!Next
  <1> QED
    BY <1>2, <1>3, <1>4, <1>5, <1>6 DEF Background

-----------------------------------------------------------------------------
\* The store, express-session, authenticate, signInWithGoogle and signOut implement
\* Login: however requests of a cookie overlap, fail or are cut off, every change of
\* the session table and every user a request acts as is one allowed step.
THEOREM LoginRefined == Spec => LoginAsPromised
  <1>1. Init => L!Init
    <2> SUFFICES ASSUME Init PROVE L!Init
      OBVIOUS
    <2>1. \A i \in Request : pc[i] = "idle" /\ sess[i] = Fresh /\ op[i] = NoOp /\ reply[i] = "none"
      BY DEF Init
    <2>2. Held = [i \in Request |-> Fresh] /\ Acting = [i \in Request |-> NoUser] /\ Ended = {}
      BY <2>1 DEF Held, Acting, Acts, Ended
    <2>3. DOMAIN Owner = DOMAIN sessions /\ Valid \subseteq DOMAIN sessions
      BY DEF Owner, Valid
    <2> QED
      BY <2>1, <2>2, <2>3 DEF Init, NoOp, Fresh, L!Init, L!Nothing
  <1>2. LoginInv /\ [Next]_vars => [L!Next]_(L!vars)
    <2> SUFFICES ASSUME LoginInv, [Next]_vars PROVE [L!Next]_(L!vars)
      OBVIOUS
    <2>1. CASE UNCHANGED vars
      <3>1. UNCHANGED <<Held, Acting, Ended, Owner, Valid>>
        BY <2>1, ControlKept, TableKept DEF vars, control, database
      <3> QED
        BY <2>1, <3>1 DEF L!vars, vars, control, database, background
    <2>2. CASE Next
      <3>1. TypeOK'
        BY <2>2, SessionInvInductive DEF LoginInv, SessionInv
      <3> QED
        BY <2>2, <3>1, NextSteps, StepRefines, BackgroundRefines
    <2> QED
      BY <2>1, <2>2
  <1> QED
    BY <1>1, <1>2, LoginInvInductive, PTL DEF Spec, LoginAsPromised, L!Spec
=============================================================================
