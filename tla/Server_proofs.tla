---------------------------- MODULE Server_proofs ----------------------------
(***************************************************************************)
(* Proofs about Server, for any requests, faults and time limits.          *)
(***************************************************************************)
EXTENDS Server, TLAPS

Op == {"none", "list", "create", "update", "delete"}

LEMMA ServerInit == Init => ServerInv
  <1> SUFFICES ASSUME Init PROVE ServerInv
    OBVIOUS
  <1>1. TypeOK
    <2>1. Grace \in 0..Grace /\ 0 \in 0..(Timeout + 1)
      BY ServerAssumption
    <2> QED
      BY <2>1 DEF Init, TypeOK, Phase, Exit, Stage, Reply, Progress
  <1>2. \A i \in Request : Placed(i)
    BY DEF Init, Placed
  <1> QED
    BY <1>1, <1>2 DEF Init, ServerInv

\* What an answer does.
LEMMA AnswerEffect ==
  ASSUME TypeOK, NEW i \in Request, NEW code \in Reply, Answer(i, code)
  PROVE  /\ pc' \in [Request -> Stage]
         /\ reply' \in [Request -> Reply]
         /\ linger' \in BOOLEAN /\ hungUp' = hungUp \ {i}
         /\ pc'[i] = "done" /\ reply'[i] = code
         /\ \A j \in Request : j # i => pc'[j] = pc[j] /\ reply'[j] = reply[j]
  BY DEF Answer, TypeOK, Stage

LEMMA GotoEffect ==
  ASSUME TypeOK, NEW i \in Request, NEW stage \in Stage, Goto(i, stage)
  PROVE  /\ pc' \in [Request -> Stage]
         /\ pc'[i] = stage
         /\ \A j \in Request : j # i => pc'[j] = pc[j]
  BY DEF Goto, TypeOK, Stage

-----------------------------------------------------------------------------
(* The steps of one call, which leave the process and the other calls.     *)

\* What Placed says of j is kept.
Same(j) ==
    /\ pc'[j] = pc[j] /\ op'[j] = op[j] /\ age'[j] = age[j]
    /\ reply'[j] = reply[j] /\ dims'[j] = dims[j]
    /\ j \in applied => j \in applied'
    /\ j \in audited' <=> j \in audited
    /\ j \in hungUp' <=> j \in hungUp

LEMMA SamePlaced ==
  ASSUME NEW j \in Request, Placed(j), Same(j), phase' = phase, exit' = exit,
         force' = force, early' = early
  PROVE  Placed(j)'
  BY DEF Placed, Same, Stopping

\* The types of what a call changes.
CallTypes ==
    /\ pc \in [Request -> Stage]
    /\ op \in [Request -> Op]
    /\ age \in [Request -> 0..(Timeout + 1)]
    /\ reply \in [Request -> Reply]
    /\ dims \in [Request -> Progress]
    /\ linger \in BOOLEAN
    /\ hungUp \subseteq Request
    /\ applied \subseteq Request
    /\ audited \subseteq Request

LEMMA CallTypesOK == TypeOK => CallTypes
  BY DEF TypeOK, CallTypes, Op

LEMMA OneCall ==
  ASSUME ServerInv, NEW i \in Request, UNCHANGED process, CallTypes',
         Placed(i)', \A j \in Request : j # i => Same(j)
  PROVE  ServerInv'
  <1>1. phase' = phase /\ exit' = exit /\ force' = force /\ early' = early
    BY DEF process
  <1>2. TypeOK'
    BY <1>1 DEF ServerInv, TypeOK, CallTypes, Op
  <1>3. \A j \in Request : j # i => Placed(j)'
    BY <1>1, SamePlaced DEF ServerInv
  <1> QED
    BY <1>1, <1>2, <1>3 DEF ServerInv

LEMMA ArriveStep ==
  ASSUME ServerInv, NEW i \in Request, NEW k \in Kinds, Arrive(i, k)
  PROVE  ServerInv'
  <1>1. /\ TypeOK /\ CallTypes /\ Placed(i) /\ pc[i] = "idle" /\ k \in Op
        /\ i \notin early /\ i \notin audited
        /\ reply[i] = "none" /\ dims[i] = "none"
    <2>1. TypeOK /\ Placed(i) /\ pc[i] = "idle" /\ k \in Op
      BY ServerAssumption DEF ServerInv, Arrive, Op
    <2>2. i \notin early /\ i \notin audited /\ reply[i] = "none" /\ dims[i] = "none"
      BY <2>1 DEF Placed
    <2> QED
      BY <2>1, <2>2, CallTypesOK
  <1>2. /\ op' \in [Request -> Op] /\ op'[i] = k
        /\ \A j \in Request : j # i => op'[j] = op[j]
    BY <1>1 DEF Arrive, CallTypes
  <1>3. UNCHANGED <<process, applied, audited>> /\ phase \in {"up", "closing"}
    BY DEF Arrive
  <1>4. ASSUME Answer(i, "rejected"), UNCHANGED <<age, dims>> PROVE ServerInv'
    <2>1. /\ pc' \in [Request -> Stage] /\ reply' \in [Request -> Reply]
          /\ linger' \in BOOLEAN /\ hungUp' = hungUp \ {i}
          /\ pc'[i] = "done" /\ reply'[i] = "rejected"
          /\ \A j \in Request : j # i => pc'[j] = pc[j] /\ reply'[j] = reply[j]
      BY <1>1, <1>4, AnswerEffect DEF Reply
    <2>2. CallTypes'
      BY <1>1, <1>2, <1>3, <1>4, <2>1 DEF CallTypes
    <2>3. \A j \in Request : j # i => Same(j)
      BY <1>2, <1>3, <1>4, <2>1 DEF Same
    <2>4. Placed(i)'
      BY <1>1, <1>3, <1>4, <2>1 DEF Placed, process
    <2> QED
      BY <1>3, <2>2, <2>3, <2>4, OneCall
  <1>5. ASSUME Goto(i, "fetch"), age' = [age EXCEPT ![i] = 0],
               dims' = [dims EXCEPT ![i] = "sent"], linger' \in BOOLEAN,
               UNCHANGED <<reply, hungUp>>
        PROVE  ServerInv'
    <2>1. /\ pc' \in [Request -> Stage] /\ pc'[i] = "fetch"
          /\ \A j \in Request : j # i => pc'[j] = pc[j]
      BY <1>1, <1>5, GotoEffect DEF Stage
    <2>2. /\ age' \in [Request -> 0..(Timeout + 1)] /\ age'[i] = 0
          /\ \A j \in Request : j # i => age'[j] = age[j]
      BY <1>1, <1>5, ServerAssumption DEF CallTypes
    <2>3. /\ dims' \in [Request -> Progress] /\ dims'[i] = "sent"
          /\ \A j \in Request : j # i => dims'[j] = dims[j]
      BY <1>1, <1>5 DEF CallTypes, Progress
    <2>4. CallTypes'
      BY <1>1, <1>2, <1>3, <1>5, <2>1, <2>2, <2>3 DEF CallTypes
    <2>5. \A j \in Request : j # i => Same(j)
      BY <1>2, <1>3, <1>5, <2>1, <2>2, <2>3 DEF Same
    <2>6. Placed(i)'
      <3>1. 0 <= Timeout
        BY ServerAssumption
      <3> QED
        BY <1>1, <1>3, <1>5, <2>1, <2>2, <2>3, <3>1 DEF Placed, process
    <2> QED
      BY <1>3, <2>4, <2>5, <2>6, OneCall
  <1>6. linger \in BOOLEAN
    BY <1>1 DEF TypeOK
  <1> QED
    BY <1>4, <1>5, <1>6 DEF Arrive

LEMMA HangUpStep ==
  ASSUME ServerInv, NEW i \in Request, HangUp(i)
  PROVE  ServerInv'
  <1>1. TypeOK /\ CallTypes /\ Placed(i) /\ pc[i] \notin {"idle", "done"}
    BY CallTypesOK DEF ServerInv, HangUp, InFlight
  <1>2. UNCHANGED <<process, linger, upstream, calls, audited>> /\ hungUp' = hungUp \cup {i}
    BY DEF HangUp
  <1>3. CallTypes'
    BY <1>1, <1>2 DEF CallTypes, upstream, calls
  <1>4. \A j \in Request : j # i => Same(j)
    BY <1>2 DEF Same, upstream, calls
  <1>5. Placed(i)'
    BY <1>1, <1>2 DEF Placed, process, upstream, calls
  <1> QED
    BY <1>2, <1>3, <1>4, <1>5, OneCall

LEMMA DimsStep ==
  ASSUME ServerInv, NEW i \in Request, DimsActs(i)
  PROVE  ServerInv'
  <1>1. TypeOK /\ CallTypes /\ Placed(i) /\ dims[i] = "sent"
    BY CallTypesOK DEF ServerInv, DimsActs
  <1>2. PICK outcome \in {"made", "refused", "broke"} :
          /\ dims' = [dims EXCEPT ![i] = outcome]
          /\ LET change == IF Changes(op[i]) THEN {i} ELSE {} IN
             applied' \in CASE outcome = "made" -> {applied \cup change}
                            [] outcome = "refused" -> {applied}
                            [] outcome = "broke" -> {applied, applied \cup change}
    BY DEF DimsActs
  <1>3. UNCHANGED <<process, connections, calls, audited>>
    BY DEF DimsActs
  <1>4. /\ dims' \in [Request -> Progress] /\ dims'[i] = outcome
        /\ \A j \in Request : j # i => dims'[j] = dims[j]
    BY <1>1, <1>2 DEF CallTypes, Progress
  <1>5. applied \subseteq applied' /\ applied' \subseteq applied \cup {i}
    BY <1>2
  <1>6. outcome = "made" /\ Changes(op[i]) => i \in applied'
    BY <1>2
  <1>7. CallTypes'
    BY <1>1, <1>3, <1>4, <1>5 DEF CallTypes, connections, calls
  <1>8. \A j \in Request : j # i => Same(j)
    BY <1>3, <1>4, <1>5 DEF Same, connections, calls
  <1>9. Placed(i)'
    BY <1>1, <1>3, <1>4, <1>5, <1>6 DEF Placed, process, connections, calls
  <1> QED
    BY <1>3, <1>7, <1>8, <1>9, OneCall

\* An answer to a call that is under way: nothing else changes, but for a row in
\* the log when DIMS made a change.
LEMMA AnswerStep ==
  ASSUME ServerInv, NEW i \in Request, pc[i] \in {"fetch", "body", "audit"},
         NEW code \in Reply \ {"lost"}, Answer(i, code),
         code = "ok" => dims[i] = "made",
         UNCHANGED <<process, upstream, op, age>>,
         audited' \in {audited, audited \cup {i}},
         i \in audited' => dims[i] = "made" /\ Changes(op[i])
  PROVE  ServerInv'
  <1>1. TypeOK /\ CallTypes /\ Placed(i)
    BY CallTypesOK DEF ServerInv
  <1>2. /\ pc' \in [Request -> Stage] /\ reply' \in [Request -> Reply]
        /\ linger' \in BOOLEAN /\ hungUp' = hungUp \ {i}
        /\ pc'[i] = "done" /\ reply'[i] = code
        /\ \A j \in Request : j # i => pc'[j] = pc[j] /\ reply'[j] = reply[j]
    BY <1>1, AnswerEffect
  <1>3. CallTypes'
    BY <1>1, <1>2 DEF CallTypes, upstream
  <1>4. \A j \in Request : j # i => Same(j)
    BY <1>2 DEF Same, upstream
  <1>5. Placed(i)'
    BY <1>1, <1>2 DEF Placed, process, upstream
  <1> QED
    BY <1>3, <1>4, <1>5, OneCall

\* A call that goes on to its next await.
LEMMA GotoStep ==
  ASSUME ServerInv, NEW i \in Request, pc[i] \in {"fetch", "body"},
         NEW stage \in {"body", "audit"}, Goto(i, stage),
         stage = "audit" => dims[i] = "made" /\ Changes(op[i]),
         UNCHANGED <<process, connections, upstream, op, age, reply, audited>>
  PROVE  ServerInv'
  <1>1. TypeOK /\ CallTypes /\ Placed(i)
    BY CallTypesOK DEF ServerInv
  <1>2. /\ pc' \in [Request -> Stage] /\ pc'[i] = stage
        /\ \A j \in Request : j # i => pc'[j] = pc[j]
    BY <1>1, GotoEffect DEF Stage
  <1>3. CallTypes'
    BY <1>1, <1>2 DEF CallTypes, connections, upstream
  <1>4. \A j \in Request : j # i => Same(j)
    BY <1>2 DEF Same, connections, upstream
  <1>5. Placed(i)'
    BY <1>1, <1>2 DEF Placed, process, connections, upstream
  <1> QED
    BY <1>3, <1>4, <1>5, OneCall

LEMMA CallStep ==
  ASSUME ServerInv, NEW i \in Request, Call(i)
  PROVE  ServerInv'
  <1>0. Placed(i)
    BY DEF ServerInv
  <1>1. CASE Headers(i)
    BY <1>1, GotoStep DEF Headers
  <1>2. CASE Abort(i)
    <2>1. i \notin audited'
      BY <1>0, <1>2 DEF Abort, Placed
    <2> QED
      BY <1>2, <2>1, AnswerStep DEF Abort, Reply
  <1>3. CASE NetFails(i)
    <2>1. i \notin audited'
      BY <1>0, <1>3 DEF NetFails, Placed
    <2> QED
      BY <1>3, <2>1, AnswerStep DEF NetFails, Reply
  <1>4. CASE Body(i)
    <2>1. i \notin audited' /\ audited' = audited
      BY <1>0, <1>4 DEF Body, Placed
    <2>2. CASE dims[i] \in {"refused", "broke"} /\ Answer(i, "upstream")
      BY <1>4, <2>1, <2>2, AnswerStep DEF Body, Reply
    <2>3. CASE dims[i] = "made" /\ ~Changes(op[i]) /\ Answer(i, "ok")
      BY <1>4, <2>1, <2>3, AnswerStep DEF Body, Reply
    <2>4. CASE dims[i] = "made" /\ Changes(op[i]) /\ Goto(i, "audit")
               /\ UNCHANGED <<reply, connections>>
      BY <1>4, <2>1, <2>4, GotoStep DEF Body
    <2> QED
      BY <1>4, <2>2, <2>3, <2>4 DEF Body
  <1>5. CASE BodyFails(i)
    <2>1. i \notin audited'
      BY <1>0, <1>5 DEF BodyFails, Placed
    <2> QED
      BY <1>5, <2>1, AnswerStep DEF BodyFails, Reply
  <1>6. CASE Audit(i)
    <2>1. dims[i] = "made" /\ Changes(op[i])
      BY <1>0, <1>6 DEF Audit, Placed
    <2> QED
      BY <1>6, <2>1, AnswerStep DEF Audit, Reply
  <1> QED
    BY <1>1, <1>2, <1>3, <1>4, <1>5, <1>6 DEF Call

-----------------------------------------------------------------------------
(* The steps of the process and of the clock.                              *)

LEMMA ExitsStep ==
  ASSUME ServerInv, NEW how \in Exit \ {"none"}, Exits(how), phase # "exited",
         how = "clean" => phase = "disconnecting"
  PROVE  ServerInv'
  <1>1. TypeOK
    BY DEF ServerInv
  <1>2. /\ phase' = "exited" /\ exit' = how
        /\ UNCHANGED <<force, early, linger, hungUp, dims, applied, op, age>>
    BY DEF Exits, connections, upstream
  <1>a. /\ audited \subseteq audited'
        /\ audited' \subseteq audited \cup {j \in Request : pc[j] = "audit"}
    BY DEF Exits
  <1>3. /\ pc' \in [Request -> Stage] /\ reply' \in [Request -> Reply]
        /\ \A j \in InFlight : pc'[j] = "done" /\ reply'[j] = "lost"
        /\ \A j \in Request \ InFlight : pc'[j] = pc[j] /\ reply'[j] = reply[j]
    BY <1>1 DEF Exits, TypeOK, Stage, Reply, InFlight
  <1>4. TypeOK'
    BY <1>1, <1>2, <1>a, <1>3 DEF TypeOK, Phase
  <1>5. ASSUME NEW j \in Request PROVE Placed(j)'
    <2>1. Placed(j)
      BY DEF ServerInv
    <2>2. CASE j \in InFlight
      <3>1. pc[j] \in {"fetch", "body", "audit"}
        BY <1>1, <2>2 DEF InFlight, TypeOK, Stage
      <3>2. how = "clean" => j \in hungUp
        BY <2>1, <3>1 DEF Placed
      <3> QED
        BY <1>2, <1>a, <1>3, <2>1, <2>2, <3>1, <3>2 DEF Placed
    <2>3. CASE j \notin InFlight
      <3>1. pc[j] \in {"idle", "done"} /\ pc'[j] = pc[j] /\ reply'[j] = reply[j]
        BY <1>3, <2>3 DEF InFlight
      <3> QED
        BY <1>2, <1>a, <2>1, <3>1 DEF Placed
    <2> QED
      BY <2>2, <2>3
  <1> QED
    BY <1>2, <1>4, <1>5 DEF ServerInv

LEMMA KeysLoadedStep ==
  ASSUME ServerInv, KeysLoaded
  PROVE  ServerInv'
  <1>1. /\ phase = "boot" /\ phase' = "up"
        /\ UNCHANGED <<exit, force, early, linger, hungUp, dims, applied, pc, op, age,
                       reply, audited>>
    BY DEF KeysLoaded, connections, upstream, calls
  <1>2. TypeOK'
    BY <1>1 DEF ServerInv, TypeOK, Phase
  <1>3. \A j \in Request : Placed(j)'
    BY <1>1 DEF ServerInv, Placed, Stopping
  <1> QED
    BY <1>1, <1>2, <1>3 DEF ServerInv

LEMMA ShutDownStep ==
  ASSUME ServerInv, ShutDown
  PROVE  ServerInv'
  <1>1. /\ phase = "up" /\ phase' = "closing" /\ force' = Grace /\ linger' = FALSE
        /\ early' = InFlight
        /\ UNCHANGED <<exit, hungUp, dims, applied, pc, op, age, reply, audited>>
    BY DEF ShutDown, upstream, calls
  <1>2. TypeOK'
    <2>1. Grace \in 0..Grace /\ InFlight \subseteq Request
      BY ServerAssumption DEF InFlight
    <2> QED
      BY <1>1, <2>1 DEF ServerInv, TypeOK, Phase
  <1>3. ASSUME NEW j \in Request PROVE Placed(j)'
    <2>1. Placed(j) /\ age[j] \in 0..(Timeout + 1)
      BY DEF ServerInv, TypeOK
    <2>2. age[j] + Grace >= Grace
      BY <2>1, ServerAssumption
    <2>3. j \in InFlight => pc[j] # "idle"
      BY DEF InFlight
    <2> QED
      BY <1>1, <2>1, <2>2, <2>3 DEF Placed
  <1> QED
    BY <1>1, <1>2, <1>3 DEF ServerInv

LEMMA ConnectionEndsStep ==
  ASSUME ServerInv, ConnectionEnds
  PROVE  ServerInv'
  <1>1. /\ UNCHANGED <<phase, exit, force, early, hungUp, dims, applied, pc, op, age,
                       reply, audited>>
        /\ linger' = FALSE
    BY DEF ConnectionEnds, process, upstream, calls
  <1>2. TypeOK'
    BY <1>1 DEF ServerInv, TypeOK
  <1>3. \A j \in Request : Placed(j)'
    BY <1>1 DEF ServerInv, Placed, Stopping
  <1> QED
    BY <1>1, <1>2, <1>3 DEF ServerInv

LEMMA DrainedStep ==
  ASSUME ServerInv, Drained
  PROVE  ServerInv'
  <1>1. /\ phase = "closing" /\ phase' = "disconnecting" /\ InFlight \subseteq hungUp
        /\ UNCHANGED <<exit, force, early, linger, hungUp, dims, applied, pc, op, age,
                       reply, audited>>
    BY DEF Drained, connections, upstream, calls
  <1>2. TypeOK'
    BY <1>1 DEF ServerInv, TypeOK, Phase
  <1>3. ASSUME NEW j \in Request PROVE Placed(j)'
    <2>1. Placed(j)
      BY DEF ServerInv
    <2>2. pc[j] \in {"fetch", "body", "audit"} => j \in hungUp
      BY <1>1 DEF InFlight
    <2> QED
      BY <1>1, <2>1, <2>2 DEF Placed, Stopping
  <1> QED
    BY <1>1, <1>2, <1>3 DEF ServerInv

LEMMA TickStep ==
  ASSUME ServerInv, Tick
  PROVE  ServerInv'
  <1>1. /\ ~Due
        /\ force' = IF phase \in Stopping THEN force - 1 ELSE force
        /\ UNCHANGED <<phase, exit, early, linger, hungUp, dims, applied, pc, op, reply,
                       audited>>
    BY DEF Tick, connections, upstream
  <1>2. TypeOK
    BY DEF ServerInv
  <1>3. force' \in 0..Grace
    BY <1>1, <1>2, ServerAssumption DEF Due, TypeOK
  <1>4. /\ age' \in [Request -> 0..(Timeout + 1)]
        /\ \A j \in Request :
              age'[j] = IF pc[j] \in {"fetch", "body"} /\ age[j] <= Timeout THEN age[j] + 1
                        ELSE age[j]
    BY <1>2, ServerAssumption DEF Tick, TypeOK
  <1>5. TypeOK'
    BY <1>1, <1>2, <1>3, <1>4 DEF TypeOK
  <1>6. ASSUME NEW j \in Request PROVE Placed(j)'
    <2>1. /\ Placed(j) /\ age[j] \in 0..(Timeout + 1)
          /\ force \in 0..Grace /\ Timeout \in Nat /\ Grace \in Nat
      BY <1>2, ServerAssumption DEF ServerInv, TypeOK
    <2>2. ASSUME pc[j] = "fetch" PROVE age'[j] = age[j] + 1 /\ age[j] + 1 <= Timeout
      <3>1. age[j] <= Timeout /\ age[j] # Timeout
        BY <1>1, <2>1, <2>2 DEF Due, Placed
      <3> QED
        BY <1>4, <2>1, <2>2, <3>1
    <2>3. ASSUME j \in early, pc[j] = "fetch", phase \in Stopping
          PROVE  age'[j] + force' >= Grace
      <3>1. age[j] + force >= Grace /\ force' = force - 1 /\ age'[j] = age[j] + 1
        BY <1>1, <2>1, <2>2, <2>3 DEF Placed
      <3> QED
        BY <2>1, <3>1
    <2> QED
      BY <1>1, <2>1, <2>2, <2>3 DEF Placed, Stopping
  <1> QED
    BY <1>1, <1>5, <1>6 DEF ServerInv

LEMMA LifeStep ==
  ASSUME ServerInv, Life
  PROVE  ServerInv'
  <1>1. CASE KeysLoaded
    BY <1>1, KeysLoadedStep
  <1>2. CASE KeysFail
    BY <1>2, ExitsStep DEF KeysFail, Exit
  <1>3. CASE ShutDown
    BY <1>3, ShutDownStep
  <1>4. CASE ConnectionEnds
    BY <1>4, ConnectionEndsStep
  <1>5. CASE Drained
    BY <1>5, DrainedStep
  <1>6. CASE Disconnected
    BY <1>6, ExitsStep DEF Disconnected, Exit
  <1>7. CASE ForceExit
    BY <1>7, ExitsStep DEF ForceExit, Exit, Stopping
  <1>8. CASE Killed
    BY <1>8, ExitsStep DEF Killed, Exit
  <1> QED
    BY <1>1, <1>2, <1>3, <1>4, <1>5, <1>6, <1>7, <1>8 DEF Life

LEMMA StutterStep ==
  ASSUME ServerInv, UNCHANGED vars
  PROVE  ServerInv'
  <1>1. UNCHANGED <<phase, exit, force, early, linger, hungUp, dims, applied, pc, op, age,
                    reply, audited>>
    BY DEF vars, process, connections, upstream, calls
  <1>2. TypeOK'
    BY <1>1 DEF ServerInv, TypeOK
  <1>3. \A j \in Request : Placed(j)'
    BY <1>1 DEF ServerInv, Placed
  <1> QED
    BY <1>1, <1>2, <1>3 DEF ServerInv

LEMMA ServerStep == ServerInv /\ [Next]_vars => ServerInv'
  <1> SUFFICES ASSUME ServerInv, [Next]_vars PROVE ServerInv'
    OBVIOUS
  <1>1. ASSUME NEW i \in Request, NEW k \in Kinds, Arrive(i, k) PROVE ServerInv'
    BY <1>1, ArriveStep
  <1>2. ASSUME NEW i \in Request, HangUp(i) PROVE ServerInv'
    BY <1>2, HangUpStep
  <1>3. ASSUME NEW i \in Request, Call(i) PROVE ServerInv'
    BY <1>3, CallStep
  <1>4. ASSUME NEW i \in Request, DimsActs(i) PROVE ServerInv'
    BY <1>4, DimsStep
  <1>5. CASE Life
    BY <1>5, LifeStep
  <1>6. CASE Tick
    BY <1>6, TickStep
  <1>7. CASE UNCHANGED vars
    BY <1>7, StutterStep
  <1> QED
    BY <1>1, <1>2, <1>3, <1>4, <1>5, <1>6, <1>7 DEF Next

-----------------------------------------------------------------------------
(* Theorems.                                                               *)

\* ServerInv is inductive: where a call is says what it has been answered, what
\* DIMS has done and what the process may be doing meanwhile (labs.services.ts,
\* dims.services.ts, shutdown.ts).
THEOREM ServerCorrect == Spec => []ServerInv
  BY ServerInit, ServerStep, PTL DEF Spec

\* Every variable keeps its type; a timer never runs below zero or past its limit.
THEOREM TypeCorrect == Spec => []TypeOK
  <1>1. ServerInv => TypeOK
    BY DEF ServerInv
  <1> QED
    BY <1>1, ServerCorrect, PTL

\* For any requests and connections, an exit with code 0 cut off nobody who still
\* waited for an answer (the callback of server.close in shutdown.ts).
THEOREM CleanExitCorrect == Spec => []CleanExitLosesNothing
  <1>1. ServerInv => CleanExitLosesNothing
    BY DEF ServerInv, Placed, CleanExitLosesNothing
  <1> QED
    BY <1>1, ServerCorrect, PTL

\* For any calls and failures, a change that was audited or answered with 2xx was
\* made by DIMS (labs.services.ts, normalizeDimsError).
THEOREM LabsCorrect == Spec => []LabsTellTheTruth
  <1>1. ServerInv => LabsTellTheTruth
    BY DEF ServerInv, Placed, LabsTellTheTruth
  <1> QED
    BY <1>1, ServerCorrect, PTL

\* For any requests, connections and clients: while the database takes the inserts,
\* a client who is told that a change was made finds it in the log (writeAudit in
\* labs.services.ts, the callback of server.close in shutdown.ts).
THEOREM AuditsCorrect == Spec => AnsweredChangesAreLogged
  <1> DEFINE Logged(i) ==
        "audit" \notin Faults /\ reply[i] # "ok" /\ reply'[i] = "ok" /\ Changes(op[i])
            => i \in audited'
  <1>1. ASSUME ServerInv, [Next]_vars, NEW i \in Request \ hungUp PROVE Logged(i)
    <2> SUFFICES ASSUME "audit" \notin Faults, reply[i] # "ok", reply'[i] = "ok",
                        Changes(op[i])
                 PROVE  i \in audited'
      OBVIOUS
    <2>1. TypeOK /\ Placed(i)
      BY <1>1 DEF ServerInv
    <2>2. \A j \in Request, code \in Reply : Answer(j, code) /\ code # "ok" => FALSE
      BY <2>1, AnswerEffect DEF Answer, TypeOK, Reply
    <2>3. \A j \in Request \ {i}, code \in Reply : ~Answer(j, code)
      BY <2>1 DEF Answer, TypeOK, Reply
    <2>4. \A j \in Request, k \in Kinds : ~Arrive(j, k)
      BY <2>2 DEF Arrive, Reply
    <2>5. \A j \in Request : ~HangUp(j) /\ ~DimsActs(j) /\ ~Headers(j)
      BY DEF HangUp, DimsActs, Headers, calls
    <2>6. \A j \in Request : ~Abort(j) /\ ~NetFails(j) /\ ~BodyFails(j)
      BY <2>2 DEF Abort, NetFails, BodyFails, Reply
    <2>7. \A j \in Request : ~Body(j)
      <3> SUFFICES ASSUME NEW j \in Request, Body(j) PROVE FALSE
        OBVIOUS
      <3>1. UNCHANGED op /\ (reply' = reply \/ (Answer(j, "ok") /\ ~Changes(op[j])))
        BY <2>2 DEF Body, Reply
      <3> QED
        BY <2>3, <3>1 DEF Reply
    <2>8. ~Life /\ ~Tick /\ ~UNCHANGED vars
      <3>1. \A how : ~Exits(how)
        BY <2>1 DEF Exits, TypeOK
      <3> QED
        BY <3>1 DEF Life, KeysLoaded, KeysFail, ShutDown, ConnectionEnds, Drained,
                    Disconnected, ForceExit, Killed, Tick, vars, calls
    <2>9. PICK j \in Request : Audit(j)
      BY <1>1, <2>4, <2>5, <2>6, <2>7, <2>8 DEF Next, Call
    <2>10. j = i
      BY <2>3, <2>9 DEF Audit, Reply
    <2>11. phase # "disconnecting"
      BY <2>1, <2>9, <2>10 DEF Audit, Placed
    <2> QED
      BY <2>9, <2>10, <2>11 DEF Audit
  <1>2. ASSUME ServerInv, [Next]_vars PROVE \A i \in Request \ hungUp : Logged(i)
    BY <1>1, <1>2
  <1>3. Spec => [][\A i \in Request \ hungUp : Logged(i)]_vars
    BY <1>2, ServerCorrect, PTL DEF Spec
  <1> QED
    BY <1>3 DEF AnsweredChangesAreLogged

\* For any time limits of which the one on calls is shorter, the forced exit cuts
\* off no call that began before the shutdown and waits for headers.
THEOREM GraceCorrect == Spec => GraceCoversCalls
  <1> DEFINE Covered == Timeout < Grace /\ exit' = "forced" /\ exit = "none"
                           => \A i \in early : pc[i] # "fetch"
  <1>1. ASSUME ServerInv, [Next]_vars PROVE Covered
    <2> SUFFICES ASSUME Timeout < Grace, exit' = "forced", exit = "none",
                        NEW i \in early, pc[i] = "fetch"
                 PROVE  FALSE
      OBVIOUS
    <2>1. ForceExit
      <3>1. \A j \in Request, k \in Kinds : ~Arrive(j, k)
        BY DEF Arrive, process
      <3>2. \A j \in Request : ~HangUp(j) /\ ~DimsActs(j)
        BY DEF HangUp, DimsActs, process
      <3>3. \A j \in Request : ~Call(j)
        BY DEF Call, Headers, Abort, NetFails, Body, BodyFails, Audit, process
      <3>4. Life
        BY <1>1, <3>1, <3>2, <3>3 DEF Next, Tick, vars, process
      <3> QED
        BY <3>4 DEF Life, KeysLoaded, KeysFail, ShutDown, ConnectionEnds, Drained,
                    Disconnected, Killed, Exits, process
    <2>2. phase \in Stopping /\ force = 0
      BY <2>1 DEF ForceExit
    <2>3. i \in Request /\ Placed(i) /\ age[i] \in 0..(Timeout + 1)
      BY <1>1 DEF ServerInv, TypeOK
    <2>4. age[i] <= Timeout /\ age[i] + 0 >= Grace
      BY <2>2, <2>3 DEF Placed
    <2> QED
      BY <2>3, <2>4, ServerAssumption
  <1>2. Spec => [][Covered]_vars
    BY <1>1, ServerCorrect, PTL DEF Spec
  <1> QED
    BY <1>2 DEF GraceCoversCalls
=============================================================================
