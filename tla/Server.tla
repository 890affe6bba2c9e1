------------------------------- MODULE Server -------------------------------
(***************************************************************************)
(* The process around the handlers, and the requests it forwards: booting  *)
(* with the signing keys (server.ts, keystore.ts), the labs routes and the *)
(* DIMS API behind them (labs.services.ts, dims.services.ts), and the      *)
(* graceful shutdown with its forced exit (shutdown.ts).                   *)
(*                                                                         *)
(* Time is a count of ticks.  Node runs a timer's callback when it is due, *)
(* so no tick passes while one is.                                         *)
(*                                                                         *)
(* A definition named X_SomeBug is a mutant of X: the definition a likely  *)
(* mistake in the code would give.                                         *)
(***************************************************************************)
EXTENDS Integers, FiniteSets

CONSTANTS
    Request,  \* requests to the labs routes; each is served once
    Kinds,    \* the labs routes that clients call
    Faults,   \* what may fail: "keys", "net" (to DIMS), "audit" (its insert), "kill"
    Timeout,  \* DIMS_API_TIMEOUT_MS, in ticks
    Grace     \* SHUTDOWN_TIMEOUT_MS, in ticks

ASSUME ServerAssumption ==
    /\ Kinds \subseteq {"list", "create", "update", "delete"}
    /\ Faults \subseteq {"keys", "net", "audit", "kill"}
    /\ Timeout \in Nat \ {0}
    /\ Grace \in Nat \ {0}

VARIABLES
    phase,    \* what the process is doing
    exit,     \* how it ended, or "none"
    force,    \* ticks left on the forceExit timer
    linger,   \* a connection is open with no request on it, after server.close
    hungUp,   \* requests whose client closed the connection before the answer
    early,    \* history: requests in flight when the shutdown began
    pc,       \* the await a request is suspended at
    op,       \* the route it came by
    age,      \* ticks since its call of DIMS began, at most Timeout + 1
    reply,    \* what it was answered
    dims,     \* what DIMS has done with the call
    applied,  \* requests whose change DIMS has made
    audited   \* requests that have a row in DIMSAdminAuditLogs

process == <<phase, exit, force, early>>
connections == <<linger, hungUp>>
upstream == <<dims, applied>>
calls == <<pc, op, age, reply>>
vars == <<process, connections, upstream, calls, audited>>

Phase == {"boot", "up", "closing", "disconnecting", "exited"}
Exit == {"none", "clean", "forced", "failed", "killed"}
Stage == {"idle", "fetch", "body", "audit", "done"}
Reply == {"none", "ok", "rejected", "timeout", "unavailable", "upstream", "error", "lost"}
Progress == {"none", "sent", "made", "refused", "broke"}

Stopping == {"closing", "disconnecting"}
InFlight == {i \in Request : pc[i] \notin {"idle", "done"}}
Changes(k) == k # "list"

-----------------------------------------------------------------------------
(* Requests and connections.                                               *)

\* The response ends, if only for the handler.  While the server closes, the
\* client may keep its connection.
Answer(i, code) ==
    /\ pc' = [pc EXCEPT ![i] = "done"]
    /\ reply' = [reply EXCEPT ![i] = code]
    /\ linger' \in IF phase = "closing" /\ i \notin hungUp THEN {linger, TRUE} ELSE {linger}
    /\ hungUp' = hungUp \ {i}

Goto(i, stage) == pc' = [pc EXCEPT ![i] = stage]

\* A request arrives: on a new connection, or on one that is still open.  The
\* gate or the schema rejects it, or callDims signs a token and sends the call.
Arrive(i, k) ==
    /\ k \in Kinds
    /\ pc[i] = "idle"
    /\ phase = "up" \/ (phase = "closing" /\ linger)
    /\ op' = [op EXCEPT ![i] = k]
    /\ \/ /\ Answer(i, "rejected")
          /\ UNCHANGED <<age, dims>>
       \/ /\ Goto(i, "fetch")
          /\ age' = [age EXCEPT ![i] = 0]
          /\ dims' = [dims EXCEPT ![i] = "sent"]
          /\ linger' \in IF phase = "closing" THEN {FALSE, TRUE} ELSE {linger}
          /\ UNCHANGED <<reply, hungUp>>
    /\ UNCHANGED <<process, applied, audited>>

\* The client goes away.  Nothing tells the handler, which carries on.
HangUp(i) ==
    /\ i \in InFlight \ hungUp
    /\ hungUp' = hungUp \cup {i}
    /\ UNCHANGED <<process, linger, upstream, calls, audited>>

\* DIMS acts on a request that reaches it, whoever still waits for the answer.
\* After a status of 500 or more nobody knows whether it made the change.
DimsActs(i) ==
    /\ dims[i] = "sent"
    /\ \E outcome \in {"made", "refused", "broke"} :
          /\ dims' = [dims EXCEPT ![i] = outcome]
          /\ LET change == IF Changes(op[i]) THEN {i} ELSE {} IN
             applied' \in CASE outcome = "made" -> {applied \cup change}
                            [] outcome = "refused" -> {applied}
                            [] outcome = "broke" -> {applied, applied \cup change}
    /\ UNCHANGED <<process, connections, calls, audited>>

\* fetch resolves with the headers, and the finally block clears the timer.
Headers(i) ==
    /\ pc[i] = "fetch"
    /\ dims[i] \in {"made", "refused", "broke"}
    /\ Goto(i, "body")
    /\ UNCHANGED <<process, connections, upstream, op, age, reply, audited>>

\* The timer aborts the fetch.
Abort_Unwired(i) == FALSE /\ Answer(i, "timeout") /\ UNCHANGED <<process, upstream, op, age, audited>>
Abort(i) ==
    /\ pc[i] = "fetch"
    /\ age[i] = Timeout
    /\ Answer(i, "timeout")
    /\ UNCHANGED <<process, upstream, op, age, audited>>

\* The connection to DIMS fails before the headers are there.
NetFails_Rethrown(i) ==
    /\ "net" \in Faults
    /\ pc[i] = "fetch"
    /\ Answer(i, "ECONNRESET")
    /\ UNCHANGED <<process, upstream, op, age, audited>>
NetFails(i) ==
    /\ "net" \in Faults
    /\ pc[i] = "fetch"
    /\ Answer(i, "unavailable")
    /\ UNCHANGED <<process, upstream, op, age, audited>>

Body_IgnoresStatus(i) ==
    /\ pc[i] = "body"
    /\ IF Changes(op[i]) THEN Goto(i, "audit") /\ UNCHANGED <<reply, connections>>
       ELSE Answer(i, "ok")
    /\ UNCHANGED <<process, upstream, op, age, audited>>
\* The body is there: a status that is not 2xx becomes an UpstreamError; a
\* change that DIMS made is audited next.
Body(i) ==
    /\ pc[i] = "body"
    /\ \/ dims[i] \in {"refused", "broke"} /\ Answer(i, "upstream")
       \/ dims[i] = "made" /\ ~Changes(op[i]) /\ Answer(i, "ok")
       \/ dims[i] = "made" /\ Changes(op[i]) /\ Goto(i, "audit") /\ UNCHANGED <<reply, connections>>
    /\ UNCHANGED <<process, upstream, op, age, audited>>

\* The connection fails while the body is read, outside of the try block.
BodyFails(i) ==
    /\ "net" \in Faults
    /\ pc[i] = "body"
    /\ Answer(i, "error")
    /\ UNCHANGED <<process, upstream, op, age, audited>>

\* writeAudit swallows its own failure, as when Prisma is disconnecting.
Audit(i) ==
    /\ pc[i] = "audit"
    /\ \/ audited' = audited \cup {i}
       \/ /\ "audit" \in Faults \/ phase = "disconnecting"
          /\ audited' = audited
    /\ Answer(i, "ok")
    /\ UNCHANGED <<process, upstream, op, age>>

-----------------------------------------------------------------------------
(* Boot and shutdown.                                                      *)

\* The process ends, and with it the requests it was serving.  An insert that was
\* on its way to the database may have been made.
Exits(how) ==
    /\ phase' = "exited"
    /\ exit' = how
    /\ pc' = [i \in Request |-> IF i \in InFlight THEN "done" ELSE pc[i]]
    /\ reply' = [i \in Request |-> IF i \in InFlight THEN "lost" ELSE reply[i]]
    /\ \E made \in SUBSET {i \in Request : pc[i] = "audit"} : audited' = audited \cup made
    /\ UNCHANGED <<force, early, connections, upstream, op, age>>

\* bootstrap loads the keys before it listens, and registers the handlers.
KeysLoaded ==
    /\ phase = "boot"
    /\ phase' = "up"
    /\ UNCHANGED <<exit, force, early, connections, upstream, calls, audited>>

KeysFail == "keys" \in Faults /\ phase = "boot" /\ Exits("failed")

\* A signal or an uncaught error: the timer is armed, and server.close ends the
\* connections that have no request on them.  Later signals change nothing.
ShutDown_SameLimit ==
    /\ phase = "up"
    /\ phase' = "closing"
    /\ force' = Timeout
    /\ linger' = FALSE
    /\ early' = InFlight
    /\ UNCHANGED <<exit, hungUp, upstream, calls, audited>>
ShutDown ==
    /\ phase = "up"
    /\ phase' = "closing"
    /\ force' = Grace
    /\ linger' = FALSE
    /\ early' = InFlight
    /\ UNCHANGED <<exit, hungUp, upstream, calls, audited>>

\* A connection without a request is closed by its client, or by the keep-alive
\* timeout of 65 s.
ConnectionEnds ==
    /\ phase = "closing"
    /\ linger
    /\ linger' = FALSE
    /\ UNCHANGED <<process, hungUp, upstream, calls, audited>>

\* The callback of server.close: every connection has ended.  It waits for
\* connections, so a handler whose client has gone may still be at work.
Drained_AtOnce ==
    /\ phase = "closing"
    /\ phase' = "disconnecting"
    /\ UNCHANGED <<exit, force, early, connections, upstream, calls, audited>>
Drained ==
    /\ phase = "closing"
    /\ InFlight \subseteq hungUp
    /\ ~linger
    /\ phase' = "disconnecting"
    /\ UNCHANGED <<exit, force, early, connections, upstream, calls, audited>>

\* closePrisma settles, whatever $disconnect did.
Disconnected == phase = "disconnecting" /\ Exits("clean")

ForceExit_Unarmed == FALSE /\ Exits("forced")
ForceExit == phase \in Stopping /\ force = 0 /\ Exits("forced")

\* SIGKILL, or the machine goes.
Killed == "kill" \in Faults /\ phase # "exited" /\ Exits("killed")

-----------------------------------------------------------------------------
(* Time.                                                                   *)

\* A timer is due whose callback has not run.
Due ==
    \/ phase \in Stopping /\ force = 0
    \/ \E i \in Request : pc[i] = "fetch" /\ age[i] = Timeout

\* Past the time limit nothing tells later ages apart.
Tick ==
    /\ ~Due
    /\ force' = IF phase \in Stopping THEN force - 1 ELSE force
    /\ age' = [i \in Request |->
                  IF pc[i] \in {"fetch", "body"} /\ age[i] <= Timeout THEN age[i] + 1
                  ELSE age[i]]
    /\ UNCHANGED <<phase, exit, early, connections, upstream, pc, op, reply, audited>>

-----------------------------------------------------------------------------
Init ==
    /\ phase = "boot"
    /\ exit = "none"
    /\ force = Grace
    /\ linger = FALSE
    /\ hungUp = {}
    /\ early = {}
    /\ pc = [i \in Request |-> "idle"]
    /\ op = [i \in Request |-> "none"]
    /\ age = [i \in Request |-> 0]
    /\ reply = [i \in Request |-> "none"]
    /\ dims = [i \in Request |-> "none"]
    /\ applied = {}
    /\ audited = {}

\* What happens to a call of DIMS, as the process sees it.
Call(i) ==
    \/ Headers(i)
    \/ Abort(i)
    \/ NetFails(i)
    \/ Body(i)
    \/ BodyFails(i)
    \/ Audit(i)

Life ==
    \/ KeysLoaded
    \/ KeysFail
    \/ ShutDown
    \/ ConnectionEnds
    \/ Drained
    \/ Disconnected
    \/ ForceExit
    \/ Killed

Next ==
    \/ \E i \in Request : (\E k \in Kinds : Arrive(i, k)) \/ HangUp(i) \/ Call(i) \/ DimsActs(i)
    \/ Life
    \/ Tick

Spec == Init /\ [][Next]_vars

\* Timers fire and the event loop runs what is due.  fetch gives up on a body
\* that stalls (its own limit between two chunks is 300 s); that a body ends or
\* stalls, and does not trickle for ever, is assumed.  That DIMS answers is not, nor
\* anything of clients that keep a connection or of the disconnect.
Fairness ==
    /\ \A i \in Request : WF_vars(Abort(i)) /\ WF_vars(Audit(i))
    /\ \A i \in Request : WF_vars(Body(i) \/ BodyFails(i))
    /\ WF_vars(ForceExit)
    /\ WF_vars(Tick)

FairSpec == Spec /\ Fairness

-----------------------------------------------------------------------------
(* Properties.                                                             *)

TypeOK ==
    /\ phase \in Phase
    /\ exit \in Exit
    /\ force \in 0..Grace
    /\ linger \in BOOLEAN
    /\ hungUp \subseteq Request
    /\ early \subseteq Request
    /\ pc \in [Request -> Stage]
    /\ op \in [Request -> {"none", "list", "create", "update", "delete"}]
    /\ age \in [Request -> 0..(Timeout + 1)]
    /\ reply \in [Request -> Reply]
    /\ dims \in [Request -> Progress]
    /\ applied \subseteq Request
    /\ audited \subseteq Request

\* An exit with code 0 cut off no request that anybody waited for: whatever
\* arrived was answered, also on connections that were kept while the server closed.
CleanExitLosesNothing ==
    exit = "clean" => \A i \in Request \ hungUp : reply[i] # "lost"

\* Our log and our answers agree with what DIMS did, whatever failed between us: a
\* change we audited or answered with 2xx was made.
LabsTellTheTruth ==
    \A i \in Request :
        i \in audited \/ (reply[i] = "ok" /\ Changes(op[i])) => i \in applied

\* While the database takes the inserts, a client who is told that a change was made
\* finds it in the log: only a handler that nobody waits for may still be writing
\* when the shutdown disconnects the database.
AnsweredChangesAreLogged ==
    [][\A i \in Request \ hungUp :
          "audit" \notin Faults /\ reply[i] # "ok" /\ reply'[i] = "ok" /\ Changes(op[i])
             => i \in audited']_vars

\* The forced exit leaves calls the time they have: with a shorter limit on calls
\* than on the shutdown, it cuts off no call that began before the shutdown and
\* still waits for the headers of its answer.
GraceCoversCalls ==
    [][Timeout < Grace /\ exit' = "forced" /\ exit = "none"
          => \A i \in early : pc[i] # "fetch"]_vars

\* A shutdown ends, although DIMS, a client or the database may never let go of
\* the process.
ExitsEventually == phase = "closing" ~> phase = "exited"

\* A call of DIMS ends, although DIMS may never answer.
CallsEnd == \A i \in Request : pc[i] = "fetch" ~> pc[i] = "done"

\* What the safety properties rest on.
Placed(i) ==
    /\ pc[i] = "idle" => reply[i] = "none" /\ dims[i] = "none"
    /\ pc[i] \in {"fetch", "body", "audit"} =>
          /\ reply[i] = "none"
          /\ phase \in {"up", "closing"} \/ (phase = "disconnecting" /\ i \in hungUp)
    /\ pc[i] = "fetch" => age[i] <= Timeout
    /\ pc[i] = "audit" => dims[i] = "made" /\ Changes(op[i])
    /\ reply[i] = "ok" => dims[i] = "made"
    /\ i \in audited => pc[i] = "done" /\ dims[i] = "made" /\ Changes(op[i])
    /\ dims[i] = "made" /\ Changes(op[i]) => i \in applied
    /\ reply[i] = "lost" => phase = "exited"
    /\ reply[i] = "lost" /\ exit = "clean" => i \in hungUp
    /\ i \in early => pc[i] # "idle"
    /\ i \in early /\ pc[i] = "fetch" /\ phase \in Stopping => age[i] + force >= Grace

ServerInv ==
    /\ TypeOK
    /\ phase # "exited" => exit = "none"
    /\ \A i \in Request : Placed(i)

\* ----- What the repository says and the code does not do -----

\* dims.services.ts: "Enforce a hard timeout via AbortController": nobody waits
\* longer for DIMS than the time limit.
HardTimeout ==
    \A i \in Request : pc[i] \in {"fetch", "body"} => age[i] <= Timeout
=============================================================================
