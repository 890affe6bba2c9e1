------------------------------- MODULE Operator -------------------------------
(***************************************************************************)
(* Rbac with the program an operator runs beside the server to give the    *)
(* first administrator the SuperAdmin role (scripts/bootstrap-superadmin.ts)*)
(* It is a process of its own with its own connection: it has no cache to  *)
(* invalidate, writes no audit row, uses no transaction, and a crash of the*)
(* server does not stop it.                                                *)
(***************************************************************************)
EXTENDS Rbac

CONSTANT SuperAdmin  \* SUPERADMIN_ROLE_NAME

VARIABLE script  \* the query it waits for and its locals

opVars == <<vars, script>>

ScriptStage == {"off", "role", "check", "create"}

\* user and role are sets of at most one: what the program has looked up.
Script == [at : ScriptStage, user : SUBSET User, role : SUBSET Role]
Off == [at |-> "off", user |-> {}, role |-> {}]

Exits == script' = Off

\* The live row of the e-mail address it was given; without one it stops here.
ScriptStart ==
    /\ script.at = "off"
    /\ \E u \in users : script' = [at |-> "role", user |-> {u}, role |-> {}]
    /\ UNCHANGED vars

ScriptFindRole ==
    /\ script.at = "role"
    /\ \E r \in Bearers(SuperAdmin) :
          script' = [script EXCEPT !.at = "check", !.role = {r}]
    /\ UNCHANGED vars

Grant_Swapped == script.role \X script.user
Grant == script.user \X script.role

ScriptCheck ==
    /\ script.at = "check"
    /\ \/ Grant \subseteq userRoles /\ Exits
       \/ ~(Grant \subseteq userRoles) /\ script' = [script EXCEPT !.at = "create"]
    /\ UNCHANGED vars

ScriptCreate ==
    /\ script.at = "create"
    /\ ~(Grant \subseteq userRoles)
    /\ userRoles' = userRoles \cup Grant
    /\ Exits
    /\ UNCHANGED <<users, roles, rolePerms, journal, store, control>>

\* There is no such role, the primary key refuses an assignment that has
\* appeared since the check, a query fails, or the operator stops the program.
ScriptFails ==
    /\ script.at # "off"
    /\ Exits
    /\ UNCHANGED vars

ScriptStep ==
    \/ ScriptStart
    \/ ScriptFindRole
    \/ ScriptCheck
    \/ ScriptCreate
    \/ ScriptFails

OpInit ==
    /\ Init
    /\ script = Off

OpNext == (Next /\ UNCHANGED script) \/ ScriptStep

OpSpec == OpInit /\ [][OpNext]_opVars

OpTypeOK == TypeOK /\ script \in Script
=============================================================================
