------------------------------ MODULE RbacAccess ------------------------------
(***************************************************************************)
(* Rbac and the operator's program implement Access: however invalidations *)
(* are missed, overtaken or never made, no request is let in with a view of*)
(* its user's permissions that is out of date for TTL + Lag ticks or more. *)
(*                                                                         *)
(* Three history variables measure time and remember what requests were     *)
(* given; they constrain one thing only: time does not pass while an       *)
(* answer of the database has been waiting for Lag ticks to be cached.     *)
(***************************************************************************)
EXTENDS Operator

CONSTANT Lag  \* bound on the ticks between a load's read and its store

ASSUME AccessAssumption ==
    /\ TTL > 0
    /\ Lag \in Nat

Window == TTL + Lag

VARIABLES
    changed, \* ticks since a user last gained or lost a permission
    waited,  \* ticks since the database read the rows a load is to store
    granted  \* req.permissions: a function from the requests that have them

accessVars == <<opVars, changed, waited, granted>>

Held == [u \in User |-> Effective(u)]

A == INSTANCE Access WITH held <- Held

-----------------------------------------------------------------------------
\* A step that takes no time: the clock of what it gives or takes starts again.
NoteChanges ==
    changed' = [u \in User |-> [p \in Perm |->
                   IF p \in Held'[u] <=> p \in Held[u] THEN changed[u][p] ELSE 0]]

\* A hit hands out the entry.
TLookup(i, u) ==
    /\ Lookup(i, u)
    /\ granted' = IF Hit(u) THEN A!Given(i, Sweep[u].keys) ELSE granted
    /\ UNCHANGED waited

TQuery(i) ==
    /\ Query(i)
    /\ UNCHANGED <<waited, granted>>

\* The rows go into the cache and into req.permissions.
TStore(i) ==
    /\ Store(i)
    /\ granted' = A!Given(i, rows[i])
    /\ waited' = [waited EXCEPT ![i] = 0]

TOther(i) ==
    /\ \/ Arrive(i) /\ op'[i].kind # "load"
       \/ Continue(i) /\ pc[i] \notin {"query", "store"}
       \/ DbError(i)
       \/ AckLost(i)
    /\ UNCHANGED <<waited, granted>>

TElse ==
    /\ Crash \/ \E u \in User : SoftDeleteUser(u)
    /\ UNCHANGED <<waited, granted>>

TScript == ScriptStep /\ UNCHANGED <<waited, granted>>

Older(n) == IF n < Window THEN n + 1 ELSE n

TTick ==
    /\ \A i \in Request : pc[i] = "store" => waited[i] < Lag
    /\ Tick
    /\ changed' = [u \in User |-> [p \in Perm |-> Older(changed[u][p])]]
    /\ waited' = [i \in Request |-> IF pc[i] = "store" THEN waited[i] + 1 ELSE waited[i]]
    /\ UNCHANGED <<script, granted>>

TInit ==
    /\ OpInit
    /\ changed = [u \in User |-> [p \in Perm |-> Window]]
    /\ waited = [i \in Request |-> 0]
    /\ granted = [i \in {} |-> {}]

TNext ==
    \/ /\ \/ /\ UNCHANGED script
             /\ \/ \E i \in Request, u \in User : TLookup(i, u)
                \/ \E i \in Request : TQuery(i) \/ TStore(i) \/ TOther(i)
                \/ TElse
          \/ TScript
       /\ NoteChanges
    \/ TTick

TSpec == TInit /\ [][TNext]_accessVars

-----------------------------------------------------------------------------
(* Properties.                                                             *)

\* Access control is at most TTL + Lag ticks behind the tables, in both
\* directions and for every way an invalidation can be missing: the reactivation
\* of a role, which invalidates nobody, the program of the operator, who is told
\* to "wait up to ~5 min for the permission cache TTL", lost acknowledgements,
\* and loads or captures overtaken by a commit.
BoundedStaleness == A!Spec
=============================================================================
