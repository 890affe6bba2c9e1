----------------------------- MODULE RbacHistory -----------------------------
(***************************************************************************)
(* Rbac with a record of which requests ran across a commit of another     *)
(* one.  A step of Rbac determines what becomes of the three history       *)
(* variables, whatever the step is; they let us say what the permission    *)
(* cache and the tables are when nothing interfered, that four named        *)
(* mishaps are the only things that leave a revoked permission in the      *)
(* cache, and that the handlers implement Grants.                          *)
(***************************************************************************)
EXTENDS Rbac

VARIABLES
    overlapped,  \* requests that read something and then saw another commit
    crossed,     \* mutations that saw another commit since they were checked
    excused      \* users whose cache entry may be stale for a known reason

histVars == <<overlapped, crossed, excused>>
allVars == <<vars, histVars>>

\* A request holds something it read and has yet to use.  (Before it captures the
\* users, a transaction has only looked whether the name of a patch is free.)
Holding == {"store", "read", "recheck", "commit"}
Holds(i) == pc[i] \in Holding \/ (pc[i] = "capture" /\ op[i].kind = "update")

\* The users whose permissions the operation may reduce if it commits now.
Losers(o) ==
    IF o.kind = "revoke" THEN {o.user}
    ELSE IF o.kind \in {"remove", "setPerms"} THEN Holders(o.role)
    ELSE IF o.kind = "update" /\ o.active = "off" THEN Holders(o.role)
    ELSE {}

\* A request forgets the overlap when it no longer holds what it read.
NoteOverlap ==
    overlapped' = {i \in Request :
        /\ Holds(i)'
        /\ \/ i \in overlapped
           \/ Holds(i) /\ committed' # committed}

\* A mutation is under way from the check of its handler to the end of its
\* transaction.
UnderWay(i) == pc[i] \in {"capture", "read", "recheck", "commit"}

NoteCrossing ==
    crossed' = {i \in Request :
        /\ UnderWay(i) /\ UnderWay(i)'
        /\ i \in crossed \/ committed' # committed}

\* The id in the URL of a revocation is not spelled as the cache's key is.
Blind(o) == o.kind = "revoke" /\ o.url # "db"

\* What may leave a revoked permission in u's entry: (1) an answer of the database
\* that a commit overtook is cached; (2) the users captured before the writes were
\* overtaken by a commit, and miss some who lose a permission; (3) a revocation
\* commits and will look for the entry under another key; (4) a commit is not
\* acknowledged, so that nothing is invalidated.
Excuses(i, u) ==
    \/ Store(i) /\ i \in overlapped /\ u = op[i].user
    \/ /\ i \in committed' \ committed
       /\ i \in overlapped \/ Blind(op[i])
       /\ u \in Losers(op[i]) \ affected[i]
    \/ AckLost(i) /\ u \in affected[i]

\* An excuse is gone with the entry, and when a new entry replaces it.
NoteExcuses ==
    excused' = {u \in DOMAIN cache' :
        \/ \E i \in Request : Excuses(i, u)
        \/ u \in excused /\ ~\E i \in Request : Store(i) /\ u = op[i].user}

HInit == Init /\ overlapped = {} /\ crossed = {} /\ excused = {}

HNext == Next /\ NoteOverlap /\ NoteCrossing /\ NoteExcuses

HSpec == HInit /\ [][HNext]_allVars

HTypeOK ==
    /\ TypeOK
    /\ overlapped \subseteq Request
    /\ crossed \subseteq Request
    /\ excused \subseteq User

-----------------------------------------------------------------------------
(* Properties.                                                             *)

Stale(u) == u \in DOMAIN cache /\ ~(cache[u].keys \subseteq Effective(u))

Pending(u) == \E i \in Request : pc[i] = "invalidate" /\ u \in affected[i]

\* The invalidation protocol of users.services.ts and roles.services.ts is
\* complete but for the four excuses above: if the cache holds a permission its
\* user has lost, a handler is about to delete the entry, or one of them applies.
Coherent == \A u \in User : Stale(u) => Pending(u) \/ u \in excused

\* The mutations under way, and what they ask for.
Open == [i \in {j \in Request : UnderWay(j)} |-> op[i]]

G == INSTANCE Grants WITH open <- Open, late <- crossed

\* The handlers of the two services implement the atomic mutations of Grants: checks
\* outside of the transaction, captures and reads at READ COMMITTED inside it, and
\* writes of differences come to one exact step, unless another commit came between.
MutationsAsPromised == G!Spec

\* PUT /roles/:id/permissions leaves the role with exactly the permissions of
\* the body unless another transaction committed between its transaction's
\* first read and its commit.
ReplaceIsExact ==
    [][\A i \in Request :
          /\ op[i].kind = "setPerms"
          /\ i \notin overlapped
          /\ i \in committed' \ committed
          => PermsOf(op[i].role)' = Ids(op[i].ids)]_allVars

Stray == {a \in userRoles : a[2] \in DOMAIN roles /\ roles[a[2]].deleted}

\* softDeleteRole drops the assignments of the role, and afterwards nobody gets
\* it: an assignment of a deleted role appears only when a commit overtook a
\* grant between its check of the roles (users.services.ts) and its insert.
StrayOnlyIfOvertaken ==
    [][\A a \in Stray' \ Stray :
          \E i \in overlapped :
              /\ op[i].kind = "assign" /\ op[i].user = a[1]
              /\ i \in committed' \ committed]_allVars

\* A grant names a role that its user has, by another spelling of its id.
RespellsHeld(i) ==
    /\ op[i].kind = "assign"
    /\ \E r \in Ids(op[i].ids) \ AsStored(op[i].ids) : <<op[i].user, r>> \in userRoles

\* A transaction fails in two ways only: a commit overtook it, or it grants a role
\* again by another spelling of its id.  Any other one, in a database that works,
\* breaks no key or index, so its client is never answered 500.
NoSelfInflictedError ==
    [][\A i \in Request :
          pc[i] \in {"recheck", "commit"} /\ reply'[i] = "error"
              => i \in overlapped \/ RespellsHeld(i)]_allVars

-----------------------------------------------------------------------------
(* The strengthening of Coherent that is inductive.                        *)

\* What a load is about to cache is still granted.
FreshRows ==
    \A i \in Request :
        pc[i] = "store" /\ i \notin overlapped => rows[i] \subseteq Effective(op[i].user)

\* The users a transaction captured include all who will lose a permission.
CaptureComplete ==
    \A i \in Request :
        pc[i] \in {"read", "recheck", "commit"} /\ i \notin overlapped /\ ~Blind(op[i])
            => Losers(op[i]) \subseteq affected[i]

CoherenceInv == HandlerInv /\ FreshRows /\ CaptureComplete /\ Coherent

-----------------------------------------------------------------------------
(* What the three action properties rest on.                               *)

\* What the handler of a mutation has read is still so.
ReadsHold(i) ==
    LET o == op[i] IN
    /\ o.kind = "assign" /\ pc[i] \in {"read", "recheck", "commit"} => \A r \in Ids(o.ids) : LiveRole(r)
    /\ o.kind = "assign" /\ pc[i] \in {"recheck", "commit"} => rows[i] = Attached(o.user, o.ids)
    /\ o.kind = "setPerms" /\ pc[i] = "commit" => rows[i] = PermsOf(o.role)
    /\ o.kind = "create" /\ pc[i] = "commit" => Bearers(o.name) = {}
    /\ o.kind = "update" /\ pc[i] \in {"capture", "commit"} /\ o.name # NoName
          => ~NameTaken(o.name, o.role)

ReadsFresh == \A i \in Request : i \notin overlapped => ReadsHold(i)

-----------------------------------------------------------------------------
(* What MutationsAsPromised rests on: a mutation that nothing overtook may     *)
(* still be made, and will still have the effect that was asked for.          *)

ChecksHold(i) ==
    LET o == op[i] IN
    /\ o.kind = "assign" => G!Lists(o.ids, ActiveRoles)
    /\ o.kind \in {"update", "remove", "setPerms"} => LiveRole(o.role)
    /\ o.kind = "update" /\ o.name # NoName => ~NameTaken(o.name, o.role)
    /\ o.kind = "assign" /\ pc[i] \in {"recheck", "commit"} => rows[i] = Attached(o.user, o.ids)
    /\ o.kind = "setPerms" /\ pc[i] = "commit" => rows[i] = PermsOf(o.role)

ChecksFresh ==
    \A i \in Request : UnderWay(i) =>
        /\ op[i].kind \in {"create", "setPerms"} => G!Lists(op[i].ids, ActivePerm)
        /\ i \notin crossed => ChecksHold(i)

GrantsInv == HandlerInv /\ SystemTargets /\ ChecksFresh /\ crossed \subseteq DOMAIN Open
=============================================================================
