----------------------------- MODULE Grants_proofs -----------------------------
(***************************************************************************)
(* The handlers of the users and roles services implement Grants.          *)
(***************************************************************************)
EXTENDS RbacHistory_proofs

\* A list that passes validation has no repetition.
LEMMA ListsChecked ==
  ASSUME NEW S, NEW list \in Seq(Written(S)), NEW ok, AllFound(list, ok)
  PROVE  G!Lists(list, ok)
  <1> DEFINE ids == [k \in DOMAIN list |-> list[k].id]
  <1>1. Ids(list) \subseteq ok
    BY AllFoundMeans
  <1>2. Len(list) \in Nat /\ DOMAIN list = 1..Len(list)
    OBVIOUS
  <1>3. ids \in Surjection(1..Len(list), Ids(list))
    BY <1>2 DEF Surjection, Ids
  <1>4. IsFiniteSet(1..Len(list)) /\ Cardinality(1..Len(list)) = Len(list)
    BY <1>2, FS_Interval
  <1>5. Ids(list) \cap ok = Ids(list)
    BY <1>1
  <1>6. Cardinality(Ids(list)) = Len(list)
    BY <1>5 DEF AllFound
  <1>7. ids \in Injection(1..Len(list), Ids(list))
    <2> HIDE DEF ids
    <2> QED
      BY <1>3, <1>4, <1>6, FS_Surjection
  <1>8. \A a, b \in DOMAIN ids : ids[a] = ids[b] => a = b
    <2>1. DOMAIN ids = 1..Len(list)
      BY <1>2
    <2> HIDE DEF ids
    <2> QED
      BY <1>7, <2>1, Fun_InjectionProperties
  <1> QED
    BY <1>1, <1>8 DEF G!Lists, G!Listed, G!IsInjective, Ids

-----------------------------------------------------------------------------
(* A mutation that no commit overtook may still be made.                   *)

Static(i) == op[i].kind \in {"create", "setPerms"} => G!Lists(op[i].ids, ActivePerm)

\* A mutation that the handler lets through is one that Grants allows.
Checked(j) ==
    G!Addressed(op'[j]) /\ G!Allowed(op'[j]) /\ Static(j)' /\ ChecksHold(j)'

LEMMA ChecksArrive ==
  ASSUME HandlerInv, NEW j \in Request, Arrive(j), UnderWay(j)'
  PROVE  Checked(j)
  <1>1. ControlTypes /\ UNCHANGED tables
    BY TypeGroups, ArriveShape DEF HandlerInv, Shape
  <1> USE DEF Checked, G!Addressed, G!Allowed, Static, ChecksHold, Accept, Refuse, Answer, ControlTypes,
              tables, UnderWay
  <1>2. ASSUME NEW u \in User, Lookup(j, u) PROVE Checked(j)
    BY <1>1, <1>2 DEF Lookup
  <1>3. ASSUME NEW u \in User, NEW url \in Urls, NEW ids \in RoleLists,
               AssignCheck(j, u, url, ids)
        PROVE  Checked(j)
    <2>1. AllFound(ids, ActiveRoles) => G!Lists(ids, ActiveRoles)
      BY ConstantsAssumption, ListsChecked
    <2>2. ActiveRoles' = ActiveRoles
      BY <1>1 DEF ActiveRoles, ActiveRole, LiveRole
    <2>3. ActiveRoles = {r \in DOMAIN roles : G!LiveRole(r) /\ roles[r].active}
      BY DEF ActiveRoles, ActiveRole, LiveRole, G!LiveRole
    <2> QED
      BY <1>1, <1>3, <2>1, <2>2, <2>3 DEF AssignCheck, G!Lists, G!Listed
  <1>4. ASSUME NEW u \in User, NEW url \in Urls, NEW r \in Role, RevokeCheck(j, u, url, r)
        PROVE  Checked(j)
    BY <1>1, <1>4 DEF RevokeCheck
  <1>5. ASSUME NEW n \in Name, NEW ids \in PermLists, CreateCheck(j, n, ids)
        PROVE  Checked(j)
    <2>1. AllFound(ids, ActivePerm) => G!Lists(ids, ActivePerm)
      BY ConstantsAssumption, ListsChecked
    <2> QED
      BY <1>1, <1>5, <2>1 DEF CreateCheck, Bearers, LiveRole, G!LiveRole
  <1>6. ASSUME NEW r \in Role, NEW n \in Name \cup {NoName}, NEW a \in {"on", "off", "same"},
               UpdateCheck(j, r, n, a)
        PROVE  Checked(j)
    BY <1>1, <1>6 DEF UpdateCheck, NameTaken, Bearers, LiveRole, Locked, G!LiveRole,
       G!Protected, G!Renames, G!Free
  <1>7. ASSUME NEW r \in Role, RemoveCheck(j, r) PROVE Checked(j)
    BY <1>1, <1>7 DEF RemoveCheck, LiveRole, G!LiveRole, G!Protected
  <1>8. ASSUME NEW r \in Role, NEW ids \in PermLists, SetPermsCheck(j, r, ids)
        PROVE  Checked(j)
    <2>1. AllFound(ids, ActivePerm) => G!Lists(ids, ActivePerm)
      BY ConstantsAssumption, ListsChecked
    <2> QED
      BY <1>1, <1>8, <2>1 DEF SetPermsCheck, LiveRole, G!LiveRole
  <1> QED
    BY <1>2, <1>3, <1>4, <1>5, <1>6, <1>7, <1>8 DEF Arrive

\* With the grants and the request as they are, what was checked stays so.
LEMMA ChecksKept ==
  ASSUME NEW j, ChecksHold(j), UNCHANGED grants, Undisturbed(j)
  PROVE  ChecksHold(j)'
  <1>1. /\ ActiveRoles' = ActiveRoles
        /\ \A r : LiveRole(r)' <=> LiveRole(r)
        /\ \A u, list : Attached(u, list)' = Attached(u, list)
        /\ \A r : PermsOf(r)' = PermsOf(r)
        /\ \A n, r : NameTaken(n, r)' <=> NameTaken(n, r)
    BY DEF grants, ActiveRoles, ActiveRole, LiveRole, Attached, PermsOf, NameTaken, Bearers
  <1> QED
    BY <1>1 DEF Undisturbed, ChecksHold, G!Lists, G!Listed

\* The steps between the check and the end of the transaction.
LEMMA ChecksContinue ==
  ASSUME HandlerInv, NEW j \in Request, Continue(j) \/ DbError(j) \/ AckLost(j),
         UnderWay(j), UnderWay(j)', ChecksHold(j)
  PROVE  op'[j] = op[j] /\ ChecksHold(j)'
  <1>1. ControlTypes /\ AtStage(j)
    BY TypeGroups DEF HandlerInv
  <1> USE DEF Goto, Answer, ControlTypes, tables, UnderWay
  <1>2. CASE Query(j) \/ Store(j) \/ Invalidate(j) \/ Reread(j) \/ DbError(j) \/ AckLost(j)
    BY <1>1, <1>2 DEF Query, Store, Invalidate, Reread, DbError, AckLost
  <1>3. CASE EndTx(j)
    BY <1>1, <1>3, EndTxOutcome DEF Outcome
  <1>4. CASE Capture(j)
    <2>1. /\ op' = op /\ rows' = rows /\ UNCHANGED grants
          /\ op[j].kind \in {"update", "remove"} \/ pc'[j] = "read"
      BY <1>1, <1>4 DEF Capture, AtStage, grants
    <2>2. /\ \A r : LiveRole(r)' <=> LiveRole(r)
          /\ \A n, r : NameTaken(n, r)' <=> NameTaken(n, r)
      BY <2>1 DEF grants, LiveRole, NameTaken, Bearers
    <2>3. op[j].kind \in {"update", "remove", "setPerms"}
      BY <1>1, <1>4 DEF Capture, AtStage
    <2> QED
      BY <2>1, <2>2, <2>3 DEF ChecksHold
  <1>5. CASE AssignRead(j)
    <2>1. /\ op' = op /\ UNCHANGED grants /\ op[j].kind = "assign"
          /\ rows'[j] = Attached(op[j].user, op[j].ids)
      BY <1>1, <1>5 DEF AssignRead, grants
    <2>2. /\ ActiveRoles' = ActiveRoles
          /\ \A u, list : Attached(u, list)' = Attached(u, list)
      BY <2>1 DEF grants, ActiveRoles, ActiveRole, LiveRole, Attached
    <2> QED
      BY <2>1, <2>2 DEF ChecksHold, G!Lists, G!Listed
  <1>6. CASE SetPermsRead(j)
    <2>1. /\ op' = op /\ UNCHANGED grants /\ op[j].kind = "setPerms"
          /\ rows'[j] = PermsOf(op[j].role)
      BY <1>1, <1>6 DEF SetPermsRead, grants
    <2>2. /\ \A r : LiveRole(r)' <=> LiveRole(r)
          /\ \A r : PermsOf(r)' = PermsOf(r)
      BY <2>1 DEF grants, LiveRole, PermsOf
    <2> QED
      BY <2>1, <2>2 DEF ChecksHold
  <1>7. CASE UserReread(j)
    <2>1. /\ op' = op /\ rows' = rows /\ UNCHANGED grants
          /\ pc[j] = "recheck" /\ op[j].kind \in {"assign", "revoke"}
      BY <1>1, <1>7 DEF UserReread, Rollback, AtStage, grants
    <2>2. /\ ActiveRoles' = ActiveRoles
          /\ \A u, list : Attached(u, list)' = Attached(u, list)
      BY <2>1 DEF grants, ActiveRoles, ActiveRole, LiveRole, Attached
    <2> QED
      BY <2>1, <2>2 DEF ChecksHold, G!Lists, G!Listed
  <1> QED
    BY <1>2, <1>3, <1>4, <1>5, <1>6, <1>7 DEF Continue

\* Only a request that arrives becomes a mutation under way.
LEMMA OnlyArrivals ==
  ASSUME HandlerInv, NEW j \in Request, Continue(j) \/ DbError(j) \/ AckLost(j)
  PROVE  op' = op /\ (UnderWay(j)' => UnderWay(j))
  <1>1. ControlTypes
    BY TypeGroups DEF HandlerInv
  <1> USE DEF Goto, Answer, ControlTypes, UnderWay
  <1>2. CASE Query(j) \/ Store(j) \/ Invalidate(j) \/ Reread(j) \/ DbError(j) \/ AckLost(j)
    BY <1>1, <1>2 DEF Query, Store, Invalidate, Reread, DbError, AckLost
  <1>3. CASE Capture(j) \/ AssignRead(j) \/ SetPermsRead(j) \/ UserReread(j)
    BY <1>1, <1>3 DEF Capture, AssignRead, SetPermsRead, UserReread, Rollback
  <1>4. CASE EndTx(j)
    BY <1>1, <1>4, EndTxOutcome DEF Outcome
  <1> QED
    BY <1>2, <1>3, <1>4 DEF Continue

\* A mutation under way that no commit overtakes finds the grants as they were.
LEMMA CrossingNoted ==
  ASSUME HandlerInv, [HNext]_allVars, NEW j \in Request,
         UnderWay(j), UnderWay(j)', j \notin crossed'
  PROVE  j \notin crossed /\ UNCHANGED grants
  <1>1. j \notin crossed /\ committed' = committed
    BY DEF HNext, NoteCrossing, allVars, histVars, vars, journal
  <1> QED
    BY <1>1, HStepIsStep, GrantsChangeByCommit

LEMMA ChecksStep ==
  ASSUME HandlerInv, ChecksFresh, [HNext]_allVars
  PROVE  ChecksFresh'
  <1> SUFFICES ASSUME NEW j \in Request, UnderWay(j)'
               PROVE  Static(j)' /\ (j \notin crossed' => ChecksHold(j)')
    BY DEF ChecksFresh, Static
  <1>1. ControlTypes /\ [Next]_vars
    BY TypeGroups, HStepIsStep DEF HandlerInv
  <1>2. ASSUME UnderWay(j)
        PROVE  Static(j) /\ (j \notin crossed' => ChecksHold(j) /\ UNCHANGED grants)
    BY <1>2, CrossingNoted DEF ChecksFresh, Static
  <1>3. ASSUME Undisturbed(j) PROVE Static(j)' /\ (j \notin crossed' => ChecksHold(j)')
    <2>1. UnderWay(j)
      BY <1>3 DEF Undisturbed, UnderWay
    <2> QED
      BY <1>2, <1>3, <2>1, ChecksKept DEF Undisturbed, Static
  <1>4. CASE Arrive(j)
    BY <1>4, ChecksArrive DEF Checked
  <1>5. CASE Continue(j) \/ DbError(j) \/ AckLost(j)
    <2>1. op' = op /\ UnderWay(j)
      BY <1>5, OnlyArrivals
    <2>2. Static(j)'
      BY <1>2, <2>1 DEF Static
    <2> QED
      BY <1>2, <1>5, <2>1, <2>2, ChecksContinue
  <1>6. CASE Crash
    BY <1>1, <1>6 DEF Crash, UnderWay, ControlTypes
  <1>7. ASSUME NEW i \in Request, i # j, Arrive(i) \/ Continue(i) \/ DbError(i) \/ AckLost(i)
        PROVE  Undisturbed(j)
    BY <1>1, <1>7, Frame
  <1>8. ASSUME Tick \/ (\E u \in User : SoftDeleteUser(u)) \/ UNCHANGED vars
        PROVE  Undisturbed(j)
    BY <1>8 DEF Tick, SoftDeleteUser, Undisturbed, control, journal, vars
  <1> QED
    BY <1>1, <1>3, <1>4, <1>5, <1>6, <1>7, <1>8 DEF Next, Environment

LEMMA GrantsInvInductive ==
  /\ HInit => GrantsInv
  /\ GrantsInv /\ [HNext]_allVars => GrantsInv'
  <1>1. HInit => GrantsInv
    BY HandlerInit DEF HInit, Init, GrantsInv, SystemTargets, Harmless, ChecksFresh, UnderWay
  <1>2. ASSUME GrantsInv, [HNext]_allVars PROVE GrantsInv'
    <2>1. HandlerInv' /\ SystemTargets' /\ ChecksFresh'
      BY <1>2, HStepIsStep, HandlerStep, SystemTargetsStep, ChecksStep DEF GrantsInv
    <2>2. NoteCrossing => (crossed \subseteq DOMAIN Open)'
      BY DEF NoteCrossing, Open
    <2>3. UNCHANGED allVars => (crossed \subseteq DOMAIN Open)'
      BY <1>2 DEF GrantsInv, Open, UnderWay, allVars, histVars, vars, control
    <2> QED
      BY <1>2, <2>1, <2>2, <2>3 DEF GrantsInv, HNext
  <1> QED
    BY <1>1, <1>2

-----------------------------------------------------------------------------
(* Every step is a step of Grants.                                         *)

\* A step that writes no table and brings no new mutation.
LEMMA QuietStep ==
  ASSUME crossed \subseteq DOMAIN Open, NoteCrossing, UNCHANGED <<tables, committed>>,
         \A j \in Request : UnderWay(j)' => UnderWay(j) /\ op'[j] = op[j]
  PROVE  G!Abort
  <1>1. DOMAIN Open = {j \in Request : UnderWay(j)}
    BY DEF Open
  <1>2. DOMAIN Open' = {j \in Request : UnderWay(j)'}
    BY DEF Open
  <1>3. DOMAIN Open' \subseteq DOMAIN Open
    BY <1>1, <1>2
  <1>4. Open' = [j \in DOMAIN Open' |-> Open[j]]
    BY <1>1, <1>2 DEF Open
  <1>5. crossed' = crossed \cap DOMAIN Open'
    BY <1>1, <1>2 DEF NoteCrossing
  <1> QED
    BY <1>3, <1>4, <1>5 DEF G!Abort, G!tables, tables

LEMMA ArriveRefines ==
  ASSUME GrantsInv, NEW i \in Request, Arrive(i), NoteCrossing
  PROVE  G!Begin(i) \/ G!Abort
  <1>1. HandlerInv /\ ControlTypes /\ crossed \subseteq DOMAIN Open
    BY TypeGroups DEF GrantsInv, HandlerInv
  <1>2. \A j \in Request : j # i => Undisturbed(j)
    BY <1>1, Frame
  <1>3. UNCHANGED <<tables, journal>> /\ pc[i] = "idle"
    BY ArriveShape DEF Shape
  <1>4. CASE ~UnderWay(i)'
    BY <1>1, <1>2, <1>3, <1>4, QuietStep DEF Undisturbed, UnderWay, journal
  <1>5. CASE UnderWay(i)'
    <2>1. op'[i] \in Op
      BY <1>1, ArriveShape, TypeArrive DEF HandlerInv, TypeOK
    <2>2. G!Addressed(op'[i]) /\ G!Allowed(op'[i])
      BY <1>1, <1>5, ChecksArrive DEF Checked
    <2>3. i \notin DOMAIN Open /\ DOMAIN Open' = DOMAIN Open \cup {i}
      BY <1>2, <1>3, <1>5 DEF Open, Undisturbed, UnderWay
    <2>4. Open' = [j \in DOMAIN Open \cup {i} |-> IF j = i THEN op'[i] ELSE Open[j]]
      BY <1>2, <2>3 DEF Open, Undisturbed
    <2>5. crossed' = crossed
      BY <1>1, <1>2, <1>3, <2>3 DEF Open, NoteCrossing, Undisturbed, UnderWay, journal
    <2> QED
      BY <1>3, <2>1, <2>2, <2>3, <2>4, <2>5 DEF G!Begin, G!tables, tables
  <1> QED
    BY <1>4, <1>5

\* The difference that a handler writes is what was asked for, or what the handler
\* read was overtaken.
Done(i) ==
    \/ G!Allowed(op[i]) /\ G!Effect(op[i])
    \/ i \in crossed /\ G!Late(op[i])

LEMMA AssignRefines ==
  ASSUME GrantsInv, NEW i \in Request, AssignCommit(i), committed' # committed
  PROVE  Done(i)
  <1> DEFINE o == op[i]
  <1>1. /\ pc[i] = "commit" /\ o.kind = "assign"
        /\ userRoles' = userRoles \cup ({o.user} \X Missing(i))
        /\ UNCHANGED <<roles, rolePerms>>
    BY DEF AssignCommit, Rollback, journal
  <1>2. Missing(i) \subseteq G!Listed(o.ids)
    BY DEF Missing, Ids, G!Listed
  <1>3. CASE i \in crossed
    <2>1. G!Late(o)
      BY <1>1, <1>2 DEF G!Late
    <2> QED
      BY <1>3, <2>1 DEF Done
  <1>4. CASE i \notin crossed
    <2>1. G!Lists(o.ids, ActiveRoles) /\ rows[i] = Attached(o.user, o.ids)
      BY <1>1, <1>4 DEF GrantsInv, ChecksFresh, ChecksHold, UnderWay
    <2>2. ActiveRoles = {r \in DOMAIN roles : G!LiveRole(r) /\ roles[r].active}
      BY DEF ActiveRoles, ActiveRole, LiveRole, G!LiveRole
    <2>3. G!Allowed(o)
      BY <1>1, <2>1, <2>2 DEF G!Allowed
    <2>4. userRoles' = userRoles \cup ({o.user} \X G!Listed(o.ids))
      BY <1>1, <2>1 DEF Missing, Attached, Ids, AsStored, G!Listed
    <2>5. G!Effect(o)
      BY <1>1, <2>4 DEF G!Effect
    <2> QED
      BY <2>3, <2>5 DEF Done
  <1> QED
    BY <1>3, <1>4

LEMMA RevokeRefines ==
  ASSUME NEW i \in Request, RevokeCommit(i), committed' # committed
  PROVE  Done(i)
  BY DEF RevokeCommit, NothingToRevoke, Rollback, journal, Done, G!Allowed, G!Effect

LEMMA CreateRefines ==
  ASSUME GrantsInv, NEW i \in Request, NEW r \in Role, CreateCommit(i, r),
         committed' # committed
  PROVE  Done(i)
  <1> DEFINE o == op[i]
  <1>1. /\ pc[i] = "commit" /\ o.kind = "create" /\ r \notin DOMAIN roles
        /\ ~NameTaken(o.name, r)
        /\ G!NewRole(r, o.name)
        /\ rolePerms' = rolePerms \cup ({r} \X Ids(o.ids))
        /\ UNCHANGED userRoles
    BY DEF CreateCommit, Rollback, journal, G!NewRole
  <1>2. G!Lists(o.ids, ActivePerm)
    BY <1>1 DEF GrantsInv, ChecksFresh, UnderWay
  <1>3. G!Allowed(o)
    BY <1>1, <1>2 DEF G!Allowed, G!LiveRole, NameTaken, Bearers, LiveRole
  <1>4. r \in DOMAIN roles' \ DOMAIN roles
    BY <1>1 DEF G!NewRole
  <1>5. G!Effect(o)
    BY <1>1, <1>4 DEF G!Effect, G!Listed, Ids
  <1> QED
    BY <1>3, <1>5 DEF Done

\* patchRole writes the two fields of the row that Grants writes.
LEMMA PatchIsPatched ==
  ASSUME NEW i \in Request, TableTypes, op[i].role \in DOMAIN roles,
         roles' = [roles EXCEPT ![op[i].role] = Patched(@, op[i])]
  PROVE  G!Patch(op[i])
  <1>1. roles[op[i].role] \in RoleRow
    BY DEF TableTypes
  <1> QED
    BY <1>1 DEF G!Patch, G!Renames, Patched, RoleRow, TableTypes

LEMMA UpdateRefines ==
  ASSUME GrantsInv, NEW i \in Request, UpdateCommit(i), committed' # committed
  PROVE  Done(i)
  <1> DEFINE o == op[i]
  <1>1. /\ pc[i] = "commit" /\ o.kind = "update"
        /\ LiveRole(o.role) /\ o.name # NoName => ~NameTaken(o.name, o.role)
        /\ roles' = [roles EXCEPT ![o.role] = Patched(@, o)]
        /\ UNCHANGED <<userRoles, rolePerms>>
    BY DEF UpdateCommit, Rollback, journal
  <1>2. TableTypes /\ o.role \in DOMAIN roles /\ ~G!Protected(o)
    BY <1>1, TypeGroups
       DEF GrantsInv, HandlerInv, SystemTargets, Harmless, G!Protected, G!Renames
  <1>3. G!Effect(o)
    BY <1>1, <1>2, PatchIsPatched DEF G!Effect
  <1>4. LiveRole(o.role) /\ G!Renames(o) => G!Free(o.name, o.role)
    BY <1>1 DEF G!Free, G!Renames, G!LiveRole, LiveRole, NameTaken, Bearers
  <1>5. CASE i \in crossed
    BY <1>1, <1>2, <1>3, <1>4, <1>5 DEF Done, G!Late, G!LiveRole, LiveRole
  <1>6. CASE i \notin crossed
    <2>1. LiveRole(o.role)
      BY <1>1, <1>6 DEF GrantsInv, ChecksFresh, ChecksHold, UnderWay
    <2> QED
      BY <1>1, <1>2, <1>3, <1>4, <2>1 DEF Done, G!Allowed, G!LiveRole, LiveRole
  <1> QED
    BY <1>5, <1>6

LEMMA RemoveRefines ==
  ASSUME GrantsInv, NEW i \in Request, RemoveCommit(i)
  PROVE  Done(i)
  <1> DEFINE o == op[i]
  <1>1. pc[i] = "commit" /\ o.kind = "remove" /\ G!Drop(o.role) /\ UNCHANGED rolePerms
    BY DEF RemoveCommit, G!Drop
  <1>2. o.role \in DOMAIN roles /\ ~G!Protected(o)
    BY <1>1 DEF GrantsInv, SystemTargets, Harmless, G!Protected
  <1>3. G!Effect(o)
    BY <1>1 DEF G!Effect
  <1>4. CASE i \in crossed
    BY <1>1, <1>2, <1>3, <1>4 DEF Done, G!Late
  <1>5. CASE i \notin crossed
    <2>1. LiveRole(o.role)
      BY <1>1, <1>5 DEF GrantsInv, ChecksFresh, ChecksHold, UnderWay
    <2> QED
      BY <1>1, <1>2, <1>3, <2>1 DEF Done, G!Allowed, G!LiveRole, LiveRole
  <1> QED
    BY <1>4, <1>5

LEMMA SetPermsRefines ==
  ASSUME GrantsInv, NEW i \in Request, SetPermsCommit(i), committed' # committed
  PROVE  Done(i)
  <1> DEFINE o == op[i]
             less == Surplus(i) \cap (Perm \ G!Listed(o.ids))
  <1>1. /\ pc[i] = "commit" /\ o.kind = "setPerms"
        /\ rolePerms' = (rolePerms \ ({o.role} \X Surplus(i))) \cup ({o.role} \X Missing(i))
        /\ UNCHANGED <<roles, userRoles>>
    BY DEF SetPermsCommit, Rollback, journal
  <1>2. rolePerms \subseteq Role \X Perm
    BY TypeGroups DEF GrantsInv, HandlerInv, TableTypes
  <1>3. CASE i \in crossed
    <2>1. Missing(i) \in SUBSET G!Listed(o.ids) /\ less \in SUBSET (Perm \ G!Listed(o.ids))
      BY DEF Missing, Ids, G!Listed
    \* A row whose id the body respells is deleted, and inserted again.
    <2>2. rolePerms' = (rolePerms \ ({o.role} \X less)) \cup ({o.role} \X Missing(i))
      <3>1. Surplus(i) \cap G!Listed(o.ids) \subseteq Missing(i)
        BY DEF Missing, Surplus, Ids, G!Listed
      <3> QED
        BY <1>1, <1>2, <3>1
    <2>3. G!Late(o)
      BY <1>1, <2>1, <2>2 DEF G!Late
    <2> QED
      BY <1>3, <2>3 DEF Done
  <1>4. CASE i \notin crossed
    <2>1. /\ G!Lists(o.ids, ActivePerm) /\ LiveRole(o.role)
          /\ rows[i] = PermsOf(o.role)
      BY <1>1, <1>4 DEF GrantsInv, ChecksFresh, ChecksHold, UnderWay
    <2>2. G!Allowed(o)
      BY <1>1, <2>1 DEF G!Allowed, G!LiveRole, LiveRole
    <2>3. rolePerms' = (rolePerms \ ({o.role} \X Perm)) \cup ({o.role} \X G!Listed(o.ids))
      BY <1>1, <1>2, <2>1 DEF Missing, Surplus, PermsOf, Ids, AsStored, G!Listed
    <2>4. G!Effect(o)
      BY <1>1, <2>3 DEF G!Effect
    <2> QED
      BY <2>2, <2>4 DEF Done
  <1> QED
    BY <1>3, <1>4

LEMMA EndTxRefines ==
  ASSUME GrantsInv, NEW i \in Request, EndTx(i), NoteCrossing
  PROVE  G!Commit(i) \/ G!Abort
  <1>1. HandlerInv /\ ControlTypes /\ crossed \subseteq DOMAIN Open
    BY TypeGroups DEF GrantsInv, HandlerInv
  <1>2. Outcome(i) /\ UnderWay(i) /\ ~UnderWay(i)'
    BY <1>1, EndTxOutcome DEF Outcome, UnderWay, ControlTypes
  <1>3. \A j \in Request : j # i => Undisturbed(j)
    BY <1>1, Frame DEF Continue
  <1>4. CASE committed' = committed
    <2>1. UNCHANGED tables
      BY <1>2, <1>4 DEF Outcome
    <2> QED
      BY <1>1, <1>2, <1>3, <1>4, <2>1, QuietStep DEF Undisturbed, UnderWay
  <1>5. CASE committed' # committed
    <2>1. Done(i)
      BY <1>5, AssignRefines, RevokeRefines, CreateRefines, UpdateRefines, RemoveRefines,
         SetPermsRefines DEF EndTx
    <2>2. i \in DOMAIN Open /\ Open[i] = op[i]
      BY <1>2 DEF Open
    <2>3. DOMAIN Open' = DOMAIN Open \ {i}
      BY <1>2, <1>3 DEF Open, Undisturbed, UnderWay
    <2>4. Open' = [j \in DOMAIN Open \ {i} |-> Open[j]]
      BY <1>3, <2>3 DEF Open, Undisturbed
    <2>5. crossed' = DOMAIN Open'
      BY <1>2, <1>3, <1>5 DEF NoteCrossing, Open, Undisturbed, UnderWay
    <2>6. UNCHANGED users
      BY DEF EndTx, AssignCommit, RevokeCommit, CreateCommit, UpdateCommit, RemoveCommit,
         SetPermsCommit, Rollback, tables
    <2> QED
      BY <2>1, <2>2, <2>4, <2>5, <2>6 DEF Done, G!Commit
  <1> QED
    BY <1>4, <1>5

\* The other steps of a request that has arrived.
LEMMA HandlerStepRefines ==
  ASSUME GrantsInv, NEW i \in Request, Continue(i) \/ DbError(i) \/ AckLost(i),
         ~EndTx(i), NoteCrossing
  PROVE  G!Abort
  <1>1. HandlerInv /\ ControlTypes /\ crossed \subseteq DOMAIN Open
    BY TypeGroups DEF GrantsInv, HandlerInv
  <1>2. UNCHANGED <<tables, committed>>
    BY WritesOnlyInEndTx DEF journal
  <1>3. ASSUME NEW j \in Request, UnderWay(j)' PROVE UnderWay(j) /\ op'[j] = op[j]
    <2>1. CASE j = i
      BY <1>1, <1>3, <2>1, OnlyArrivals
    <2>2. CASE j # i
      BY <1>1, <1>3, <2>2, Frame DEF Undisturbed, UnderWay
    <2> QED
      BY <2>1, <2>2
  <1> QED
    BY <1>1, <1>2, <1>3, QuietStep

LEMMA EnvironmentRefines ==
  ASSUME GrantsInv, Environment, NoteCrossing
  PROVE  G!Abort \/ G!SoftDeleteUser
  <1>1. ControlTypes /\ crossed \subseteq DOMAIN Open
    BY TypeGroups DEF GrantsInv, HandlerInv
  <1>2. CASE Crash
    <2>1. \A j \in Request : ~UnderWay(j)'
      BY <1>1, <1>2 DEF Crash, UnderWay, ControlTypes
    <2> QED
      BY <1>1, <1>2, <2>1, QuietStep DEF Crash, journal
  <1>3. CASE Tick
    BY <1>1, <1>3, QuietStep DEF Tick, journal, control, UnderWay
  <1>4. ASSUME NEW u \in User, SoftDeleteUser(u) PROVE G!SoftDeleteUser
    <2>1. Open' = Open /\ crossed' = crossed
      BY <1>1, <1>4 DEF SoftDeleteUser, Open, UnderWay, NoteCrossing, journal, control
    <2> QED
      BY <1>4, <2>1 DEF SoftDeleteUser, G!SoftDeleteUser
  <1> QED
    BY <1>2, <1>3, <1>4 DEF Environment

-----------------------------------------------------------------------------
\* The handlers of users.services.ts and roles.services.ts implement Grants: what
\* they check outside of a transaction, read at READ COMMITTED inside it and write as
\* a difference is one exact, checked step on the tables, or another commit overtook
\* it and Late says what is left.
THEOREM MutationsRefined == HSpec => MutationsAsPromised
  <1>1. HInit => G!Init
    <2> SUFFICES ASSUME HInit PROVE G!Init
      OBVIOUS
    <2>1. {j \in Request : UnderWay(j)} = {}
      BY DEF HInit, Init, UnderWay
    <2>2. Open = [i \in {} |-> {}]
      BY <2>1 DEF Open
    <2>3. \A r \in DOMAIN roles : G!LiveRole(r) /\ G!Free(roles[r].name, r)
      BY DEF HInit, Init, G!LiveRole, G!Free, NameTaken, Bearers, LiveRole
    <2> QED
      BY <2>2, <2>3 DEF G!Init, HInit
  <1>2. GrantsInv /\ [HNext]_allVars => [G!Next]_(G!vars)
    <2> SUFFICES ASSUME GrantsInv, [HNext]_allVars PROVE [G!Next]_(G!vars)
      OBVIOUS
    <2>1. CASE UNCHANGED allVars
      <3>1. Open' = Open
        BY <2>1 DEF Open, UnderWay, allVars, vars, control
      <3> QED
        BY <2>1, <3>1 DEF G!vars, G!tables, allVars, vars, tables, histVars
    <2>2. CASE HNext
      <3>1. NoteCrossing
        BY <2>2 DEF HNext
      <3>2. Environment \/ \E i \in Request : Arrive(i) \/ Continue(i) \/ DbError(i) \/ AckLost(i)
        BY <2>2 DEF HNext, Next
      <3>3. CASE Environment
        BY <3>1, <3>3, EnvironmentRefines DEF G!Next
      <3>4. ASSUME NEW i \in Request, Arrive(i) PROVE G!Next
        BY <3>1, <3>4, ArriveRefines DEF G!Next
      <3>5. ASSUME NEW i \in Request, Continue(i) \/ DbError(i) \/ AckLost(i) PROVE G!Next
        <4>1. CASE EndTx(i)
          BY <3>1, <4>1, EndTxRefines DEF G!Next
        <4>2. CASE ~EndTx(i)
          BY <3>1, <3>5, <4>2, HandlerStepRefines DEF G!Next
        <4> QED
          BY <4>1, <4>2
      <3> QED
        BY <3>2, <3>3, <3>4, <3>5
    <2> QED
      BY <2>1, <2>2
  <1> QED
    BY <1>1, <1>2, GrantsInvInductive, PTL DEF HSpec, MutationsAsPromised, G!Spec
=============================================================================
