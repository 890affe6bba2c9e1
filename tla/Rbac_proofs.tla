----------------------------- MODULE Rbac_proofs -----------------------------
(***************************************************************************)
(* Proofs about Rbac, for any users, roles, permissions and requests and   *)
(* every combination of endpoints and faults.                              *)
(***************************************************************************)
EXTENDS Rbac, FiniteSetTheorems, FunctionTheorems, TLAPS

TableTypes ==
    /\ users \subseteq User
    /\ DOMAIN roles \subseteq Role
    /\ roles \in [DOMAIN roles -> RoleRow]
    /\ userRoles \subseteq User \X Role
    /\ rolePerms \subseteq Role \X Perm

JournalTypes == audit \subseteq Request /\ committed \subseteq Request

StoreTypes ==
    /\ DOMAIN cache \subseteq User
    /\ cache \in [DOMAIN cache -> Entry]
    /\ sinceSweep \in 0..SweepEvery

ControlTypes ==
    /\ pc \in [Request -> Stage]
    /\ op \in [Request -> Op]
    /\ rows \in [Request -> SUBSET (Role \cup Perm)]
    /\ affected \in [Request -> SUBSET User]
    /\ reply \in [Request -> Reply]

\* TypeOK is the conjunction of the types of the four groups of variables.
LEMMA TypeGroups ==
  /\ TypeOK <=> TableTypes /\ JournalTypes /\ StoreTypes /\ ControlTypes
  /\ TypeOK' <=> TableTypes' /\ JournalTypes' /\ StoreTypes' /\ ControlTypes'
  BY DEF TypeOK, TableTypes, JournalTypes, StoreTypes, ControlTypes

\* The ids of a list are ids of its rows.
LEMMA IdsType ==
  ASSUME NEW S, NEW list \in Seq(Written(S))
  PROVE  Ids(list) \subseteq S
  <1>1. ASSUME NEW k \in DOMAIN list PROVE list[k] \in Written(S)
    OBVIOUS
  <1>2. ASSUME NEW w \in Written(S) PROVE w.id \in S
    BY DEF Written
  <1> QED
    BY <1>1, <1>2 DEF Ids

\* What the parameters of an operation are, given its kind.
LEMMA OpFields ==
  ASSUME NEW o \in Op
  PROVE  /\ o.kind = "load" => o.user \in User
         /\ o.kind = "assign" => o.user \in User /\ o.url \in Spelling /\ Ids(o.ids) \subseteq Role
         /\ o.kind = "revoke" => o.user \in User /\ o.url \in Spelling /\ o.role \in Role
         /\ o.kind = "create" => o.name \in Name /\ Ids(o.ids) \subseteq Perm
         /\ o.kind = "update" => /\ o.role \in Role
                                 /\ o.name \in Name \cup {NoName}
                                 /\ o.active \in {"on", "off", "same"}
         /\ o.kind = "remove" => o.role \in Role
         /\ o.kind = "setPerms" => o.role \in Role /\ Ids(o.ids) \subseteq Perm
  <1>1. \A list \in RoleLists : Ids(list) \subseteq Role
    BY ConstantsAssumption, IdsType
  <1>2. \A list \in PermLists : Ids(list) \subseteq Perm
    BY ConstantsAssumption, IdsType
  <1> QED
    BY <1>1, <1>2 DEF Op, LoadOp, AssignOp, RevokeOp, CreateOp, UpdateOp, RemoveOp,
       SetPermsOp, NoOp

\* A list that passes validation names only things that are there.
LEMMA AllFoundMeans ==
  ASSUME NEW S, NEW list \in Seq(Written(S)), NEW ok, AllFound(list, ok)
  PROVE  Ids(list) \subseteq ok
  <1> DEFINE ids == [k \in 1..Len(list) |-> list[k].id]
  <1>1. Len(list) \in Nat /\ DOMAIN list = 1..Len(list)
    OBVIOUS
  <1>2. IsFiniteSet(1..Len(list)) /\ Cardinality(1..Len(list)) = Len(list)
    BY <1>1, FS_Interval
  <1>3. ids \in Surjection(1..Len(list), Ids(list))
    BY <1>1 DEF Surjection, Ids
  <1>4. IsFiniteSet(Ids(list)) /\ Cardinality(Ids(list)) <= Len(list)
    BY <1>2, <1>3, FS_Surjection
  <1>5. /\ Ids(list) \cap ok \in SUBSET Ids(list)
        /\ Cardinality(Ids(list) \cap ok) <= Cardinality(Ids(list))
        /\ Cardinality(Ids(list)) \in Nat
        /\ Cardinality(Ids(list)) = Cardinality(Ids(list) \cap ok)
              => Ids(list) = Ids(list) \cap ok
    BY <1>4, FS_Subset, FS_CardinalityType
  <1>6. Cardinality(Ids(list) \cap ok) = Len(list)
    BY DEF AllFound
  <1> QED
    BY <1>1, <1>4, <1>5, <1>6

-----------------------------------------------------------------------------
(* Type correctness.                                                       *)

LEMMA EffectiveType == ASSUME NEW u PROVE Effective(u) \subseteq Perm
  BY ConstantsAssumption DEF Effective

\* The parts handlers are made of keep the types of the control variables.
LEMMA AnswerType ==
  ASSUME ControlTypes, NEW i \in Request, NEW code \in Reply, Answer(i, code), op' = op
  PROVE  ControlTypes'
  BY DEF ControlTypes, Answer, Stage

LEMMA RefuseType ==
  ASSUME ControlTypes, NEW i \in Request, NEW o \in Op, NEW code \in Reply,
         Refuse(i, o, code)
  PROVE  ControlTypes'
  BY DEF ControlTypes, Refuse, Answer, Stage

LEMMA AcceptType ==
  ASSUME ControlTypes, NEW i \in Request, NEW o \in Op, NEW stage \in Stage,
         NEW us \in SUBSET User, Accept(i, o, stage, us)
  PROVE  ControlTypes'
  BY DEF ControlTypes, Accept

LEMMA GotoType ==
  ASSUME ControlTypes, NEW i \in Request, NEW stage \in Stage, Goto(i, stage),
         UNCHANGED <<op, rows, affected, reply>>
  PROVE  ControlTypes'
  BY DEF ControlTypes, Goto

LEMMA CommitType ==
  ASSUME JournalTypes, NEW i \in Request, Commit(i)
  PROVE  JournalTypes'
  BY DEF JournalTypes, Commit

LEMMA WithoutType ==
  ASSUME NEW c, NEW us, DOMAIN c \subseteq User, c \in [DOMAIN c -> Entry]
  PROVE  /\ DOMAIN Without(c, us) \subseteq User
         /\ Without(c, us) \in [DOMAIN Without(c, us) -> Entry]
  BY DEF Without

LEMMA SweepType ==
  ASSUME StoreTypes
  PROVE  /\ DOMAIN Sweep \subseteq User
         /\ Sweep \in [DOMAIN Sweep -> Entry]
         /\ Swept \in 0..SweepEvery
  BY ConstantsAssumption DEF StoreTypes, Sweep, Swept

LEMMA UnchangedTypes ==
  /\ TableTypes /\ UNCHANGED tables => TableTypes'
  /\ JournalTypes /\ UNCHANGED journal => JournalTypes'
  /\ StoreTypes /\ UNCHANGED store => StoreTypes'
  /\ ControlTypes /\ UNCHANGED control => ControlTypes'
  BY DEF TableTypes, tables, JournalTypes, journal, StoreTypes, store, ControlTypes, control

LEMMA TypeInit == Init => TypeOK
  BY ConstantsAssumption DEF Init, TypeOK, Op, Stage, Reply, Entry

\* Arrivals: a request is refused, or goes on with a well-typed operation.
LEMMA TypeArrive ==
  ASSUME TypeOK, NEW i \in Request, Arrive(i)
  PROVE  TypeOK'
  <1> USE TypeGroups
  <1>1. {"ok", "notFound", "invalid", "forbidden", "conflict"} \subseteq Reply
    BY DEF Reply
  <1>2. {"query", "capture", "read", "recheck", "commit"} \subseteq Stage
    BY DEF Stage
  <1>3. ASSUME NEW u \in User, Lookup(i, u) PROVE TypeOK'
    <2> DEFINE o == [kind |-> "load", user |-> u]
    <2>1. o \in Op
      BY DEF Op, LoadOp
    <2>2. ControlTypes'
      BY <1>1, <1>2, <1>3, <2>1, RefuseType, AcceptType DEF Lookup
    <2>3. StoreTypes'
      <3>1. DOMAIN cache' \subseteq User /\ cache' \in [DOMAIN cache' -> Entry]
        BY <1>3, SweepType, WithoutType DEF Lookup
      <3> QED
        BY <1>3, <3>1, SweepType DEF Lookup, StoreTypes
    <2> QED
      BY <1>3, <2>2, <2>3, UnchangedTypes DEF Lookup
  <1>4. ASSUME NEW u \in User, NEW url \in Urls, NEW ids \in RoleLists,
               AssignCheck(i, u, url, ids)
        PROVE  TypeOK'
    <2> DEFINE o == [kind |-> "assign", user |-> u, url |-> url, ids |-> ids]
    <2>1. o \in Op /\ Keyed(u, url) \in SUBSET User
      BY ConstantsAssumption DEF Op, AssignOp, Keyed
    <2>2. ControlTypes'
      BY <1>1, <1>2, <1>4, <2>1, RefuseType, AcceptType DEF AssignCheck
    <2> QED
      BY <1>4, <2>2, UnchangedTypes DEF AssignCheck
  <1>5. ASSUME NEW u \in User, NEW url \in Urls, NEW r \in Role, RevokeCheck(i, u, url, r)
        PROVE  TypeOK'
    <2> DEFINE o == [kind |-> "revoke", user |-> u, url |-> url, role |-> r]
    <2>1. o \in Op /\ Keyed(u, url) \in SUBSET User
      BY ConstantsAssumption DEF Op, RevokeOp, Keyed
    <2>2. ControlTypes'
      BY <1>1, <1>2, <1>5, <2>1, RefuseType, AcceptType DEF RevokeCheck
    <2> QED
      BY <1>5, <2>2, UnchangedTypes DEF RevokeCheck
  <1>6. ASSUME NEW n \in Name, NEW ids \in PermLists, CreateCheck(i, n, ids) PROVE TypeOK'
    <2> DEFINE o == [kind |-> "create", name |-> n, ids |-> ids]
    <2>1. o \in Op
      BY DEF Op, CreateOp
    <2>2. ControlTypes'
      BY <1>1, <1>2, <1>6, <2>1, RefuseType, AcceptType DEF CreateCheck
    <2> QED
      BY <1>6, <2>2, UnchangedTypes DEF CreateCheck
  <1>7. ASSUME NEW r \in Role, NEW n \in Name \cup {NoName}, NEW a \in {"on", "off", "same"},
               UpdateCheck(i, r, n, a)
        PROVE  TypeOK'
    <2> DEFINE o == [kind |-> "update", role |-> r, name |-> n, active |-> a]
    <2>1. o \in Op
      BY DEF Op, UpdateOp
    <2>2. ControlTypes'
      BY <1>1, <1>2, <1>7, <2>1, RefuseType, AcceptType DEF UpdateCheck
    <2> QED
      BY <1>7, <2>2, UnchangedTypes DEF UpdateCheck
  <1>8. ASSUME NEW r \in Role, RemoveCheck(i, r) PROVE TypeOK'
    <2> DEFINE o == [kind |-> "remove", role |-> r]
    <2>1. o \in Op
      BY DEF Op, RemoveOp
    <2>2. ControlTypes'
      BY <1>1, <1>2, <1>8, <2>1, RefuseType, AcceptType DEF RemoveCheck
    <2> QED
      BY <1>8, <2>2, UnchangedTypes DEF RemoveCheck
  <1>9. ASSUME NEW r \in Role, NEW ids \in PermLists, SetPermsCheck(i, r, ids) PROVE TypeOK'
    <2> DEFINE o == [kind |-> "setPerms", role |-> r, ids |-> ids]
    <2>1. o \in Op
      BY DEF Op, SetPermsOp
    <2>2. ControlTypes'
      BY <1>1, <1>2, <1>9, <2>1, RefuseType, AcceptType DEF SetPermsCheck
    <2> QED
      BY <1>9, <2>2, UnchangedTypes DEF SetPermsCheck
  <1> QED
    BY <1>3, <1>4, <1>5, <1>6, <1>7, <1>8, <1>9 DEF Arrive

LEMMA RollbackType ==
  ASSUME TypeOK, NEW i \in Request, NEW code \in Reply, Rollback(i, code)
  PROVE  TypeOK'
  BY TypeGroups, AnswerType, UnchangedTypes DEF Rollback

\* The end of a transaction: it rolls back, or its writes are well typed.
LEMMA TypeEndTx ==
  ASSUME TypeOK, NEW i \in Request, EndTx(i)
  PROVE  TypeOK'
  <1> USE TypeGroups
  <1>1. {"error", "notFound"} \subseteq Reply
    BY DEF Reply
  <1>2. {"invalidate", "reread"} \subseteq Stage
    BY DEF Stage
  <1>3. op[i] \in Op
    BY DEF ControlTypes
  <1>4. CASE AssignCommit(i)
    <2> SUFFICES ASSUME Goto(i, "invalidate"), Commit(i), op[i].kind = "assign",
                        userRoles' = userRoles \cup ({op[i].user} \X Missing(i)),
                        UNCHANGED <<op, rows, affected, reply, users, roles,
                                    rolePerms, store>>
                 PROVE  TypeOK'
      BY <1>1, <1>4, RollbackType DEF AssignCommit
    <2>1. TableTypes'
      BY <1>3, OpFields DEF TableTypes, Missing
    <2> QED
      BY <1>2, <2>1, GotoType, CommitType, UnchangedTypes DEF store
  <1>5. CASE RevokeCommit(i)
    <2> SUFFICES ASSUME Goto(i, "invalidate"), Commit(i),
                        userRoles' = userRoles \ {<<op[i].user, op[i].role>>},
                        UNCHANGED <<op, rows, affected, reply, users, roles,
                                    rolePerms, store>>
                 PROVE  TypeOK'
      BY <1>1, <1>5, RollbackType DEF RevokeCommit
    <2>1. TableTypes'
      BY DEF TableTypes
    <2> QED
      BY <1>2, <2>1, GotoType, CommitType, UnchangedTypes DEF store
  <1>6. ASSUME NEW r \in Role, CreateCommit(i, r) PROVE TypeOK'
    <2> DEFINE new == [name |-> op[i].name, system |-> FALSE,
                       active |-> TRUE, deleted |-> FALSE]
    <2> SUFFICES ASSUME Goto(i, "reread"), Commit(i), op[i].kind = "create",
                        roles' = [s \in DOMAIN roles \cup {r} |->
                                     IF s = r THEN new ELSE roles[s]],
                        rolePerms' = rolePerms \cup ({r} \X Ids(op[i].ids)),
                        rows' = [rows EXCEPT ![i] = {r}],
                        UNCHANGED <<op, affected, reply, users, userRoles, store>>
                 PROVE  TypeOK'
      BY <1>1, <1>6, RollbackType DEF CreateCommit
    <2>1. new \in RoleRow
      BY <1>3, OpFields DEF RoleRow
    <2>2. TableTypes'
      <3> HIDE DEF new
      <3>1. DOMAIN roles' \subseteq Role /\ roles' \in [DOMAIN roles' -> RoleRow]
        BY <2>1 DEF TableTypes
      <3>2. rolePerms' \subseteq Role \X Perm
        BY <1>3, OpFields DEF TableTypes
      <3> QED
        BY <3>1, <3>2 DEF TableTypes
    <2>3. ControlTypes'
      BY <1>2 DEF ControlTypes, Goto
    <2> QED
      BY <2>2, <2>3, CommitType, UnchangedTypes DEF store
  <1>7. CASE UpdateCommit(i)
    <2> DEFINE o == op[i]
    <2> SUFFICES ASSUME Goto(i, "invalidate"), Commit(i), o.kind = "update",
                        roles' = [roles EXCEPT ![o.role] = Patched(@, o)],
                        UNCHANGED <<op, rows, affected, reply, users, userRoles,
                                    rolePerms, store>>
                 PROVE  TypeOK'
      BY <1>1, <1>7, RollbackType DEF UpdateCommit
    <2>1. ASSUME NEW row \in RoleRow PROVE Patched(row, o) \in RoleRow
      <3>1. (IF o.name = NoName THEN row.name ELSE o.name) \in Name
        BY <1>3, OpFields DEF RoleRow
      <3>2. (IF o.active = "same" THEN row.active ELSE o.active = "on") \in BOOLEAN
        BY DEF RoleRow
      <3> QED
        BY <3>1, <3>2 DEF Patched, RoleRow
    <2>2. roles' \in [DOMAIN roles -> RoleRow]
      BY <2>1 DEF TableTypes
    <2>3. TableTypes'
      BY <2>2 DEF TableTypes
    <2> QED
      BY <1>2, <2>3, GotoType, CommitType, UnchangedTypes DEF store
  <1>8. CASE RemoveCommit(i)
    <2>1. roles' \in [DOMAIN roles -> RoleRow]
      BY <1>8 DEF RemoveCommit, TableTypes, RoleRow
    <2>2. TableTypes'
      BY <1>8, <2>1 DEF RemoveCommit, TableTypes
    <2> QED
      BY <1>2, <1>8, <2>2, GotoType, CommitType, UnchangedTypes DEF RemoveCommit, store
  <1>9. CASE SetPermsCommit(i)
    <2> DEFINE r == op[i].role
               toAdd == {r} \X Missing(i)
               left == rolePerms \ ({r} \X Surplus(i))
    <2> SUFFICES ASSUME Goto(i, "invalidate"), Commit(i), op[i].kind = "setPerms",
                        rolePerms' = left \cup toAdd,
                        UNCHANGED <<op, rows, affected, reply, users, roles,
                                    userRoles, store>>
                 PROVE  TypeOK'
      BY <1>1, <1>9, RollbackType DEF SetPermsCommit
    <2>1. TableTypes'
      BY <1>3, OpFields DEF TableTypes, Missing
    <2> QED
      BY <1>2, <2>1, GotoType, CommitType, UnchangedTypes DEF store
  <1> QED
    BY <1>4, <1>5, <1>6, <1>7, <1>8, <1>9 DEF EndTx

\* Every other step of a request.
LEMMA TypeContinue ==
  ASSUME TypeOK, NEW i \in Request, AtStage(i), Continue(i) \/ DbError(i) \/ AckLost(i)
  PROVE  TypeOK'
  <1> USE TypeGroups
  <1>1. {"ok", "error", "notFound"} \subseteq Reply
    BY DEF Reply
  <1>2. {"store", "read", "recheck", "commit", "reread"} \subseteq Stage
    BY DEF Stage
  <1>3. op[i] \in Op
    BY DEF ControlTypes
  <1>4. CASE Query(i)
    <2>1. ControlTypes'
      BY <1>2, <1>4, EffectiveType DEF Query, ControlTypes, Goto
    <2> QED
      BY <1>4, <2>1, UnchangedTypes DEF Query
  <1>5. CASE Store(i)
    <2> DEFINE e == [keys |-> rows[i], left |-> TTL]
    <2>1. op[i].user \in User /\ e \in Entry
      BY <1>3, <1>5, OpFields, ConstantsAssumption DEF AtStage, Store, Entry
    <2>2. StoreTypes'
      <3> HIDE DEF e
      <3> QED
        BY <1>5, <2>1 DEF Store, StoreTypes, e
    <2>3. ControlTypes'
      BY <1>1, <1>5, AnswerType DEF Store
    <2> QED
      BY <1>5, <2>2, <2>3, UnchangedTypes DEF Store
  <1>6. CASE Capture(i)
    <2>1. ControlTypes'
      BY <1>2, <1>6 DEF Capture, ControlTypes, Goto, Holders
    <2> QED
      BY <1>6, <2>1, UnchangedTypes DEF Capture
  <1>7. CASE AssignRead(i)
    <2>1. ControlTypes'
      BY <1>2, <1>3, <1>7, OpFields DEF AssignRead, Attached, ControlTypes, Goto
    <2> QED
      BY <1>7, <2>1, UnchangedTypes DEF AssignRead
  <1>8. CASE SetPermsRead(i)
    <2>1. ControlTypes'
      BY <1>2, <1>8 DEF SetPermsRead, ControlTypes, Goto, PermsOf
    <2> QED
      BY <1>8, <2>1, UnchangedTypes DEF SetPermsRead
  <1>9. CASE Invalidate(i)
    <2>1. StoreTypes'
      BY <1>9, WithoutType DEF Invalidate, StoreTypes
    <2>2. ControlTypes'
      BY <1>1, <1>2, <1>9, AnswerType, GotoType DEF Invalidate
    <2> QED
      BY <1>9, <2>1, <2>2, UnchangedTypes DEF Invalidate
  <1>10. CASE Reread(i) \/ DbError(i) \/ AckLost(i)
    <2>1. ControlTypes'
      BY <1>1, <1>10, AnswerType DEF Reread, DbError, AckLost
    <2> QED
      BY <1>10, <2>1, UnchangedTypes DEF Reread, DbError, AckLost
  <1>11. CASE UserReread(i)
    <2> SUFFICES ASSUME Goto(i, "commit"),
                        UNCHANGED <<op, rows, affected, reply, tables, journal, store>>
                 PROVE  TypeOK'
      BY <1>1, <1>11, RollbackType DEF UserReread
    <2> QED
      BY <1>2, GotoType, UnchangedTypes
  <1> QED
    BY <1>4, <1>5, <1>6, <1>7, <1>8, <1>9, <1>10, <1>11, TypeEndTx DEF Continue

\* Steps that no request takes.
LEMMA TypeEnvironment ==
  ASSUME TypeOK, Environment
  PROVE  TypeOK'
  <1> USE TypeGroups
  <1>1. CASE Crash
    <2>1. StoreTypes'
      BY <1>1, WithoutType, ConstantsAssumption DEF Crash, StoreTypes
    <2>2. ControlTypes'
      BY <1>1 DEF Crash, ControlTypes, Stage, Reply
    <2> QED
      BY <1>1, <2>1, <2>2, UnchangedTypes DEF Crash
  <1>2. ASSUME NEW u \in User, SoftDeleteUser(u) PROVE TypeOK'
    BY <1>2, UnchangedTypes DEF SoftDeleteUser, TableTypes
  <1>3. CASE Tick
    <2>1. \A e \in Entry : Aged(e) \in Entry
      BY ConstantsAssumption DEF Aged, Entry
    <2>2. StoreTypes'
      BY <1>3, <2>1, ConstantsAssumption DEF Tick, StoreTypes
    <2> QED
      BY <1>3, <2>2, UnchangedTypes DEF Tick
  <1> QED
    BY <1>1, <1>2, <1>3 DEF Environment

-----------------------------------------------------------------------------
(* The invariant of the handlers.                                          *)

\* What belongs to request j does not change.
Undisturbed(j) ==
    /\ pc'[j] = pc[j]
    /\ op'[j] = op[j]
    /\ rows'[j] = rows[j]
    /\ affected'[j] = affected[j]
    /\ reply'[j] = reply[j]
    /\ j \in committed' <=> j \in committed

LEMMA UndisturbedKeeps ==
  ASSUME NEW j \in Request, AtStage(j), Tells(j), Undisturbed(j)
  PROVE  AtStage(j)' /\ Tells(j)'
  BY DEF Undisturbed, AtStage, Tells, Mutation

\* An arrival refuses its operation or accepts it, and writes no table.
Shape(i) ==
    /\ UNCHANGED <<tables, journal>>
    /\ pc[i] = "idle"
    /\ \E o : \/ \E code : Refuse(i, o, code)
              \/ \E stage \in {"query", "read", "capture", "recheck", "commit"} :
                    \E us : Accept(i, o, stage, us)

LEMMA ArriveShape ==
  ASSUME NEW i \in Request, Arrive(i)
  PROVE  Shape(i)
  <1>1. ASSUME NEW u \in User, Lookup(i, u) PROVE Shape(i)
    BY <1>1, Zenon DEF Lookup, Shape
  <1>2. ASSUME NEW u \in User, NEW url \in Urls, NEW ids \in RoleLists,
               AssignCheck(i, u, url, ids)
        PROVE  Shape(i)
    BY <1>2 DEF AssignCheck, Shape
  <1>3. ASSUME NEW u \in User, NEW url \in Urls, NEW r \in Role, RevokeCheck(i, u, url, r)
        PROVE  Shape(i)
    BY <1>3 DEF RevokeCheck, Shape
  <1>4. ASSUME NEW n \in Name, NEW ids \in PermLists, CreateCheck(i, n, ids) PROVE Shape(i)
    BY <1>4 DEF CreateCheck, Shape
  <1>5. ASSUME NEW r \in Role, NEW n \in Name \cup {NoName}, NEW a \in {"on", "off", "same"},
               UpdateCheck(i, r, n, a)
        PROVE  Shape(i)
    BY <1>5 DEF UpdateCheck, Shape
  <1>6. ASSUME NEW r \in Role, RemoveCheck(i, r) PROVE Shape(i)
    BY <1>6 DEF RemoveCheck, Shape
  <1>7. ASSUME NEW r \in Role, NEW ids \in PermLists, SetPermsCheck(i, r, ids) PROVE Shape(i)
    BY <1>7 DEF SetPermsCheck, Shape
  <1> QED
    BY <1>1, <1>2, <1>3, <1>4, <1>5, <1>6, <1>7 DEF Arrive

\* A step of request i leaves the other requests alone.
LEMMA Frame ==
  ASSUME ControlTypes, NEW i \in Request,
         Arrive(i) \/ Continue(i) \/ DbError(i) \/ AckLost(i),
         NEW j \in Request, j # i
  PROVE  Undisturbed(j)
  <1> USE DEF ControlTypes, Undisturbed, Accept, Answer, Refuse, Goto, Commit, Rollback,
              journal
  <1>1. CASE Arrive(i)
    BY <1>1, ArriveShape DEF Shape
  <1>2. CASE EndTx(i)
    BY <1>2 DEF EndTx, AssignCommit, RevokeCommit, CreateCommit, UpdateCommit,
       RemoveCommit, SetPermsCommit
  <1>3. CASE Query(i) \/ Store(i) \/ Capture(i) \/ AssignRead(i) \/ SetPermsRead(i)
    BY <1>3 DEF Query, Store, Capture, AssignRead, SetPermsRead
  <1>4. CASE Invalidate(i) \/ UserReread(i) \/ Reread(i) \/ DbError(i) \/ AckLost(i)
    BY <1>4 DEF Invalidate, UserReread, Reread, DbError, AckLost
  <1> QED
    BY <1>1, <1>2, <1>3, <1>4 DEF Continue

\* A request that arrives is in none of the sets of history and is set up as
\* the endpoint needs it.
LEMMA HandlerArrive ==
  ASSUME TypeOK, NEW i \in Request, AtStage(i), Arrive(i)
  PROVE  AtStage(i)' /\ Tells(i)'
  <1> USE DEF AtStage, Tells, Mutation, Accept, Answer, Refuse, journal, ControlTypes
  <1>1. ControlTypes
    BY TypeGroups
  <1>2. ASSUME NEW u \in User, Lookup(i, u) PROVE AtStage(i)' /\ Tells(i)'
    BY <1>1, <1>2 DEF Lookup
  <1>3. ASSUME NEW u \in User, NEW url \in Urls, NEW ids \in RoleLists,
               AssignCheck(i, u, url, ids)
        PROVE  AtStage(i)' /\ Tells(i)'
    BY <1>1, <1>3 DEF AssignCheck
  <1>4. ASSUME NEW u \in User, NEW url \in Urls, NEW r \in Role, RevokeCheck(i, u, url, r)
        PROVE  AtStage(i)' /\ Tells(i)'
    BY <1>1, <1>4 DEF RevokeCheck
  <1>5. ASSUME NEW n \in Name, NEW ids \in PermLists, CreateCheck(i, n, ids)
        PROVE  AtStage(i)' /\ Tells(i)'
    BY <1>1, <1>5 DEF CreateCheck
  <1>6. ASSUME NEW r \in Role, NEW n \in Name \cup {NoName}, NEW a \in {"on", "off", "same"},
               UpdateCheck(i, r, n, a)
        PROVE  AtStage(i)' /\ Tells(i)'
    BY <1>1, <1>6 DEF UpdateCheck
  <1>7. ASSUME NEW r \in Role, RemoveCheck(i, r) PROVE AtStage(i)' /\ Tells(i)'
    BY <1>1, <1>7 DEF RemoveCheck
  <1>8. ASSUME NEW r \in Role, NEW ids \in PermLists, SetPermsCheck(i, r, ids)
        PROVE  AtStage(i)' /\ Tells(i)'
    BY <1>1, <1>8 DEF SetPermsCheck
  <1> QED
    BY <1>2, <1>3, <1>4, <1>5, <1>6, <1>7, <1>8 DEF Arrive

\* A transaction ends in a commit, on the way to the invalidation or re-read,
\* or in a rollback, which answers with an error or a 404.
LEMMA HandlerEndTx ==
  ASSUME TypeOK, NEW i \in Request, AtStage(i), EndTx(i)
  PROVE  AtStage(i)' /\ Tells(i)'
  <1> USE DEF AtStage, Tells, Mutation, Goto, Answer, Rollback, Commit, journal, ControlTypes
  <1>1. ControlTypes /\ op[i] \in Op
    BY TypeGroups
  <1>2. CASE AssignCommit(i)
    BY <1>1, <1>2 DEF AssignCommit
  <1>3. CASE RevokeCommit(i)
    BY <1>1, <1>3 DEF RevokeCommit
  <1>4. ASSUME NEW r \in Role, CreateCommit(i, r) PROVE AtStage(i)' /\ Tells(i)'
    BY <1>1, <1>4 DEF CreateCommit
  <1>5. CASE UpdateCommit(i)
    BY <1>1, <1>5 DEF UpdateCommit
  <1>6. CASE RemoveCommit(i)
    BY <1>1, <1>6 DEF RemoveCommit
  <1>7. CASE SetPermsCommit(i)
    BY <1>1, <1>7 DEF SetPermsCommit
  <1> QED
    BY <1>2, <1>3, <1>4, <1>5, <1>6, <1>7 DEF EndTx

LEMMA HandlerContinue ==
  ASSUME TypeOK, NEW i \in Request, AtStage(i), Tells(i),
         Continue(i) \/ DbError(i) \/ AckLost(i)
  PROVE  AtStage(i)' /\ Tells(i)'
  <1> USE DEF AtStage, Tells, Mutation, Goto, Answer, journal, ControlTypes
  <1>1. ControlTypes
    BY TypeGroups
  <1>2. CASE Query(i)
    BY <1>1, <1>2, EffectiveType DEF Query
  <1>3. CASE Store(i)
    BY <1>1, <1>3 DEF Store
  <1>4. CASE Capture(i)
    BY <1>1, <1>4 DEF Capture
  <1>5. CASE AssignRead(i) \/ SetPermsRead(i)
    BY <1>1, <1>5 DEF AssignRead, SetPermsRead
  <1>6. CASE Invalidate(i)
    BY <1>1, <1>6 DEF Invalidate
  <1>7. CASE Reread(i)
    BY <1>1, <1>7 DEF Reread
  <1>8. CASE DbError(i) \/ AckLost(i)
    BY <1>1, <1>8 DEF DbError, AckLost
  <1>9. CASE UserReread(i)
    BY <1>1, <1>9 DEF UserReread, Rollback
  <1> QED
    BY <1>2, <1>3, <1>4, <1>5, <1>6, <1>7, <1>8, <1>9, HandlerEndTx DEF Continue

LEMMA HandlerEnvironment ==
  ASSUME HandlerInv, Environment
  PROVE  HandlerInv'
  <1>1. TypeOK'
    BY TypeEnvironment DEF HandlerInv
  <1>2. ASSUME NEW j \in Request PROVE AtStage(j)' /\ Tells(j)'
    <2>1. AtStage(j) /\ Tells(j) /\ ControlTypes
      BY TypeGroups DEF HandlerInv
    <2>2. CASE Crash
      BY <2>1, <2>2 DEF Crash, AtStage, Tells, Mutation, journal, ControlTypes
    <2>3. CASE Tick \/ \E u \in User : SoftDeleteUser(u)
      <3>1. Undisturbed(j)
        BY <2>3 DEF Tick, SoftDeleteUser, Undisturbed, control, journal
      <3> QED
        BY <2>1, <3>1, UndisturbedKeeps
    <2> QED
      BY <2>2, <2>3 DEF Environment
  <1> QED
    BY <1>1, <1>2 DEF HandlerInv

LEMMA HandlerStep == HandlerInv /\ [Next]_vars => HandlerInv'
  <1> SUFFICES ASSUME HandlerInv, [Next]_vars PROVE HandlerInv'
    OBVIOUS
  <1>1. ASSUME NEW i \in Request, Arrive(i) \/ Continue(i) \/ DbError(i) \/ AckLost(i)
        PROVE  HandlerInv'
    <2>1. TypeOK /\ AtStage(i) /\ Tells(i) /\ ControlTypes
      BY TypeGroups DEF HandlerInv
    <2>2. TypeOK'
      BY <1>1, <2>1, TypeArrive, TypeContinue
    <2>3. AtStage(i)' /\ Tells(i)'
      BY <1>1, <2>1, HandlerArrive, HandlerContinue
    <2>4. ASSUME NEW j \in Request, j # i PROVE AtStage(j)' /\ Tells(j)'
      BY <1>1, <2>1, <2>4, Frame, UndisturbedKeeps DEF HandlerInv
    <2> QED
      BY <2>2, <2>3, <2>4 DEF HandlerInv
  <1>2. CASE UNCHANGED vars
    <2>1. UNCHANGED <<tables, journal, store, control>>
      BY <1>2 DEF vars
    <2>2. TypeOK'
      BY <2>1, TypeGroups, UnchangedTypes DEF HandlerInv
    <2>3. \A j \in Request : Undisturbed(j)
      BY <2>1 DEF Undisturbed, control, journal
    <2> QED
      BY <2>2, <2>3, UndisturbedKeeps DEF HandlerInv
  <1> QED
    BY <1>1, <1>2, HandlerEnvironment DEF Next

LEMMA HandlerInit == Init => HandlerInv
  BY TypeInit DEF Init, HandlerInv, AtStage, Tells, Mutation, NoOp

\* The handlers' invariant holds for every number of requests, users and roles.
THEOREM HandlersCorrect == Spec => []HandlerInv
  BY HandlerInit, HandlerStep, PTL DEF Spec

\* Every variable keeps its type (Rbac's state is what the code's tables, cache
\* and locals are).
THEOREM TypeCorrect == Spec => []TypeOK
  <1>1. HandlerInv => TypeOK
    BY DEF HandlerInv
  <1> QED
    BY <1>1, HandlersCorrect, PTL

\* A reply of the users and roles services never contradicts what their
\* transaction did.
THEOREM RepliesCorrect == Spec => []RepliesTellTheTruth
  <1>1. HandlerInv => RepliesTellTheTruth
    BY DEF HandlerInv, RepliesTellTheTruth
  <1> QED
    BY <1>1, HandlersCorrect, PTL

-----------------------------------------------------------------------------
(* The audit log, the size of the cache and the names of roles.            *)

\* The steps of a request that write no table, no audit row and no history.
LEMMA WritesOnlyInEndTx ==
  ASSUME NEW i \in Request,
         Arrive(i) \/ Continue(i) \/ DbError(i) \/ AckLost(i), ~EndTx(i)
  PROVE  UNCHANGED <<tables, journal>>
  <1>1. CASE Arrive(i)
    BY <1>1, ArriveShape DEF Shape
  <1>2. CASE Query(i) \/ Store(i) \/ Capture(i) \/ AssignRead(i) \/ SetPermsRead(i)
    BY <1>2 DEF Query, Store, Capture, AssignRead, SetPermsRead
  <1>3. CASE Invalidate(i) \/ UserReread(i) \/ Reread(i) \/ DbError(i) \/ AckLost(i)
    BY <1>3 DEF Invalidate, UserReread, Reread, DbError, AckLost, Rollback
  <1> QED
    BY <1>1, <1>2, <1>3 DEF Continue

\* Only a transaction that commits writes an audit row.
LEMMA AuditStep == AuditOnlyIfCommitted /\ [Next]_vars => AuditOnlyIfCommitted'
  <1> SUFFICES ASSUME AuditOnlyIfCommitted, [Next]_vars PROVE AuditOnlyIfCommitted'
    OBVIOUS
  <1>1. ASSUME NEW i \in Request, EndTx(i) PROVE AuditOnlyIfCommitted'
    <2>1. Commit(i) \/ UNCHANGED journal
      BY <1>1 DEF EndTx, AssignCommit, RevokeCommit, CreateCommit, UpdateCommit,
         RemoveCommit, SetPermsCommit, Rollback
    <2> QED
      BY <2>1 DEF Commit, journal, AuditOnlyIfCommitted
  <1>2. CASE UNCHANGED journal
    BY <1>2 DEF journal, AuditOnlyIfCommitted
  <1>3. CASE Environment
    BY <1>2, <1>3 DEF Environment, Crash, SoftDeleteUser, Tick
  <1> QED
    BY <1>1, <1>2, <1>3, WritesOnlyInEndTx DEF Next, vars

\* Mutations that did not commit leave no audit row.
THEOREM AuditCorrect == Spec => []AuditOnlyIfCommitted
  <1>1. Init => AuditOnlyIfCommitted
    BY DEF Init, AuditOnlyIfCommitted
  <1> QED
    BY <1>1, AuditStep, PTL DEF Spec

\* Of a request's steps only a lookup, a store and an invalidation touch the cache.
LEMMA RequestCacheSteps ==
  ASSUME NEW i \in Request, Arrive(i) \/ Continue(i) \/ DbError(i) \/ AckLost(i)
  PROVE  \/ UNCHANGED store
         \/ (\E u \in User : Lookup(i, u)) \/ Store(i) \/ Invalidate(i)
  <1>1. ASSUME Arrive(i) PROVE UNCHANGED store \/ \E u \in User : Lookup(i, u)
    BY <1>1 DEF Arrive, AssignCheck, RevokeCheck, CreateCheck, UpdateCheck, RemoveCheck,
       SetPermsCheck
  <1>2. ASSUME EndTx(i) PROVE UNCHANGED store
    BY <1>2 DEF EndTx, AssignCommit, RevokeCommit, CreateCommit, UpdateCommit,
       RemoveCommit, SetPermsCommit, Rollback
  <1>3. ASSUME Continue(i) \/ DbError(i) \/ AckLost(i)
        PROVE  UNCHANGED store \/ Store(i) \/ Invalidate(i)
    BY <1>2, <1>3 DEF Continue, Query, Capture, AssignRead, SetPermsRead, UserReread,
       Rollback, Reread, DbError, AckLost
  <1> QED
    BY <1>1, <1>3

\* So do a crash and time.
LEMMA CacheSteps ==
  ASSUME [Next]_vars
  PROVE  \/ UNCHANGED store
         \/ \E i \in Request : (\E u \in User : Lookup(i, u)) \/ Store(i) \/ Invalidate(i)
         \/ Crash
         \/ Tick
  BY RequestCacheSteps DEF Next, Environment, SoftDeleteUser, vars

\* A lookup that is due for it sweeps before the interval starts again.
LEMMA SweepStep == HandlerInv /\ SweepKeepsUp /\ [Next]_vars => SweepKeepsUp'
  <1> SUFFICES ASSUME HandlerInv, SweepKeepsUp, [Next]_vars,
                      NEW u \in DOMAIN cache'
               PROVE  cache'[u].left + sinceSweep' >= 0
    BY DEF SweepKeepsUp
  <1>1. StoreTypes /\ ControlTypes
    BY TypeGroups DEF HandlerInv
  <1>2. CASE UNCHANGED store
    BY <1>2 DEF store, SweepKeepsUp
  <1>3. ASSUME NEW i \in Request, NEW v \in User, Lookup(i, v)
        PROVE  cache'[u].left + sinceSweep' >= 0
    <2>1. u \in DOMAIN Sweep /\ cache'[u] = Sweep[u]
      BY <1>3 DEF Lookup, Without
    <2>2. CASE sinceSweep < SweepEvery
      BY <1>1, <1>3, <2>1, <2>2 DEF Lookup, Sweep, Swept, SweepKeepsUp
    <2>3. CASE ~(sinceSweep < SweepEvery)
      BY <1>1, <1>3, <2>1, <2>3 DEF Lookup, Sweep, Swept, StoreTypes, Entry
    <2> QED
      BY <2>2, <2>3
  <1>4. ASSUME NEW i \in Request, Store(i) PROVE cache'[u].left + sinceSweep' >= 0
    BY <1>1, <1>4, ConstantsAssumption DEF Store, StoreTypes, SweepKeepsUp
  <1>5. ASSUME NEW i \in Request, Invalidate(i) PROVE cache'[u].left + sinceSweep' >= 0
    BY <1>5 DEF Invalidate, Without, SweepKeepsUp
  <1>6. CASE Crash
    BY <1>1, <1>6 DEF Crash, Without, StoreTypes
  <1>7. CASE Tick
    <2>1. cache[u] \in Entry /\ cache'[u] = Aged(cache[u]) /\ u \in DOMAIN cache
      BY <1>1, <1>7 DEF Tick, StoreTypes
    <2>2. cache[u].left \in Int /\ sinceSweep \in Int /\ cache[u].left + sinceSweep >= 0
      BY <1>1, <2>1 DEF Entry, StoreTypes, SweepKeepsUp
    <2>3. Aged(cache[u]).left =
            IF cache[u].left > -SweepEvery THEN cache[u].left - 1 ELSE cache[u].left
      BY <2>1 DEF Aged, Entry
    <2> QED
      BY <1>1, <1>7, <2>1, <2>2, <2>3, ConstantsAssumption DEF Tick, StoreTypes
  <1> QED
    BY <1>2, <1>3, <1>4, <1>5, <1>6, <1>7, CacheSteps

\* After any history, an entry expired no longer ago than the last sweep.
THEOREM SweepCorrect == Spec => []SweepKeepsUp
  <1>1. Init => SweepKeepsUp
    BY DEF Init, SweepKeepsUp
  <1> QED
    BY <1>1, SweepStep, HandlersCorrect, PTL DEF Spec

\* Only the end of a transaction writes the tables of roles and permissions.
LEMMA RoleTableSteps ==
  ASSUME [Next]_vars
  PROVE  \/ UNCHANGED <<roles, userRoles, rolePerms>>
         \/ \E i \in Request : EndTx(i)
  BY WritesOnlyInEndTx DEF Next, Environment, Crash, SoftDeleteUser, Tick, vars, tables

\* The row of a role after a transaction: which transactions change it, and how.
LEMMA RolesAfterEndTx ==
  ASSUME NEW i \in Request, EndTx(i)
  PROVE  \/ UNCHANGED roles
         \/ \E r \in Role : CreateCommit(i, r)
         \/ UpdateCommit(i)
         \/ RemoveCommit(i)
  BY DEF EndTx, AssignCommit, RevokeCommit, SetPermsCommit, Rollback, tables

\* The index on names decides at the commit.
LEMMA NamesStep == HandlerInv /\ LiveNamesUnique /\ [Next]_vars => LiveNamesUnique'
  <1> SUFFICES ASSUME HandlerInv, LiveNamesUnique, [Next]_vars PROVE LiveNamesUnique'
    OBVIOUS
  <1>1. TableTypes
    BY TypeGroups DEF HandlerInv
  <1>2. CASE UNCHANGED roles
    BY <1>2 DEF LiveNamesUnique, LiveRole
  <1>3. ASSUME NEW i \in Request, NEW r \in Role, CreateCommit(i, r) PROVE LiveNamesUnique'
    BY <1>2, <1>3 DEF CreateCommit, LiveNamesUnique, LiveRole, NameTaken, Bearers, Rollback, tables
  <1>4. ASSUME NEW i \in Request, UpdateCommit(i) PROVE LiveNamesUnique'
    <2> DEFINE o == op[i]
    <2>1. CASE UNCHANGED roles
      BY <1>2, <2>1
    <2>2. CASE /\ ~(LiveRole(o.role) /\ o.name # NoName /\ NameTaken(o.name, o.role))
               /\ roles' = [roles EXCEPT ![o.role] = Patched(@, o)]
      <3>1. \A s \in DOMAIN roles : s # o.role => roles'[s] = roles[s]
        BY <2>2, <1>1 DEF TableTypes
      <3>2. \A row \in RoleRow : Patched(row, o).deleted = row.deleted
        BY DEF Patched, RoleRow
      <3>3. \A row \in RoleRow :
               Patched(row, o).name = IF o.name = NoName THEN row.name ELSE o.name
        BY DEF Patched, RoleRow
      <3> QED
        BY <2>2, <3>1, <3>2, <3>3, <1>1
           DEF LiveNamesUnique, LiveRole, NameTaken, Bearers, TableTypes
    <2> QED
      BY <1>4, <2>1, <2>2 DEF UpdateCommit, Rollback, tables
  <1>5. ASSUME NEW i \in Request, RemoveCommit(i) PROVE LiveNamesUnique'
    BY <1>1, <1>5 DEF RemoveCommit, LiveNamesUnique, LiveRole, TableTypes, RoleRow
  <1> QED
    BY <1>2, <1>3, <1>4, <1>5, RoleTableSteps, RolesAfterEndTx

\* Two live roles never share a name, although the handlers look for a
\* duplicate before their transaction and not in it.
THEOREM NamesCorrect == Spec => []LiveNamesUnique
  <1>1. Init => LiveNamesUnique
    BY DEF Init, LiveNamesUnique, NameTaken, Bearers
  <1> QED
    BY <1>1, NamesStep, HandlersCorrect, PTL DEF Spec

-----------------------------------------------------------------------------
(* System roles.                                                           *)

\* Rows of roles are never deleted, and IsSystemRole is never written.
LEMMA RolesStay ==
  ASSUME TypeOK, [Next]_vars, NEW r \in DOMAIN roles
  PROVE  r \in DOMAIN roles' /\ roles'[r].system = roles[r].system
  <1>1. TableTypes
    BY TypeGroups
  <1>2. ASSUME NEW i \in Request, NEW s \in Role, CreateCommit(i, s)
        PROVE  r \in DOMAIN roles' /\ roles'[r].system = roles[r].system
    BY <1>2 DEF CreateCommit, Rollback, tables
  <1>3. ASSUME NEW i \in Request, UpdateCommit(i)
        PROVE  r \in DOMAIN roles' /\ roles'[r].system = roles[r].system
    <2>1. \A row \in RoleRow : \A o : Patched(row, o).system = row.system
      BY DEF Patched, RoleRow
    <2> QED
      BY <1>1, <1>3, <2>1 DEF UpdateCommit, Rollback, tables, TableTypes
  <1>4. ASSUME NEW i \in Request, RemoveCommit(i)
        PROVE  r \in DOMAIN roles' /\ roles'[r].system = roles[r].system
    BY <1>1, <1>4 DEF RemoveCommit, TableTypes, RoleRow
  <1> QED
    BY <1>2, <1>3, <1>4, RoleTableSteps, RolesAfterEndTx

\* The check of update and remove comes long before their write, but what it
\* found stays true.
LEMMA SystemTargetsStep == HandlerInv /\ SystemTargets /\ [Next]_vars => SystemTargets'
  <1> SUFFICES ASSUME HandlerInv, SystemTargets, [Next]_vars, NEW j \in Request
               PROVE  Harmless(j)'
    BY DEF SystemTargets
  <1>1. TypeOK /\ ControlTypes /\ Harmless(j)
    BY TypeGroups DEF HandlerInv, SystemTargets
  <1>2. ASSUME Undisturbed(j) PROVE Harmless(j)'
    BY <1>1, <1>2, RolesStay DEF Undisturbed, Harmless
  <1>3. CASE Arrive(j)
    <2> USE DEF Harmless, Accept, Refuse, Answer, ControlTypes, tables
    <2>1. ASSUME NEW r \in Role, RemoveCheck(j, r) PROVE Harmless(j)'
      BY <1>1, <2>1 DEF RemoveCheck, LiveRole
    <2>2. ASSUME NEW r \in Role, NEW n \in Name \cup {NoName}, NEW a \in {"on", "off", "same"},
                 UpdateCheck(j, r, n, a)
          PROVE  Harmless(j)'
      BY <1>1, <2>2 DEF UpdateCheck, Locked, LiveRole
    <2>3. ASSUME NEW u \in User, Lookup(j, u) PROVE Harmless(j)'
      BY <1>1, <2>3 DEF Lookup
    <2>4. ASSUME NEW u \in User, NEW url \in Urls, NEW ids \in RoleLists,
                 AssignCheck(j, u, url, ids)
          PROVE  Harmless(j)'
      BY <1>1, <2>4 DEF AssignCheck
    <2>5. ASSUME NEW u \in User, NEW url \in Urls, NEW r \in Role, RevokeCheck(j, u, url, r)
          PROVE  Harmless(j)'
      BY <1>1, <2>5 DEF RevokeCheck
    <2>6. ASSUME NEW n \in Name, NEW ids \in PermLists, CreateCheck(j, n, ids)
          PROVE  Harmless(j)'
      BY <1>1, <2>6 DEF CreateCheck
    <2>7. ASSUME NEW r \in Role, NEW ids \in PermLists, SetPermsCheck(j, r, ids)
          PROVE  Harmless(j)'
      BY <1>1, <2>7 DEF SetPermsCheck
    <2> QED
      BY <1>3, <2>1, <2>2, <2>3, <2>4, <2>5, <2>6, <2>7 DEF Arrive
  <1>4. CASE Capture(j)
    BY <1>1, <1>4 DEF Capture, Harmless, Goto, ControlTypes, tables
  <1>5. CASE (Continue(j) /\ ~Capture(j)) \/ DbError(j) \/ AckLost(j)
    <2>1. pc'[j] \in {"store", "invalidate", "reread", "done"} \/ op'[j].kind \in {"assign", "revoke", "setPerms"}
      <3> USE DEF ControlTypes, Goto, Answer, Rollback
      <3>1. CASE Query(j) \/ Store(j) \/ Invalidate(j) \/ Reread(j) \/ DbError(j) \/ AckLost(j)
        BY <1>1, <3>1 DEF Query, Store, Invalidate, Reread, DbError, AckLost
      <3>2. CASE AssignRead(j) \/ SetPermsRead(j)
        BY <1>1, <3>2 DEF AssignRead, SetPermsRead
      <3>4. CASE UserReread(j)
        <4>1. AtStage(j)
          BY DEF HandlerInv
        <4> QED
          BY <1>1, <3>4, <4>1 DEF UserReread, AtStage
      <3>3. CASE EndTx(j)
        <4>1. CASE AssignCommit(j) \/ RevokeCommit(j)
          BY <1>1, <4>1 DEF AssignCommit, RevokeCommit
        <4>2. CASE \E r \in Role : CreateCommit(j, r)
          BY <1>1, <4>2 DEF CreateCommit
        <4>3. CASE UpdateCommit(j)
          BY <1>1, <4>3 DEF UpdateCommit
        <4>4. CASE RemoveCommit(j)
          BY <1>1, <4>4 DEF RemoveCommit
        <4>5. CASE SetPermsCommit(j)
          BY <1>1, <4>5 DEF SetPermsCommit
        <4> QED
          BY <3>3, <4>1, <4>2, <4>3, <4>4, <4>5 DEF EndTx
      <3> QED
        BY <1>5, <3>1, <3>2, <3>3, <3>4 DEF Continue
    <2> QED
      BY <2>1 DEF Harmless
  <1>6. CASE Crash
    BY <1>1, <1>6 DEF Crash, Harmless, ControlTypes
  <1>7. ASSUME NEW i \in Request, i # j, Arrive(i) \/ Continue(i) \/ DbError(i) \/ AckLost(i)
        PROVE  Undisturbed(j)
    BY <1>1, <1>7, Frame
  <1>8. CASE Tick \/ (\E u \in User : SoftDeleteUser(u)) \/ UNCHANGED vars
    <2>1. Undisturbed(j)
      BY <1>8 DEF Tick, SoftDeleteUser, Undisturbed, control, journal, vars
    <2> QED
      BY <2>1, <1>2
  <1> QED
    BY <1>2, <1>3, <1>4, <1>5, <1>6, <1>7, <1>8 DEF Next, Environment

SystemRowsKept ==
    \A r \in DOMAIN roles :
        roles[r].system => r \in DOMAIN roles' /\ roles'[r] = roles[r]

\* No step changes the row of a system role.
LEMMA SystemRowsStay == HandlerInv /\ SystemTargets /\ [Next]_vars => SystemRowsKept
  <1> SUFFICES ASSUME HandlerInv, SystemTargets, [Next]_vars,
                      NEW r \in DOMAIN roles, roles[r].system
               PROVE  r \in DOMAIN roles' /\ roles'[r] = roles[r]
    BY DEF SystemRowsKept
  <1>1. TypeOK /\ TableTypes /\ ControlTypes /\ r \in DOMAIN roles'
    BY TypeGroups, RolesStay DEF HandlerInv
  <1>2. ASSUME NEW i \in Request, NEW s \in Role, CreateCommit(i, s)
        PROVE  roles'[r] = roles[r]
    BY <1>2 DEF CreateCommit, Rollback, tables
  <1>3. ASSUME NEW i \in Request, UpdateCommit(i) PROVE roles'[r] = roles[r]
    <2>1. Harmless(i)
      BY DEF SystemTargets
    <2>2. \A row \in RoleRow : op[i].name = NoName /\ op[i].active = "same"
                                  => Patched(row, op[i]) = row
      BY DEF Patched, RoleRow
    <2> QED
      BY <1>1, <1>3, <2>1, <2>2
         DEF UpdateCommit, Harmless, Rollback, tables, TableTypes
  <1>4. ASSUME NEW i \in Request, RemoveCommit(i) PROVE roles'[r] = roles[r]
    <2>1. Harmless(i)
      BY DEF SystemTargets
    <2>2. pc[i] = "commit" /\ op[i].kind = "remove"
      BY <1>4 DEF RemoveCommit
    <2>3. r # op[i].role
      BY <2>1, <2>2 DEF Harmless
    <2>4. roles' = [roles EXCEPT ![op[i].role].deleted = TRUE, ![op[i].role].active = FALSE]
      BY <1>4 DEF RemoveCommit
    <2> QED
      BY <2>3, <2>4, <1>1 DEF TableTypes
  <1> QED
    BY <1>1, <1>2, <1>3, <1>4, RoleTableSteps, RolesAfterEndTx

\* A system role is never deleted, renamed or deactivated.
THEOREM SystemRolesCorrect == Spec => SystemRolesIntact
  <1>1. Init => SystemTargets
    BY DEF Init, SystemTargets, Harmless
  <1>2. Spec => [](HandlerInv /\ SystemTargets)
    BY <1>1, HandlerInit, HandlerStep, SystemTargetsStep, PTL DEF Spec
  <1> QED
    BY <1>2, SystemRowsStay, PTL DEF Spec, SystemRolesIntact, SystemRowsKept

-----------------------------------------------------------------------------
(* How transactions end and loads go on.                                   *)

\* A transaction commits, and then its request waits to invalidate or re-read,
\* or it rolls back and leaves nothing.
Outcome(i) ==
    /\ UNCHANGED <<op, store>>
    /\ pc[i] = "commit"
    /\ \/ /\ UNCHANGED <<tables, journal>>
          /\ pc' = [pc EXCEPT ![i] = "done"]
          /\ affected' = [affected EXCEPT ![i] = {}]
       \/ /\ i \in committed' \ committed
          /\ pc' = [pc EXCEPT ![i] = IF op[i].kind = "create" THEN "reread" ELSE "invalidate"]
          /\ affected' = affected

LEMMA EndTxOutcome ==
  ASSUME HandlerInv, NEW i \in Request, EndTx(i)
  PROVE  Outcome(i)
  <1>1. AtStage(i)
    BY DEF HandlerInv
  <1> USE <1>1 DEF Outcome, AtStage, Rollback, Answer, Commit, Goto, store
  <1>2. CASE AssignCommit(i)
    BY <1>2 DEF AssignCommit
  <1>3. CASE RevokeCommit(i)
    BY <1>3 DEF RevokeCommit
  <1>4. ASSUME NEW r \in Role, CreateCommit(i, r) PROVE Outcome(i)
    BY <1>4 DEF CreateCommit
  <1>5. CASE UpdateCommit(i)
    BY <1>5 DEF UpdateCommit
  <1>6. CASE RemoveCommit(i)
    BY <1>6 DEF RemoveCommit
  <1>7. CASE SetPermsCommit(i)
    BY <1>7 DEF SetPermsCommit
  <1> QED
    BY <1>2, <1>3, <1>4, <1>5, <1>6, <1>7 DEF EndTx

\* A load enters the stage "store" only with an answer of the database.
LEMMA StoreEntered ==
  ASSUME HandlerInv, [Next]_vars, NEW j \in Request, pc'[j] = "store"
  PROVE  Query(j) \/ (pc[j] = "store" /\ Undisturbed(j))
  <1>1. ControlTypes
    BY TypeGroups DEF HandlerInv
  <1>2. CASE Arrive(j)
    <2>1. pc'[j] # "store"
      BY <1>1, <1>2, ArriveShape DEF Shape, Accept, Refuse, Answer, ControlTypes
    <2> QED
      BY <2>1
  <1>3. CASE (Continue(j) /\ ~Query(j)) \/ DbError(j) \/ AckLost(j)
    <2>1. CASE EndTx(j)
      BY <1>1, <2>1, EndTxOutcome DEF Outcome, ControlTypes
    <2>2. CASE ~EndTx(j)
      BY <1>1, <1>3, <2>2 DEF Continue, Store, Capture, AssignRead, SetPermsRead, UserReread,
         Rollback, Invalidate, Reread, DbError, AckLost, Goto, Answer, ControlTypes
    <2> QED
      BY <2>1, <2>2
  <1>4. CASE Crash
    BY <1>1, <1>4 DEF Crash, ControlTypes
  <1>5. ASSUME NEW i \in Request, i # j, Arrive(i) \/ Continue(i) \/ DbError(i) \/ AckLost(i)
        PROVE  Undisturbed(j)
    BY <1>1, <1>5, Frame
  <1>6. CASE Tick \/ (\E u \in User : SoftDeleteUser(u)) \/ UNCHANGED vars
    BY <1>6 DEF Tick, SoftDeleteUser, Undisturbed, control, journal, vars
  <1> QED
    BY <1>2, <1>3, <1>4, <1>5, <1>6 DEF Next, Environment, Undisturbed
=============================================================================
