-------------------------- MODULE RbacHistory_proofs --------------------------
(***************************************************************************)
(* The permission cache is coherent but for four named mishaps: the proof  *)
(* that CoherenceInv is inductive.  What mutations have read, and what they *)
(* do with it.                                                             *)
(***************************************************************************)
EXTENDS RbacHistory, Rbac_proofs

grants == <<roles, userRoles, rolePerms>>

-----------------------------------------------------------------------------
(* A step with history is a step of Rbac.                                  *)

LEMMA HStepIsStep == [HNext]_allVars => [Next]_vars
  BY DEF HNext, allVars

LEMMA HistoryIsRbac == HSpec => Spec
  BY HStepIsStep, PTL DEF HSpec, HInit, Spec

-----------------------------------------------------------------------------
(* Who can lose a permission by a transaction.                             *)

\* The tables change only if a transaction commits.
LEMMA GrantsChangeByCommit ==
  ASSUME HandlerInv, [Next]_vars, grants' # grants
  PROVE  committed' # committed
  <1>1. PICK i \in Request : EndTx(i)
    BY RoleTableSteps DEF grants
  <1> QED
    BY <1>1, EndTxOutcome DEF Outcome, tables, grants

\* A user outside Losers keeps every permission.
LEMMA OnlyLosersLose ==
  ASSUME HandlerInv, NEW i \in Request, EndTx(i), NEW u \in User, u \notin Losers(op[i])
  PROVE  Effective(u) \subseteq Effective(u)'
  <1>1. TableTypes
    BY TypeGroups DEF HandlerInv
  <1>2. SUFFICES ASSUME NEW p \in ActivePerm, NEW r \in DOMAIN roles, ActiveRole(r),
                        <<u, r>> \in userRoles, <<r, p>> \in rolePerms
                 PROVE  p \in Effective(u)'
    BY DEF Effective
  <1>3. ASSUME r \in DOMAIN roles', ActiveRole(r)', <<u, r>> \in userRoles',
               <<r, p>> \in rolePerms'
        PROVE  p \in Effective(u)'
    BY <1>3 DEF Effective
  <1>4. CASE UNCHANGED tables
    BY <1>2, <1>3, <1>4 DEF tables, ActiveRole, LiveRole
  <1>5. CASE AssignCommit(i)
    BY <1>2, <1>3, <1>4, <1>5 DEF AssignCommit, Rollback, ActiveRole, LiveRole
  <1>6. CASE RevokeCommit(i)
    BY <1>2, <1>3, <1>4, <1>6 DEF RevokeCommit, Rollback, ActiveRole, LiveRole, Losers
  <1>7. ASSUME NEW s \in Role, CreateCommit(i, s) PROVE p \in Effective(u)'
    BY <1>2, <1>3, <1>4, <1>7 DEF CreateCommit, Rollback, ActiveRole, LiveRole
  <1>8. CASE UpdateCommit(i)
    <2> DEFINE o == op[i]
    <2> SUFFICES ASSUME roles' = [roles EXCEPT ![o.role] = Patched(@, o)],
                        UNCHANGED <<userRoles, rolePerms>>, o.kind = "update"
                 PROVE  p \in Effective(u)'
      BY <1>4, <1>8 DEF UpdateCommit, Rollback
    <2>1. CASE o.active = "off" /\ r = o.role
      BY <1>2, <2>1 DEF Losers, Holders
    <2>2. CASE ~(o.active = "off" /\ r = o.role)
      <3>1. roles[r] \in RoleRow
        BY <1>1 DEF TableTypes
      <3>2. Patched(roles[r], o).deleted = roles[r].deleted
        BY <3>1 DEF Patched, RoleRow
      <3>3. Patched(roles[r], o).active =
               IF o.active = "same" THEN roles[r].active ELSE o.active = "on"
        BY <3>1 DEF Patched, RoleRow
      <3>4. op[i] \in Op /\ (o.active \in {"on", "off", "same"})
        BY OpFields, TypeGroups DEF HandlerInv, ControlTypes
      <3>5. r \in DOMAIN roles' /\ ActiveRole(r)'
        BY <1>1, <1>2, <2>2, <3>2, <3>3, <3>4 DEF ActiveRole, LiveRole, TableTypes
      <3> QED
        BY <1>2, <1>3, <3>5
    <2> QED
      BY <2>1, <2>2
  <1>9. CASE RemoveCommit(i)
    <2>1. r # op[i].role
      BY <1>2, <1>9 DEF RemoveCommit, Losers, Holders
    <2> QED
      BY <1>1, <1>2, <1>3, <1>9, <2>1 DEF RemoveCommit, ActiveRole, LiveRole, TableTypes
  <1>10. CASE SetPermsCommit(i)
    <2>1. r # op[i].role
      BY <1>2, <1>10 DEF SetPermsCommit, Losers, Holders
    <2> QED
      BY <1>2, <1>3, <1>4, <1>10, <2>1 DEF SetPermsCommit, Rollback, ActiveRole, LiveRole
  <1> QED
    BY <1>5, <1>6, <1>7, <1>8, <1>9, <1>10 DEF EndTx

-----------------------------------------------------------------------------
(* What a request holds is right, or the request is overlapped.            *)

\* A request that holds what it read across a commit is overlapped.
LEMMA OverlapNoted ==
  ASSUME HandlerInv, [HNext]_allVars, NEW j \in Request,
         Holds(j), Holds(j)', j \notin overlapped'
  PROVE  j \notin overlapped /\ UNCHANGED grants
  <1>1. j \notin overlapped /\ committed' = committed
    BY DEF HNext, Holds, NoteOverlap, allVars, histVars, vars, journal
  <1> QED
    BY <1>1, HStepIsStep, GrantsChangeByCommit

LEMMA FreshStep ==
  ASSUME HandlerInv, FreshRows, [HNext]_allVars
  PROVE  FreshRows'
  <1> SUFFICES ASSUME NEW j \in Request, pc'[j] = "store", j \notin overlapped'
               PROVE  (rows[j] \subseteq Effective(op[j].user))'
    BY DEF FreshRows
  <1>1. ControlTypes
    BY TypeGroups DEF HandlerInv
  <1>2. CASE Query(j)
    BY <1>1, <1>2 DEF Query, ControlTypes, tables, Effective, ActiveRole, LiveRole
  <1>3. CASE pc[j] = "store" /\ Undisturbed(j)
    <2>1. j \notin overlapped /\ UNCHANGED grants
      BY <1>3, OverlapNoted DEF Holding, Holds, Undisturbed
    <2>2. rows[j] \subseteq Effective(op[j].user)
      BY <1>3, <2>1 DEF FreshRows
    <2> QED
      BY <1>3, <2>1, <2>2 DEF Undisturbed, grants, Effective, ActiveRole, LiveRole
  <1> QED
    BY <1>2, <1>3, StoreEntered, HStepIsStep

\* How a request gets to the stages in which it holds captured users.
Captures(j) ==
    \/ UNCHANGED grants /\ (Blind(op[j]) \/ Losers(op[j]) \subseteq affected[j])'
    \/ /\ pc[j] \in {"read", "recheck", "commit"}
       /\ op'[j] = op[j]
       /\ affected'[j] = affected[j]

LEMMA CaptureEntered ==
  ASSUME HandlerInv, [Next]_vars, NEW j \in Request, pc'[j] \in {"read", "recheck", "commit"}
  PROVE  Captures(j)
  <1>1. ControlTypes /\ AtStage(j)
    BY TypeGroups DEF HandlerInv
  <1>2. CASE Arrive(j)
    <2> USE DEF Captures, Losers, Accept, Refuse, Answer, ControlTypes, tables, grants
    <2>1. ASSUME NEW u \in User, Lookup(j, u) PROVE Captures(j)
      BY <1>1, <2>1 DEF Lookup
    <2>2. ASSUME NEW u \in User, NEW url \in Urls, NEW ids \in RoleLists,
                 AssignCheck(j, u, url, ids)
          PROVE  Captures(j)
      BY <1>1, <2>2 DEF AssignCheck
    <2>3. ASSUME NEW u \in User, NEW url \in Urls, NEW r \in Role, RevokeCheck(j, u, url, r)
          PROVE  Captures(j)
      BY <1>1, <2>3 DEF RevokeCheck, Keyed, Blind
    <2>4. ASSUME NEW n \in Name, NEW ids \in PermLists, CreateCheck(j, n, ids)
          PROVE  Captures(j)
      BY <1>1, <2>4 DEF CreateCheck
    <2>5. ASSUME NEW r \in Role, NEW n \in Name \cup {NoName}, NEW a \in {"on", "off", "same"},
                 UpdateCheck(j, r, n, a)
          PROVE  Captures(j)
      BY <1>1, <2>5 DEF UpdateCheck
    <2>6. ASSUME NEW r \in Role, RemoveCheck(j, r) PROVE Captures(j)
      BY <1>1, <2>6 DEF RemoveCheck
    <2>7. ASSUME NEW r \in Role, NEW ids \in PermLists, SetPermsCheck(j, r, ids)
          PROVE  Captures(j)
      BY <1>1, <2>7 DEF SetPermsCheck
    <2> QED
      BY <1>2, <2>1, <2>2, <2>3, <2>4, <2>5, <2>6, <2>7 DEF Arrive
  <1>3. CASE Capture(j)
    BY <1>1, <1>3 DEF Capture, Captures, Losers, Holders, ControlTypes, AtStage, tables, grants
  <1>4. CASE AssignRead(j) \/ SetPermsRead(j) \/ UserReread(j)
    BY <1>1, <1>4 DEF AssignRead, SetPermsRead, UserReread, Rollback, Answer, Captures, Goto,
       ControlTypes
  <1>5. CASE EndTx(j)
    BY <1>1, <1>5, EndTxOutcome DEF Outcome, ControlTypes
  <1>6. CASE Query(j) \/ Store(j) \/ Invalidate(j) \/ Reread(j) \/ DbError(j) \/ AckLost(j)
    BY <1>1, <1>6 DEF Query, Store, Invalidate, Reread, DbError, AckLost, Goto, Answer,
       ControlTypes
  <1>7. CASE Crash
    BY <1>1, <1>7 DEF Crash, ControlTypes
  <1>8. ASSUME Undisturbed(j) PROVE Captures(j)
    BY <1>8 DEF Undisturbed, Captures
  <1>9. ASSUME NEW i \in Request, i # j, Arrive(i) \/ Continue(i) \/ DbError(i) \/ AckLost(i)
        PROVE  Undisturbed(j)
    BY <1>1, <1>9, Frame
  <1>10. CASE Tick \/ (\E u \in User : SoftDeleteUser(u)) \/ UNCHANGED vars
    <2>1. Undisturbed(j)
      BY <1>10 DEF Tick, SoftDeleteUser, Undisturbed, control, journal, vars
    <2> QED
      BY <2>1, <1>8
  <1> QED
    BY <1>2, <1>3, <1>4, <1>5, <1>6, <1>7, <1>8, <1>9, <1>10 DEF Next, Environment, Continue

LEMMA CaptureStep ==
  ASSUME HandlerInv, CaptureComplete, [HNext]_allVars
  PROVE  CaptureComplete'
  <1> SUFFICES ASSUME NEW j \in Request, pc'[j] \in {"read", "recheck", "commit"},
                      j \notin overlapped', ~Blind(op[j])'
               PROVE  (Losers(op[j]) \subseteq affected[j])'
    BY DEF CaptureComplete
  <1>1. CASE pc[j] \in {"read", "recheck", "commit"} /\ op'[j] = op[j] /\ affected'[j] = affected[j]
    <2>1. j \notin overlapped /\ UNCHANGED grants
      BY <1>1, OverlapNoted DEF Holding, Holds
    <2>2. Losers(op[j]) \subseteq affected[j]
      BY <1>1, <2>1 DEF CaptureComplete, Blind
    <2> QED
      BY <1>1, <2>1, <2>2 DEF Losers, Holders, grants
  <1> QED
    BY <1>1, CaptureEntered, HStepIsStep DEF Captures

-----------------------------------------------------------------------------
(* Coherence.                                                              *)

\* An invalidation stays pending unless its own request takes a step.
LEMMA PendingStays ==
  ASSUME HandlerInv, NEW i \in Request,
         Arrive(i) \/ Continue(i) \/ DbError(i) \/ AckLost(i),
         pc[i] # "invalidate", NEW u, Pending(u)
  PROVE  Pending(u)'
  <1>1. PICK j \in Request : pc[j] = "invalidate" /\ u \in affected[j]
    BY DEF Pending
  <1>2. Undisturbed(j)
    BY <1>1, Frame, TypeGroups DEF HandlerInv
  <1> QED
    BY <1>1, <1>2 DEF Undisturbed, Pending

\* With the grants as they are and the cache no larger, nothing becomes stale.
LEMMA StaleBefore ==
  ASSUME UNCHANGED grants, NEW u, Stale(u)',
         u \in DOMAIN cache, cache'[u].keys = cache[u].keys
  PROVE  Stale(u)
  BY DEF Stale, grants, Effective, ActiveRole, LiveRole

\* No answer of the database is cached for u.
NoStore(u) == ~\E i \in Request : Store(i) /\ u = op[i].user

\* An excuse lasts as long as the entry.
LEMMA ExcuseKept ==
  ASSUME NoteExcuses, NEW u, Stale(u)', NoStore(u), u \in excused
  PROVE  u \in excused'
  BY DEF NoteExcuses, Stale, NoStore

LEMMA ExcuseGiven ==
  ASSUME NoteExcuses, NEW u, Stale(u)', NEW i \in Request, Excuses(i, u)
  PROVE  u \in excused'
  BY DEF NoteExcuses, Stale

\* An answer that nothing overtook is right.
LEMMA CoherentStored ==
  ASSUME HandlerInv, FreshRows, NoteExcuses, NEW u \in User, Stale(u)',
         NEW i \in Request, Store(i), u = op[i].user
  PROVE  u \in excused'
  <1>1. i \in overlapped
    <2> SUFFICES ASSUME i \notin overlapped PROVE FALSE
      OBVIOUS
    <2>1. rows[i] \subseteq Effective(u) /\ cache'[u].keys = rows[i] /\ UNCHANGED grants
      BY DEF FreshRows, Store, tables, grants
    <2> QED
      BY <2>1 DEF Stale, grants, Effective, ActiveRole, LiveRole
  <1> QED
    BY <1>1, ExcuseGiven DEF Excuses

LEMMA CoherentEndTx ==
  ASSUME HandlerInv, CaptureComplete, Coherent, NoteExcuses, NEW u \in User, Stale(u)',
         NoStore(u), NEW i \in Request, EndTx(i)
  PROVE  Pending(u)' \/ u \in excused'
  <1>1. Outcome(i) /\ pc[i] = "commit" /\ cache' = cache
    BY EndTxOutcome DEF Outcome, store
  <1>2. CASE Stale(u)
    <2>1. Pending(u) \/ u \in excused
      BY <1>2 DEF Coherent
    <2> QED
      BY <1>1, <2>1, PendingStays, ExcuseKept DEF Continue
  <1>3. CASE ~Stale(u)
    <2>1. u \in Losers(op[i])
      <3> SUFFICES ASSUME u \notin Losers(op[i]) PROVE FALSE
        OBVIOUS
      <3>1. Effective(u) \subseteq Effective(u)'
        BY OnlyLosersLose
      <3> QED
        BY <1>1, <1>3, <3>1 DEF Stale
    <2>2. grants' # grants
      BY <1>1, <1>3, StaleBefore DEF Stale
    <2>3. pc'[i] = "invalidate" /\ affected' = affected /\ i \in committed' \ committed
      BY <1>1, <2>1, <2>2, TypeGroups
         DEF Outcome, Losers, tables, grants, HandlerInv, ControlTypes
    <2>4. CASE u \in affected[i]
      BY <2>3, <2>4 DEF Pending
    <2>5. CASE u \notin affected[i]
      <3>1. i \in overlapped \/ Blind(op[i])
        BY <1>1, <2>1, <2>5 DEF CaptureComplete
      <3> QED
        BY <2>1, <2>3, <2>5, <3>1, ExcuseGiven DEF Excuses
    <2> QED
      BY <2>4, <2>5
  <1> QED
    BY <1>2, <1>3

\* A step of a request that ends no transaction: an invalidation stays pending
\* unless it is done, or given up.
LEMMA CoherentRequest ==
  ASSUME HandlerInv, Coherent, NoteExcuses, NEW u \in User, Stale(u)', NoStore(u),
         NEW i \in Request, Arrive(i) \/ Continue(i) \/ DbError(i) \/ AckLost(i), ~EndTx(i)
  PROVE  Pending(u)' \/ u \in excused'
  <1>1. UNCHANGED grants
    BY WritesOnlyInEndTx DEF tables, grants
  <1>2. u \in DOMAIN cache /\ cache'[u] = cache[u]
    <2>1. ASSUME NEW v \in User, Lookup(i, v) PROVE u \in DOMAIN cache /\ cache'[u] = cache[u]
      BY <2>1 DEF Lookup, Without, Sweep, Stale
    <2>2. CASE Store(i)
      BY <2>2 DEF Store, Stale, NoStore
    <2>3. CASE Invalidate(i)
      BY <2>3 DEF Invalidate, Without, Stale
    <2>4. CASE UNCHANGED store
      BY <2>4 DEF store, Stale
    <2> QED
      BY <2>1, <2>2, <2>3, <2>4, RequestCacheSteps
  <1>3. Pending(u) \/ u \in excused
    BY <1>1, <1>2, StaleBefore DEF Coherent
  <1>4. ASSUME Pending(u) PROVE Pending(u)' \/ u \in excused'
    <2>1. PICK j \in Request : pc[j] = "invalidate" /\ u \in affected[j]
      BY <1>4 DEF Pending
    <2>2. CASE j # i
      <3>1. Undisturbed(j)
        BY <2>2, Frame, TypeGroups DEF HandlerInv
      <3> QED
        BY <2>1, <3>1 DEF Undisturbed, Pending
    <2>3. CASE j = i
      <3>1. ~Arrive(i)
        BY <2>1, <2>3, ArriveShape DEF Shape
      <3>2. ~Invalidate(i)
        BY <2>1, <2>3 DEF Invalidate, Without, Stale
      <3>3. AckLost(i)
        BY <2>1, <2>3, <3>1, <3>2 DEF Continue, Query, Store, Capture, AssignRead,
           SetPermsRead, UserReread, Reread, DbError, DbStage
      <3> QED
        BY <2>1, <2>3, <3>3, ExcuseGiven DEF Excuses
    <2> QED
      BY <2>2, <2>3
  <1> QED
    BY <1>3, <1>4, ExcuseKept

LEMMA CoherentEnvironment ==
  ASSUME HandlerInv, Coherent, NoteExcuses, NEW u \in User, Stale(u)', NoStore(u),
         Environment
  PROVE  Pending(u)' \/ u \in excused'
  <1>1. ~Crash
    BY DEF Crash, Without, Stale
  <1>2. UNCHANGED <<grants, pc, affected>>
    BY <1>1 DEF Environment, SoftDeleteUser, Tick, grants, tables, control
  <1>3. u \in DOMAIN cache /\ cache'[u].keys = cache[u].keys
    <2>1. CASE Tick
      <3>1. u \in DOMAIN cache /\ cache[u] \in Entry
        BY <2>1, TypeGroups DEF Stale, Tick, HandlerInv, StoreTypes
      <3> QED
        BY <2>1, <3>1 DEF Tick, Aged, Entry
    <2>2. ASSUME NEW v \in User, SoftDeleteUser(v)
          PROVE  u \in DOMAIN cache /\ cache'[u].keys = cache[u].keys
      BY <2>2 DEF SoftDeleteUser, store, Stale
    <2> QED
      BY <1>1, <2>1, <2>2 DEF Environment
  <1>4. Pending(u) \/ u \in excused
    BY <1>2, <1>3, StaleBefore DEF Coherent
  <1> QED
    BY <1>2, <1>4, ExcuseKept DEF Pending

LEMMA CoherentStep ==
  ASSUME HandlerInv, FreshRows, CaptureComplete, Coherent, [HNext]_allVars
  PROVE  Coherent'
  <1> SUFFICES ASSUME NEW u \in User, Stale(u)' PROVE Pending(u)' \/ u \in excused'
    BY DEF Coherent
  <1>1. CASE UNCHANGED allVars
    BY <1>1 DEF allVars, histVars, vars, tables, store, control, Coherent, Stale, Pending,
       Effective, ActiveRole, LiveRole
  <1>2. CASE HNext /\ ~NoStore(u)
    BY <1>2, CoherentStored DEF HNext, NoStore
  <1>3. CASE HNext /\ NoStore(u)
    BY <1>3, CoherentEndTx, CoherentRequest, CoherentEnvironment DEF HNext, Next
  <1> QED
    BY <1>1, <1>2, <1>3

-----------------------------------------------------------------------------
(* The theorems.                                                           *)

LEMMA CoherenceInit == HInit => CoherenceInv
  BY HandlerInit DEF HInit, Init, CoherenceInv, FreshRows, CaptureComplete, Coherent, Stale

LEMMA CoherenceStep == CoherenceInv /\ [HNext]_allVars => CoherenceInv'
  BY HStepIsStep, HandlerStep, FreshStep, CaptureStep, CoherentStep DEF CoherenceInv

\* Whatever the requests, the faults and their timing, a permission that its
\* user has lost is in the cache only while an invalidation is on its way, or
\* for one of the four excuses of RbacHistory.
THEOREM CoherenceCorrect == HSpec => []Coherent
  <1>1. CoherenceInv => Coherent
    BY DEF CoherenceInv
  <1> QED
    BY <1>1, CoherenceInit, CoherenceStep, PTL DEF HSpec

\* The variables of Rbac and of its history keep their types.
THEOREM HistoryTypeCorrect == HSpec => []HTypeOK
  <1> DEFINE HistTypes == /\ overlapped \subseteq Request
                          /\ crossed \subseteq Request
                          /\ excused \subseteq User
  <1>1. HInit => HistTypes
    BY DEF HInit
  <1>2. HandlerInv /\ HistTypes /\ [HNext]_allVars => HistTypes'
    <2> SUFFICES ASSUME HandlerInv, HistTypes, [HNext]_allVars PROVE HistTypes'
      OBVIOUS
    <2>1. overlapped' \subseteq Request /\ crossed' \subseteq Request
      BY DEF HNext, NoteOverlap, NoteCrossing, allVars, histVars
    <2>2. DOMAIN cache' \subseteq User
      BY HStepIsStep, HandlerStep, TypeGroups DEF HandlerInv, StoreTypes
    <2>3. excused' \subseteq User
      BY <2>2 DEF HNext, NoteExcuses, allVars, histVars
    <2> QED
      BY <2>1, <2>3
  <1>3. HandlerInv /\ HistTypes => HTypeOK
    BY DEF HandlerInv, HTypeOK
  <1> QED
    BY <1>1, <1>2, <1>3, HistoryIsRbac, HandlersCorrect, HStepIsStep, PTL DEF HSpec

-----------------------------------------------------------------------------
(* What a mutation has read, and what it does with it.                     *)

LEMMA ReadsArrive ==
  ASSUME HandlerInv, NEW j \in Request, Arrive(j)
  PROVE  UNCHANGED grants /\ ReadsHold(j)' /\ ~Holds(j)
  <1>1. ControlTypes /\ pc[j] = "idle" /\ UNCHANGED tables
    BY TypeGroups, ArriveShape DEF HandlerInv, Shape
  <1>2. UNCHANGED grants /\ ~Holds(j)
    BY <1>1 DEF tables, grants, Holds, Holding
  <1> USE DEF ReadsHold, Accept, Refuse, Answer, ControlTypes, tables
  <1>3. ASSUME NEW u \in User, Lookup(j, u) PROVE ReadsHold(j)'
    BY <1>1, <1>3 DEF Lookup
  <1>4. ASSUME NEW u \in User, NEW url \in Urls, NEW ids \in RoleLists,
               AssignCheck(j, u, url, ids)
        PROVE  ReadsHold(j)'
    <2>1. CASE AllFound(ids, ActiveRoles)
      <3>1. Ids(ids) \subseteq ActiveRoles
        BY <2>1, AllFoundMeans, ConstantsAssumption
      <3>2. \A r \in Ids(ids) : LiveRole(r)'
        BY <1>1, <3>1 DEF ActiveRoles, ActiveRole, LiveRole
      <3> QED
        BY <1>1, <1>4, <3>2 DEF AssignCheck, LiveRole
    <2>2. CASE ~AllFound(ids, ActiveRoles)
      BY <1>1, <1>4, <2>2 DEF AssignCheck
    <2> QED
      BY <2>1, <2>2
  <1>5. ASSUME NEW u \in User, NEW url \in Urls, NEW r \in Role, RevokeCheck(j, u, url, r)
        PROVE  ReadsHold(j)'
    BY <1>1, <1>5 DEF RevokeCheck
  <1>6. ASSUME NEW n \in Name, NEW ids \in PermLists, CreateCheck(j, n, ids)
        PROVE  ReadsHold(j)'
    BY <1>1, <1>6 DEF CreateCheck, Bearers, LiveRole
  <1>7. ASSUME NEW r \in Role, NEW n \in Name \cup {NoName}, NEW a \in {"on", "off", "same"},
               UpdateCheck(j, r, n, a)
        PROVE  ReadsHold(j)'
    BY <1>1, <1>7 DEF UpdateCheck, NameTaken, Bearers, LiveRole
  <1>8. ASSUME NEW r \in Role, RemoveCheck(j, r) PROVE ReadsHold(j)'
    BY <1>1, <1>8 DEF RemoveCheck
  <1>9. ASSUME NEW r \in Role, NEW ids \in PermLists, SetPermsCheck(j, r, ids)
        PROVE  ReadsHold(j)'
    BY <1>1, <1>9 DEF SetPermsCheck
  <1> QED
    BY <1>2, <1>3, <1>4, <1>5, <1>6, <1>7, <1>8, <1>9 DEF Arrive

\* With the grants and the request as they are, what it has read stays so.
LEMMA ReadsKept ==
  ASSUME NEW j, ReadsHold(j), UNCHANGED grants, UNCHANGED <<pc, op, rows>> \/ Undisturbed(j)
  PROVE  ReadsHold(j)'
  BY DEF ReadsHold, Undisturbed, grants, LiveRole, Attached, PermsOf, Bearers, NameTaken

LEMMA ReadsContinue ==
  ASSUME HandlerInv, NEW j \in Request, Continue(j) \/ DbError(j) \/ AckLost(j),
         Holds(j) => ReadsHold(j), Holds(j)'
  PROVE  ReadsHold(j)'
  <1>1. ControlTypes /\ AtStage(j)
    BY TypeGroups DEF HandlerInv
  <1> USE DEF ReadsHold, Goto, Answer, ControlTypes, tables, Holds, Holding
  <1>2. CASE Query(j) \/ Store(j) \/ Invalidate(j) \/ Reread(j) \/ DbError(j) \/ AckLost(j)
    BY <1>1, <1>2 DEF Query, Store, Invalidate, Reread, DbError, AckLost, AtStage
  <1>3. CASE Capture(j)
    BY <1>1, <1>3 DEF Capture, AtStage, NameTaken, Bearers, LiveRole
  <1>4. CASE AssignRead(j)
    BY <1>1, <1>4 DEF AssignRead, Attached, LiveRole
  <1>5. CASE SetPermsRead(j)
    BY <1>1, <1>5 DEF SetPermsRead, PermsOf
  <1>6. CASE EndTx(j)
    BY <1>1, <1>6, EndTxOutcome DEF Outcome
  <1>7. CASE UserReread(j)
    BY <1>1, <1>7 DEF UserReread, Rollback, AtStage, Attached, LiveRole
  <1> QED
    BY <1>2, <1>3, <1>4, <1>5, <1>6, <1>7 DEF Continue

LEMMA ReadsStep ==
  ASSUME HandlerInv, ReadsFresh, [HNext]_allVars
  PROVE  ReadsFresh'
  <1> SUFFICES ASSUME NEW j \in Request, j \notin overlapped' PROVE ReadsHold(j)'
    BY DEF ReadsFresh
  <1>1. ControlTypes /\ [Next]_vars
    BY TypeGroups, HStepIsStep DEF HandlerInv
  <1>2. SUFFICES ASSUME Holds(j)' PROVE ReadsHold(j)'
    BY DEF Holds, Holding, ReadsHold
  <1>3. ASSUME Holds(j) PROVE ReadsHold(j) /\ UNCHANGED grants
    BY <1>2, <1>3, OverlapNoted DEF ReadsFresh
  <1>4. CASE Undisturbed(j)
    <2>1. Holds(j)
      BY <1>2, <1>4 DEF Undisturbed, Holds
    <2> QED
      BY <1>3, <1>4, <2>1, ReadsKept
  <1>5. CASE Arrive(j)
    BY <1>5, ReadsArrive
  <1>6. CASE Continue(j) \/ DbError(j) \/ AckLost(j)
    BY <1>2, <1>3, <1>6, ReadsContinue
  <1>7. CASE Crash
    BY <1>1, <1>2, <1>7 DEF Crash, Holds, Holding, ControlTypes
  <1>8. ASSUME NEW i \in Request, i # j, Arrive(i) \/ Continue(i) \/ DbError(i) \/ AckLost(i)
        PROVE  Undisturbed(j)
    BY <1>1, <1>8, Frame
  <1>9. ASSUME Tick \/ (\E u \in User : SoftDeleteUser(u)) \/ UNCHANGED vars
        PROVE  Undisturbed(j)
    BY <1>9 DEF Tick, SoftDeleteUser, Undisturbed, control, journal, vars
  <1> QED
    BY <1>1, <1>4, <1>5, <1>6, <1>7, <1>8, <1>9 DEF Next, Environment

LEMMA ReadsAlways == HSpec => [](HandlerInv /\ ReadsFresh)
  <1>1. HInit => HandlerInv /\ ReadsFresh
    BY HandlerInit DEF HInit, Init, ReadsFresh, ReadsHold
  <1>2. HandlerInv /\ ReadsFresh /\ [HNext]_allVars => (HandlerInv /\ ReadsFresh)'
    BY HStepIsStep, HandlerStep, ReadsStep
  <1> QED
    BY <1>1, <1>2, PTL DEF HSpec

\* Where a mutation commits: it was not committed before, and nobody else commits.
LEMMA CommitsInEndTx ==
  ASSUME HandlerInv, [Next]_vars, NEW i \in Request, i \in committed' \ committed
  PROVE  EndTx(i)
  <1>1. ControlTypes
    BY TypeGroups DEF HandlerInv
  <1>2. ASSUME NEW k \in Request, Arrive(k) \/ Continue(k) \/ DbError(k) \/ AckLost(k)
        PROVE  EndTx(i)
    <2>1. CASE k = i
      BY <1>2, <2>1, WritesOnlyInEndTx DEF journal
    <2>2. CASE k # i
      BY <1>1, <1>2, <2>2, Frame DEF Undisturbed
    <2> QED
      BY <2>1, <2>2
  <1> QED
    BY <1>2 DEF Next, Environment, Crash, SoftDeleteUser, Tick, vars, journal

\* Replacing a role's permissions leaves exactly those asked for, unless another
\* commit came between.
THEOREM ReplaceCorrect == HSpec => ReplaceIsExact
  <1> DEFINE Exact == \A i \in Request :
                /\ op[i].kind = "setPerms"
                /\ i \notin overlapped
                /\ i \in committed' \ committed
                => PermsOf(op[i].role)' = Ids(op[i].ids)
  <1>1. HandlerInv /\ ReadsFresh /\ [HNext]_allVars => Exact
    <2> SUFFICES ASSUME HandlerInv, ReadsFresh, [HNext]_allVars, NEW i \in Request,
                        op[i].kind = "setPerms", i \notin overlapped,
                        i \in committed' \ committed
                 PROVE  PermsOf(op[i].role)' = Ids(op[i].ids)
      OBVIOUS
    <2>1. EndTx(i)
      BY HStepIsStep, CommitsInEndTx
    <2>2. SetPermsCommit(i) /\ pc[i] = "commit" /\ op' = op
      BY <2>1 DEF EndTx, AssignCommit, RevokeCommit, CreateCommit, UpdateCommit, RemoveCommit,
         SetPermsCommit, Rollback
    <2>3. rows[i] = PermsOf(op[i].role) /\ Ids(op[i].ids) \subseteq Perm
      BY <2>2, TypeGroups, OpFields DEF ReadsFresh, ReadsHold, HandlerInv, ControlTypes
    <2>4. rolePerms' = (rolePerms \ ({op[i].role} \X Surplus(i)))
                          \cup ({op[i].role} \X Missing(i))
      BY <2>2 DEF SetPermsCommit, Rollback, journal
    <2> QED
      BY <2>2, <2>3, <2>4 DEF PermsOf, Missing, Surplus, Ids, AsStored
  <1>2. HandlerInv /\ ReadsFresh /\ [HNext]_allVars => [Exact]_allVars
    BY <1>1
  <1> QED
    BY <1>2, ReadsAlways, PTL DEF HSpec, ReplaceIsExact

\* In a database that works, a transaction fails only when a commit overtook it or
\* when it grants a role again by another spelling of its id.
THEOREM ErrorsExplained ==
  ASSUME "db" \notin Faults PROVE HSpec => NoSelfInflictedError
  <1> DEFINE Innocent == \A i \in Request :
                pc[i] \in {"recheck", "commit"} /\ reply'[i] = "error"
                    => i \in overlapped \/ RespellsHeld(i)
  <1>1. HandlerInv /\ ReadsFresh /\ [HNext]_allVars => Innocent
    <2> SUFFICES ASSUME HandlerInv, ReadsFresh, [HNext]_allVars, NEW i \in Request,
                        pc[i] \in {"recheck", "commit"}, reply'[i] = "error",
                        i \notin overlapped, ~RespellsHeld(i)
                 PROVE  FALSE
      OBVIOUS
    <2>1. ControlTypes /\ AtStage(i) /\ ReadsHold(i) /\ [Next]_vars
      BY TypeGroups, HStepIsStep DEF HandlerInv, ReadsFresh
    <2>2. reply[i] = "none"
      BY <2>1 DEF AtStage
    <2>3. EndTx(i) \/ UserReread(i)
      <3>1. ASSUME NEW k \in Request, k # i, Arrive(k) \/ Continue(k) \/ DbError(k) \/ AckLost(k)
            PROVE  FALSE
        BY <2>1, <2>2, <3>1, Frame DEF Undisturbed
      <3>2. CASE Arrive(i)
        BY <3>2, ArriveShape DEF Shape
      <3>3. CASE Environment \/ UNCHANGED vars
        BY <2>1, <2>2, <3>3 DEF Environment, Crash, SoftDeleteUser, Tick, vars, control,
           ControlTypes
      <3>4. CASE Continue(i) \/ DbError(i) \/ AckLost(i)
        BY <3>4 DEF Continue, Query, Store, Capture, AssignRead, SetPermsRead, Invalidate,
           Reread, DbError, AckLost
      <3> QED
        BY <2>1, <3>1, <3>2, <3>3, <3>4 DEF Next
    \* What a grant is going to insert is not there.
    <2>4. ~Clashes(i)
      <3> SUFFICES ASSUME op[i].kind = "assign", NEW r \in Missing(i),
                          <<op[i].user, r>> \in userRoles
                   PROVE  FALSE
        BY DEF Clashes
      <3>1. r \in Ids(op[i].ids) /\ r \in rows[i]
        BY <2>1 DEF Missing, ReadsHold, Attached
      <3>2. r \notin AsStored(op[i].ids)
        BY <3>1 DEF Missing
      <3> QED
        BY <3>1, <3>2 DEF RespellsHeld
    <2> USE <2>1, <2>2 DEF ReadsHold, Goto, Answer, Rollback, ControlTypes
    <2>5. CASE UserReread(i)
      BY <2>4, <2>5 DEF UserReread
    <2>6. CASE AssignCommit(i) \/ RevokeCommit(i)
      BY <2>4, <2>6 DEF AssignCommit, RevokeCommit
    <2>7. ASSUME NEW r \in Role, CreateCommit(i, r) PROVE FALSE
      BY <2>7 DEF CreateCommit, NameTaken
    <2>8. CASE UpdateCommit(i)
      BY <2>8 DEF UpdateCommit
    <2>9. CASE RemoveCommit(i)
      BY <2>9 DEF RemoveCommit
    <2>10. CASE SetPermsCommit(i)
      <3>1. Ids(op[i].ids) \subseteq Perm /\ rows[i] = PermsOf(op[i].role)
        BY <2>10, OpFields DEF SetPermsCommit
      <3>2. ({op[i].role} \X Missing(i)) \cap (rolePerms \ ({op[i].role} \X Surplus(i))) = {}
        BY <3>1 DEF Missing, Surplus, PermsOf
      <3> QED
        BY <2>10, <3>2 DEF SetPermsCommit
    <2> QED
      BY <2>3, <2>5, <2>6, <2>7, <2>8, <2>9, <2>10 DEF EndTx
  <1>2. HandlerInv /\ ReadsFresh /\ [HNext]_allVars => [Innocent]_allVars
    BY <1>1
  <1> QED
    BY <1>2, ReadsAlways, PTL DEF HSpec, NoSelfInflictedError

\* An assignment of a deleted role can only come from a grant that another
\* commit overtook.
THEOREM StraysExplained == HSpec => StrayOnlyIfOvertaken
  <1> DEFINE Explained == \A a \in Stray' \ Stray :
                \E i \in overlapped :
                    /\ op[i].kind = "assign" /\ op[i].user = a[1]
                    /\ i \in committed' \ committed
  <1>1. HandlerInv /\ ReadsFresh /\ [HNext]_allVars => Explained
    <2> SUFFICES ASSUME HandlerInv, ReadsFresh, [HNext]_allVars,
                        NEW a \in Stray', a \notin Stray
                 PROVE  \E i \in overlapped :
                           /\ op[i].kind = "assign" /\ op[i].user = a[1]
                           /\ i \in committed' \ committed
      OBVIOUS
    <2>1. TableTypes /\ ControlTypes
      BY TypeGroups DEF HandlerInv
    <2>2. PICK i \in Request : EndTx(i)
      BY RoleTableSteps, HStepIsStep DEF Stray
    <2>3. AtStage(i) /\ (i \notin overlapped => ReadsHold(i))
      BY DEF HandlerInv, ReadsFresh
    <2>4. ~(userRoles' \subseteq userRoles /\ UNCHANGED roles)
      BY DEF Stray
    <2>5. CASE AssignCommit(i)
      <3>1. /\ UNCHANGED roles
            /\ userRoles' = userRoles \cup ({op[i].user} \X Missing(i))
            /\ op[i].kind = "assign" /\ pc[i] = "commit"
            /\ i \in committed' \ committed
        BY <2>3, <2>4, <2>5 DEF AssignCommit, Rollback, tables, Commit, AtStage
      <3>2. a \in {op[i].user} \X Ids(op[i].ids) /\ ~LiveRole(a[2])
        BY <3>1 DEF Stray, Missing, LiveRole
      <3>3. i \in overlapped
        BY <2>3, <3>1, <3>2 DEF ReadsHold
      <3> QED
        BY <3>1, <3>2, <3>3
    <2>6. CASE RevokeCommit(i) \/ SetPermsCommit(i)
      BY <2>4, <2>6 DEF RevokeCommit, SetPermsCommit, Rollback, tables
    <2>7. ASSUME NEW r \in Role, CreateCommit(i, r) PROVE FALSE
      BY <2>4, <2>7 DEF CreateCommit, Rollback, tables, Stray
    <2>8. CASE UpdateCommit(i)
      <3>1. \A row \in RoleRow : Patched(row, op[i]).deleted = row.deleted
        BY DEF Patched, RoleRow
      <3> QED
        BY <2>1, <2>4, <2>8, <3>1 DEF UpdateCommit, Rollback, tables, Stray, TableTypes
    <2>9. CASE RemoveCommit(i)
      BY <2>1, <2>9 DEF RemoveCommit, Stray, TableTypes
    <2> QED
      BY <2>2, <2>5, <2>6, <2>7, <2>8, <2>9 DEF EndTx
  <1>2. HandlerInv /\ ReadsFresh /\ [HNext]_allVars => [Explained]_allVars
    BY <1>1
  <1> QED
    BY <1>2, ReadsAlways, PTL DEF HSpec, StrayOnlyIfOvertaken
=============================================================================
