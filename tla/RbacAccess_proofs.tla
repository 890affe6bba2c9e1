-------------------------- MODULE RbacAccess_proofs --------------------------
(***************************************************************************)
(* The proof that Rbac and the operator's program implement Access, for any*)
(* users, roles, permissions and requests, every combination of endpoints  *)
(* and faults, every TTL and every bound on the wait of an answer.         *)
(***************************************************************************)
EXTENDS RbacAccess, Rbac_proofs

\* View s of user u's permissions differs from the tables only where they
\* changed n ticks ago or later.
Follows(s, u, n) ==
    \A p \in Perm : changed[u][p] <= n \/ (p \in s <=> p \in Held[u])

\* The same after a step, of a view that is itself fixed.
FollowsNext(s, u, n) ==
    \A p \in Perm : changed'[u][p] <= n \/ (p \in s <=> p \in Held'[u])

ClockTypes ==
    /\ changed \in [User -> [Perm -> Nat]]
    /\ waited \in [Request -> 0..Lag]

\* Only a request that was answered has been given permissions.
OnceEach ==
    /\ DOMAIN granted \subseteq Request
    /\ \A i \in DOMAIN granted : pc[i] = "done"

NotWaiting == \A i \in Request : pc[i] \in {"idle", "query"} => waited[i] = 0

RowsFollow ==
    \A i \in Request : pc[i] = "store" => Follows(rows[i], op[i].user, waited[i])

\* An entry with left ticks to live is TTL - left ticks older than what was stored.
CacheFollows ==
    \A u \in DOMAIN cache :
        /\ cache[u].left <= TTL
        /\ cache[u].left > 0 => Follows(cache[u].keys, u, Window - cache[u].left)

\* The inductive invariant.
AccessInv ==
    /\ HandlerInv
    /\ script \in Script
    /\ ClockTypes
    /\ OnceEach
    /\ NotWaiting
    /\ RowsFollow
    /\ CacheFollows

-----------------------------------------------------------------------------
(* How views age.                                                          *)

LEMMA Windows == TTL \in Nat /\ TTL > 0 /\ Lag \in Nat /\ Window \in Nat /\ Window > 0
  BY ConstantsAssumption, AccessAssumption DEF Window

LEMMA FollowsNote ==
  ASSUME ClockTypes, NoteChanges, NEW s, NEW u \in User, NEW n \in Nat, Follows(s, u, n)
  PROVE  FollowsNext(s, u, n)
  <1>1. \A p \in Perm : changed'[u][p] = IF p \in Held'[u] <=> p \in Held[u]
                                         THEN changed[u][p] ELSE 0
    BY DEF NoteChanges
  <1> QED
    BY <1>1 DEF Follows, FollowsNext

LEMMA HeldStable == UNCHANGED <<roles, userRoles, rolePerms>> => Held' = Held
  BY DEF Held, Effective, ActiveRole, LiveRole

LEMMA FollowsTick ==
  ASSUME ClockTypes, TTick, NEW s, NEW u \in User, NEW n \in Nat, Follows(s, u, n)
  PROVE  FollowsNext(s, u, n + 1)
  <1>1. Held' = Held
    BY HeldStable DEF TTick, Tick, tables
  <1>2. ASSUME NEW p \in Perm
        PROVE  changed'[u][p] <= n + 1 \/ (p \in s <=> p \in Held'[u])
    <2>1. changed'[u][p] = Older(changed[u][p]) /\ changed[u][p] \in Nat
      BY DEF TTick, ClockTypes
    <2>2. changed'[u][p] <= changed[u][p] + 1 /\ changed'[u][p] \in Nat
      BY <2>1 DEF Older
    <2>3. changed[u][p] <= n \/ (p \in s <=> p \in Held[u])
      BY DEF Follows
    <2> QED
      BY <1>1, <2>1, <2>2, <2>3
  <1> QED
    BY <1>2 DEF FollowsNext

\* A view that follows the tables closely enough is one that Access allows.
LEMMA FollowsView ==
  ASSUME ClockTypes, NEW s \in SUBSET Perm, NEW u \in User, NEW n \in Nat, n < Window,
         Follows(s, u, n)
  PROVE  s \in A!Views(u)
  <1>1. ASSUME NEW p \in Perm PROVE A!Recent(u, p) \/ (p \in s <=> p \in Held[u])
    <2>1. changed[u][p] \in Nat
      BY DEF ClockTypes
    <2>2. changed[u][p] <= n \/ (p \in s <=> p \in Held[u])
      BY DEF Follows
    <2> QED
      BY <2>1, <2>2, Windows DEF A!Recent
  <1> QED
    BY <1>1 DEF A!Views

LEMMA HeldType == Held \in [User -> SUBSET Perm] /\ Held' \in [User -> SUBSET Perm]
  <1>1. \A u : Effective(u) \subseteq Perm
    BY EffectiveType
  <1>2. \A u : Effective(u)' \subseteq Perm
    BY ConstantsAssumption DEF Effective
  <1> QED
    BY <1>1, <1>2 DEF Held

\* Where no table changes, no clock of a change starts again.
LEMMA NothingChanged ==
  ASSUME ClockTypes, NoteChanges, UNCHANGED tables
  PROVE  UNCHANGED <<Held, changed>>
  <1>1. Held' = Held
    BY HeldStable DEF tables
  <1> QED
    BY <1>1 DEF NoteChanges, ClockTypes

-----------------------------------------------------------------------------
(* AccessInv is inductive.                                                 *)

\* The operator's program adds an assignment, or nothing.
LEMMA ScriptWrites ==
  ASSUME script \in Script, ScriptStep
  PROVE  /\ UNCHANGED <<users, roles, rolePerms, journal, store, control>>
         /\ \E new \in SUBSET (User \X Role) : userRoles' = userRoles \cup new
  <1>1. CASE ScriptCreate
    <2>1. Grant \subseteq User \X Role
      BY DEF Grant, Script
    <2> QED
      BY <1>1, <2>1 DEF ScriptCreate
  <1>2. CASE UNCHANGED vars
    <2>1. userRoles' = userRoles \cup {}
      BY <1>2 DEF vars, tables
    <2> QED
      BY <1>2, <2>1 DEF vars, tables
  <1> QED
    BY <1>1, <1>2 DEF ScriptStep, ScriptStart, ScriptFindRole, ScriptCheck, ScriptFails

LEMMA ScriptType ==
  ASSUME TypeOK, script \in Script, ScriptStep \/ UNCHANGED script
  PROVE  script' \in Script
  <1>1. Off \in Script
    BY DEF Off, Script, ScriptStage
  <1>2. CASE ScriptStart
    <2>1. PICK u \in users : script' = [at |-> "role", user |-> {u}, role |-> {}]
      BY <1>2 DEF ScriptStart
    <2> QED
      BY <2>1 DEF TypeOK, Script, ScriptStage
  <1>3. CASE ScriptFindRole
    <2>1. PICK r \in Bearers(SuperAdmin) :
             script' = [script EXCEPT !.at = "check", !.role = {r}]
      BY <1>3 DEF ScriptFindRole
    <2>2. r \in Role
      BY DEF Bearers, TypeOK
    <2> QED
      BY <2>1, <2>2 DEF Script, ScriptStage
  <1>4. CASE ScriptCheck
    BY <1>1, <1>4 DEF ScriptCheck, Exits, Script, ScriptStage
  <1>5. CASE ScriptCreate \/ ScriptFails
    BY <1>1, <1>5 DEF ScriptCreate, ScriptFails, Exits
  <1> QED
    BY <1>2, <1>3, <1>4, <1>5 DEF ScriptStep

LEMMA HandlerScript ==
  ASSUME HandlerInv, script \in Script, ScriptStep
  PROVE  HandlerInv'
  <1>1. UNCHANGED <<users, roles, rolePerms, journal, store, control>>
    BY ScriptWrites
  <1>2. PICK new \in SUBSET (User \X Role) : userRoles' = userRoles \cup new
    BY ScriptWrites
  <1>3. TypeOK /\ TypeOK'
    <2>1. TypeOK
      BY DEF HandlerInv
    <2>2. TableTypes'
      BY <1>1, <1>2, <2>1 DEF TypeOK, TableTypes
    <2> QED
      BY <1>1, <2>1, <2>2, TypeGroups, UnchangedTypes
  <1>4. \A j \in Request : Undisturbed(j)
    BY <1>1 DEF Undisturbed, control, journal
  <1> QED
    BY <1>3, <1>4, UndisturbedKeeps DEF HandlerInv

\* Every step of Rbac but Tick.
Untimed ==
    \/ \E i \in Request : Arrive(i) \/ Continue(i) \/ DbError(i) \/ AckLost(i)
    \/ Crash
    \/ \E u \in User : SoftDeleteUser(u)

RequestStep ==
    /\ Untimed
    /\ UNCHANGED script
    /\ NoteChanges
    /\ \/ UNCHANGED waited
       \/ \E i \in Request : Store(i) /\ waited' = [waited EXCEPT ![i] = 0]

\* The steps of RbacAccess, sorted by what they do to Rbac's state.
LEMMA TStepShape ==
  ASSUME TNext
  PROVE  \/ RequestStep
         \/ ScriptStep /\ NoteChanges /\ UNCHANGED <<waited, granted>>
         \/ TTick
  BY DEF TNext, TLookup, TQuery, TStore, TOther, TElse, TScript, Next, Arrive, Continue,
     Untimed, RequestStep

LEMMA UntimedNext == Untimed => Next
  BY DEF Untimed, Next, Environment

LEMMA HandlerTStep ==
  ASSUME AccessInv, [TNext]_accessVars
  PROVE  HandlerInv' /\ script' \in Script
  <1>0. HandlerInv /\ TypeOK /\ script \in Script
    BY DEF AccessInv, HandlerInv
  <1>1. CASE RequestStep
    BY <1>0, <1>1, UntimedNext, HandlerStep, ScriptType DEF RequestStep
  <1>2. CASE ScriptStep
    BY <1>0, <1>2, HandlerScript, ScriptType
  <1>3. CASE TTick \/ UNCHANGED accessVars
    <2>1. [Next]_vars /\ UNCHANGED script
      BY <1>3 DEF TTick, Next, Environment, accessVars, opVars
    <2> QED
      BY <1>0, <2>1, HandlerStep
  <1> QED
    BY <1>1, <1>2, <1>3, TStepShape

LEMMA ClockStep ==
  ASSUME AccessInv, [TNext]_accessVars
  PROVE  ClockTypes'
  <1> USE DEF ClockTypes
  <1>0. ClockTypes /\ Lag \in Nat
    BY AccessAssumption DEF AccessInv
  <1>1. changed' \in [User -> [Perm -> Nat]]
    <2>1. CASE NoteChanges
      BY <1>0, <2>1 DEF NoteChanges
    <2>2. CASE TTick
      <3>1. \A n \in Nat : Older(n) \in Nat
        BY DEF Older
      <3> QED
        BY <1>0, <2>2, <3>1 DEF TTick
    <2> QED
      BY <1>0, <2>1, <2>2, TStepShape DEF accessVars, RequestStep
  <1>2. waited' \in [Request -> 0..Lag]
    BY <1>0 DEF TNext, TLookup, TQuery, TStore, TOther, TElse, TScript, TTick, accessVars
  <1> QED
    BY <1>1, <1>2

\* An answered request stays answered.
LEMMA DoneStays ==
  ASSUME HandlerInv, [Next]_vars, NEW j \in Request, pc[j] = "done"
  PROVE  pc'[j] = "done"
  <1>1. ControlTypes
    BY TypeGroups DEF HandlerInv
  <1>2. ASSUME NEW i \in Request, Arrive(i) \/ Continue(i) \/ DbError(i) \/ AckLost(i)
        PROVE  pc'[j] = "done"
    <2>1. pc[i] # "done"
      <3>1. CASE Arrive(i)
        BY <3>1, ArriveShape DEF Shape
      <3>2. CASE EndTx(i)
        BY <3>2, EndTxOutcome DEF Outcome
      <3>3. CASE ~Arrive(i) /\ ~EndTx(i)
        BY <1>2, <3>3 DEF Continue, Query, Store, Capture, AssignRead, SetPermsRead,
           UserReread, Invalidate, Reread, DbError, DbStage, AckLost
      <3> QED
        BY <3>1, <3>2, <3>3
    <2> QED
      BY <1>1, <1>2, <2>1, Frame DEF Undisturbed
  <1>3. CASE Environment \/ UNCHANGED vars
    BY <1>1, <1>3 DEF Environment, Crash, SoftDeleteUser, Tick, vars, control, ControlTypes
  <1> QED
    BY <1>2, <1>3 DEF Next

\* What a step without time does to the cache: entries go, or a load stores one.
LEMMA CacheShrinks ==
  ASSUME HandlerInv, Untimed, NEW u \in DOMAIN cache'
  PROVE  \/ u \in DOMAIN cache /\ cache'[u] = cache[u]
         \/ \E i \in Request : /\ Store(i)
                               /\ u = op[i].user
                               /\ cache'[u] = [keys |-> rows[i], left |-> TTL]
  <1>1. CASE UNCHANGED store
    BY <1>1 DEF store
  <1>2. ASSUME NEW i \in Request, NEW v \in User, Lookup(i, v)
        PROVE  u \in DOMAIN cache /\ cache'[u] = cache[u]
    BY <1>2 DEF Lookup, Sweep, Without
  <1>3. ASSUME NEW i \in Request, Store(i)
        PROVE  \/ u \in DOMAIN cache /\ cache'[u] = cache[u]
               \/ u = op[i].user /\ cache'[u] = [keys |-> rows[i], left |-> TTL]
    BY <1>3 DEF Store
  <1>4. ASSUME NEW i \in Request, Invalidate(i)
        PROVE  u \in DOMAIN cache /\ cache'[u] = cache[u]
    BY <1>4 DEF Invalidate, Without
  <1>5. CASE Crash
    BY <1>5, TypeGroups DEF Crash, Without, HandlerInv, StoreTypes
  <1>6. ASSUME NEW i \in Request, Arrive(i) \/ Continue(i) \/ DbError(i) \/ AckLost(i)
        PROVE  \/ UNCHANGED store
               \/ (\E v \in User : Lookup(i, v)) \/ Store(i) \/ Invalidate(i)
    BY <1>6, RequestCacheSteps
  <1> QED
    BY <1>1, <1>2, <1>3, <1>4, <1>5, <1>6 DEF Untimed, SoftDeleteUser

LEMMA FollowsLonger ==
  ASSUME ClockTypes, NEW s, NEW u \in User, NEW n \in Int, NEW m \in Int, n <= m,
         Follows(s, u, n)
  PROVE  Follows(s, u, m)
  <1>1. ASSUME NEW p \in Perm PROVE changed[u][p] <= m \/ (p \in s <=> p \in Held[u])
    <2>1. changed[u][p] \in Nat
      BY DEF ClockTypes
    <2> QED
      BY <2>1 DEF Follows
  <1> QED
    BY <1>1 DEF Follows

\* A load that waits to store was asked for by a user.
LEMMA LoadUser ==
  ASSUME HandlerInv, NEW i \in Request, pc[i] \in {"query", "store"}
  PROVE  op[i].user \in User
  <1>1. op[i] \in Op /\ op[i].kind = "load"
    BY TypeGroups DEF HandlerInv, AtStage, ControlTypes
  <1> QED
    BY <1>1, OpFields

LEMMA CacheEntries ==
  ASSUME TypeOK, NEW u \in DOMAIN cache
  PROVE  u \in User /\ cache[u] \in Entry /\ cache[u].left \in Int
  BY DEF TypeOK, Entry

LEMMA CacheFollowsStep ==
  ASSUME AccessInv, [TNext]_accessVars
  PROVE  CacheFollows'
  <1> SUFFICES ASSUME NEW u \in DOMAIN cache'
               PROVE  /\ cache'[u].left <= TTL
                      /\ cache'[u].left > 0
                            => FollowsNext(cache'[u].keys, u, Window - cache'[u].left)
    BY DEF CacheFollows, Follows, FollowsNext
  <1> DEFINE Fine(e) == e.left <= TTL /\ (e.left > 0 => Follows(e.keys, u, Window - e.left))
  <1>0. HandlerInv /\ TypeOK /\ ClockTypes
    BY DEF AccessInv, HandlerInv
  <1>1. TypeOK' /\ u \in User /\ cache'[u].left \in Int
    BY HandlerTStep DEF HandlerInv, TypeOK, Entry
  <1>2. ASSUME NEW e \in Entry, cache'[u] = e, Fine(e), NoteChanges \/ UNCHANGED accessVars
        PROVE  cache'[u].left <= TTL
                  /\ (cache'[u].left > 0
                        => FollowsNext(cache'[u].keys, u, Window - cache'[u].left))
    <2>1. SUFFICES ASSUME e.left > 0 PROVE FollowsNext(e.keys, u, Window - e.left)
      BY <1>2
    <2>2. Follows(e.keys, u, Window - e.left) /\ Window - e.left \in Nat
      BY <1>2, <2>1, Windows DEF Entry, Window
    <2>3. CASE NoteChanges
      BY <1>0, <1>1, <2>2, <2>3, FollowsNote
    <2>4. CASE UNCHANGED accessVars
      BY <2>2, <2>4, HeldStable DEF accessVars, opVars, vars, tables, Follows, FollowsNext
    <2> QED
      BY <1>2, <2>3, <2>4
  <1>3. ASSUME u \in DOMAIN cache PROVE Fine(cache[u]) /\ cache[u] \in Entry
    BY <1>0, <1>3, CacheEntries DEF AccessInv, CacheFollows
  <1>4. CASE RequestStep
    <2>1. CASE u \in DOMAIN cache /\ cache'[u] = cache[u]
      <3> HIDE DEF Fine
      <3> QED
        BY <1>2, <1>3, <1>4, <2>1 DEF RequestStep
    <2>2. ASSUME NEW i \in Request, Store(i), u = op[i].user,
                 cache'[u] = [keys |-> rows[i], left |-> TTL]
          PROVE  Fine(cache'[u]) /\ cache'[u] \in Entry
      <3>1. pc[i] = "store" /\ rows[i] \subseteq Perm
        BY <1>0, <2>2 DEF Store, HandlerInv, AtStage
      <3>2. Follows(rows[i], u, waited[i]) /\ waited[i] \in 0..Lag
        BY <1>0, <2>2, <3>1 DEF AccessInv, RowsFollow, ClockTypes
      <3>3. Follows(rows[i], u, Window - TTL)
        BY <1>0, <1>1, <3>2, FollowsLonger, Windows DEF Window
      <3> QED
        BY <2>2, <3>1, <3>3, Windows DEF Entry
    <2> HIDE DEF Fine
    <2> QED
      BY <1>0, <1>2, <1>4, <2>1, <2>2, CacheShrinks DEF RequestStep
  <1>5. CASE ScriptStep /\ NoteChanges
    <2>1. UNCHANGED store
      BY <1>5, ScriptWrites DEF AccessInv
    <2> HIDE DEF Fine
    <2> QED
      BY <1>2, <1>3, <1>5, <2>1 DEF store
  <1>6. CASE TTick
    <2>1. u \in DOMAIN cache /\ cache'[u] = Aged(cache[u])
      BY <1>6 DEF TTick, Tick
    <2>2. cache[u].left \in Int /\ cache'[u].left <= cache[u].left
            /\ (cache'[u].left > 0 => cache'[u].left = cache[u].left - 1)
            /\ cache'[u].keys = cache[u].keys
      BY <1>3, <2>1, ConstantsAssumption DEF Aged, Entry
    <2>3. ASSUME cache'[u].left > 0
          PROVE  FollowsNext(cache'[u].keys, u, Window - cache'[u].left)
      <3>1. cache[u].left > 0 /\ cache[u].left <= TTL
        BY <1>3, <2>1, <2>2, <2>3
      <3>2. Window - cache[u].left \in Nat
        BY <2>2, <3>1, Windows DEF Window
      <3>3. FollowsNext(cache[u].keys, u, Window - cache[u].left + 1)
        BY <1>0, <1>1, <1>3, <1>6, <2>1, <3>1, <3>2, FollowsTick
      <3>4. Window - cache[u].left + 1 = Window - cache'[u].left
        BY <2>2, <2>3, Windows
      <3> QED
        BY <2>2, <3>3, <3>4
    <2> QED
      BY <1>1, <1>3, <2>1, <2>2, <2>3, Windows
  <1>7. CASE UNCHANGED accessVars
    <2>1. UNCHANGED store
      BY <1>7 DEF accessVars, opVars, vars
    <2> HIDE DEF Fine
    <2> QED
      BY <1>2, <1>3, <1>7, <2>1 DEF store
  <1> QED
    BY <1>4, <1>5, <1>6, <1>7, TStepShape

\* A request is idle or queries only from the outset.
LEMMA Outset ==
  ASSUME HandlerInv, [Next]_vars, NEW j \in Request, pc'[j] \in {"idle", "query"}
  PROVE  pc[j] \in {"idle", "query"}
  <1>1. ControlTypes
    BY TypeGroups DEF HandlerInv
  <1>2. CASE Arrive(j)
    BY <1>2, ArriveShape DEF Shape
  <1>3. CASE Continue(j) \/ DbError(j) \/ AckLost(j)
    <2>1. CASE EndTx(j)
      BY <1>1, <2>1, EndTxOutcome DEF Outcome, ControlTypes
    <2>2. CASE ~EndTx(j)
      BY <1>1, <1>3, <2>2 DEF Continue, Query, Store, Capture, AssignRead, SetPermsRead,
         UserReread, Rollback, Invalidate, Reread, DbError, AckLost, Goto, Answer, ControlTypes
    <2> QED
      BY <2>1, <2>2
  <1>4. ASSUME NEW i \in Request, i # j, Arrive(i) \/ Continue(i) \/ DbError(i) \/ AckLost(i)
        PROVE  Undisturbed(j)
    BY <1>1, <1>4, Frame
  <1>5. CASE Environment \/ UNCHANGED vars
    BY <1>1, <1>5 DEF Environment, Crash, SoftDeleteUser, Tick, vars, control, ControlTypes
  <1> QED
    BY <1>2, <1>3, <1>4, <1>5 DEF Next, Undisturbed

\* The clock of a load that goes on waiting is not reset.
LEMMA WaitedKept ==
  ASSUME AccessInv, RequestStep, NEW j \in Request, pc'[j] # "done"
  PROVE  waited'[j] = waited[j]
  <1>1. ClockTypes /\ ControlTypes
    BY TypeGroups DEF AccessInv, HandlerInv
  <1>2. ASSUME NEW i \in Request, Store(i), waited' = [waited EXCEPT ![i] = 0]
        PROVE  waited'[j] = waited[j]
    BY <1>1, <1>2 DEF Store, Answer, ControlTypes, ClockTypes
  <1> QED
    BY <1>2 DEF RequestStep

\* A load that waits to store was there before, or has just read the tables.
LEMMA RowsFollowStep ==
  ASSUME AccessInv, [TNext]_accessVars
  PROVE  RowsFollow'
  <1> SUFFICES ASSUME NEW j \in Request, pc'[j] = "store"
               PROVE  FollowsNext(rows'[j], op'[j].user, waited'[j])
    BY DEF RowsFollow, Follows, FollowsNext
  <1>0. HandlerInv /\ ClockTypes /\ ControlTypes
    BY TypeGroups DEF AccessInv, HandlerInv
  <1>1. ASSUME pc[j] = "store"
        PROVE  /\ Follows(rows[j], op[j].user, waited[j])
               /\ waited[j] \in Nat
               /\ op[j].user \in User
    BY <1>0, <1>1, LoadUser DEF AccessInv, RowsFollow, ClockTypes
  <1>2. ASSUME pc[j] = "store", Undisturbed(j), NoteChanges, waited'[j] = waited[j]
        PROVE  FollowsNext(rows'[j], op'[j].user, waited'[j])
    <2>1. FollowsNext(rows[j], op[j].user, waited[j])
      BY <1>0, <1>1, <1>2, FollowsNote
    <2> QED
      BY <1>2, <2>1 DEF Undisturbed
  <1>3. CASE RequestStep
    <2>1. CASE Query(j)
      <3>1. rows'[j] = Effective(op[j].user) /\ op' = op /\ UNCHANGED tables
        BY <1>0, <2>1 DEF Query, ControlTypes
      <3>2. Held' = Held /\ Held[op[j].user] = Effective(op[j].user)
        BY <1>0, <2>1, <3>1, HeldStable, LoadUser DEF Held, Query, tables
      <3> QED
        BY <3>1, <3>2 DEF FollowsNext
    <2>2. CASE ~Query(j)
      BY <1>0, <1>2, <1>3, <2>2, StoreEntered, UntimedNext, WaitedKept DEF RequestStep
    <2> QED
      BY <2>1, <2>2
  <1>4. CASE ScriptStep /\ NoteChanges /\ UNCHANGED <<waited, granted>>
    <2>1. pc[j] = "store" /\ Undisturbed(j)
      BY <1>4, ScriptWrites DEF AccessInv, Undisturbed, control, journal
    <2> QED
      BY <1>2, <1>4, <2>1
  <1>5. CASE TTick
    <2>1. pc[j] = "store" /\ UNCHANGED <<rows, op>> /\ waited'[j] = waited[j] + 1
      BY <1>0, <1>5 DEF TTick, Tick, control, ClockTypes
    <2> QED
      BY <1>0, <1>1, <1>5, <2>1, FollowsTick
  <1>6. CASE UNCHANGED accessVars
    <2>1. /\ pc[j] = "store"
          /\ UNCHANGED <<roles, userRoles, rolePerms, rows, op, waited, changed>>
      BY <1>6 DEF accessVars, opVars, vars, tables, control
    <2> QED
      BY <1>1, <2>1, HeldStable DEF Follows, FollowsNext
  <1> QED
    BY <1>3, <1>4, <1>5, <1>6, TStepShape

LEMMA NotWaitingStep ==
  ASSUME AccessInv, [TNext]_accessVars
  PROVE  NotWaiting'
  <1> SUFFICES ASSUME NEW j \in Request, pc'[j] \in {"idle", "query"}
               PROVE  waited'[j] = 0
    BY DEF NotWaiting
  <1>0. HandlerInv /\ ClockTypes /\ ControlTypes /\ NotWaiting
    BY TypeGroups DEF AccessInv, HandlerInv
  <1>1. CASE RequestStep
    <2>1. pc[j] \in {"idle", "query"}
      BY <1>0, <1>1, UntimedNext, Outset DEF RequestStep
    <2> QED
      BY <1>0, <1>1, <2>1, WaitedKept DEF NotWaiting
  <1>2. CASE ScriptStep /\ NoteChanges /\ UNCHANGED <<waited, granted>>
    BY <1>0, <1>2, ScriptWrites DEF AccessInv, NotWaiting, control
  <1>3. CASE TTick
    BY <1>0, <1>3 DEF TTick, Tick, control, NotWaiting, ClockTypes
  <1>4. CASE UNCHANGED accessVars
    BY <1>0, <1>4 DEF accessVars, opVars, vars, control, NotWaiting
  <1> QED
    BY <1>1, <1>2, <1>3, <1>4, TStepShape

\* Who is given permissions, and what the clocks of changes do meanwhile.
Gives(i, u, s) ==
    /\ pc[i] \in {"idle", "store"}
    /\ pc'[i] = "done"
    /\ s \in A!Views(u)
    /\ granted' = A!Given(i, s)
    /\ UNCHANGED tables
    /\ NoteChanges

\* A load is answered from the cache or from its own query, with a view of its
\* user's permissions that Access allows.
LEMMA Decisions ==
  ASSUME AccessInv, TNext, granted' # granted
  PROVE  \E i \in Request, u \in User, s \in SUBSET Perm : Gives(i, u, s)
  <1>0. HandlerInv /\ ClockTypes /\ ControlTypes /\ StoreTypes
    BY TypeGroups DEF AccessInv, HandlerInv
  <1>1. ASSUME NEW i \in Request, NEW u \in User, TLookup(i, u), NoteChanges
        PROVE  Gives(i, u, Sweep[u].keys) /\ Sweep[u].keys \in SUBSET Perm
    <2>1. Hit(u) /\ granted' = A!Given(i, Sweep[u].keys)
      BY <1>1 DEF TLookup
    <2>2. u \in DOMAIN cache /\ Sweep[u] = cache[u] /\ cache[u].left > 0
      BY <2>1 DEF Hit, Sweep
    <2>3. cache[u] \in Entry
      BY <1>0, <2>2 DEF StoreTypes
    <2>4. /\ Follows(cache[u].keys, u, Window - cache[u].left)
          /\ cache[u].left <= TTL
          /\ cache[u].left \in Int
          /\ cache[u].keys \in SUBSET Perm
      BY <2>2, <2>3 DEF AccessInv, CacheFollows, Entry
    <2>5. Window - cache[u].left \in Nat /\ Window - cache[u].left < Window
      BY <2>2, <2>4, Windows DEF Window
    <2>6. cache[u].keys \in A!Views(u)
      BY <1>0, <2>4, <2>5, FollowsView
    <2>7. pc[i] = "idle" /\ pc'[i] = "done" /\ UNCHANGED tables
      BY <1>0, <1>1, <2>1 DEF TLookup, Lookup, Refuse, Answer, ControlTypes
    <2> QED
      BY <1>1, <2>1, <2>2, <2>4, <2>6, <2>7 DEF Gives
  <1>2. ASSUME NEW i \in Request, TStore(i), NoteChanges
        PROVE  op[i].user \in User /\ rows[i] \in SUBSET Perm /\ Gives(i, op[i].user, rows[i])
    <2>1. pc[i] = "store" /\ pc'[i] = "done" /\ UNCHANGED tables
      BY <1>0, <1>2 DEF TStore, Store, Answer, ControlTypes
    <2>2. op[i].user \in User /\ rows[i] \in SUBSET Perm
      BY <1>0, <2>1, LoadUser DEF HandlerInv, AtStage
    <2>3. Follows(rows[i], op[i].user, waited[i]) /\ waited[i] \in Nat /\ waited[i] < Window
      BY <1>0, <2>1, Windows DEF AccessInv, RowsFollow, ClockTypes, Window
    <2>4. rows[i] \in A!Views(op[i].user)
      BY <1>0, <2>2, <2>3, FollowsView
    <2> QED
      BY <1>2, <2>1, <2>2, <2>4 DEF Gives, TStore
  <1> QED
    BY <1>1, <1>2 DEF TNext, TLookup, TQuery, TOther, TElse, TScript, TTick

LEMMA OnceEachStep ==
  ASSUME AccessInv, [TNext]_accessVars
  PROVE  OnceEach'
  <1>0. HandlerInv /\ OnceEach
    BY DEF AccessInv
  <1>1. \A j \in Request : pc[j] = "done" => pc'[j] = "done"
    <2>1. CASE RequestStep
      BY <1>0, <2>1, UntimedNext, DoneStays DEF RequestStep
    <2>2. CASE ~RequestStep
      BY <2>2, TStepShape, ScriptWrites
         DEF AccessInv, TTick, Tick, control, accessVars, opVars, vars
    <2> QED
      BY <2>1, <2>2
  <1>2. CASE granted' = granted
    BY <1>0, <1>1, <1>2 DEF OnceEach
  <1>3. CASE granted' # granted
    <2>1. PICK i \in Request, u \in User, s \in SUBSET Perm : Gives(i, u, s)
      BY <1>3, Decisions DEF accessVars
    <2> QED
      BY <1>0, <1>1, <2>1 DEF Gives, A!Given, OnceEach
  <1> QED
    BY <1>2, <1>3

LEMMA AccessInvInit == TInit => AccessInv
  <1> SUFFICES ASSUME TInit PROVE AccessInv
    OBVIOUS
  <1>1. HandlerInv
    BY HandlerInit DEF TInit, OpInit
  <1>2. script \in Script
    BY DEF TInit, OpInit, Off, Script, ScriptStage
  <1>3. ClockTypes /\ OnceEach /\ NotWaiting
    BY Windows DEF TInit, ClockTypes, OnceEach, NotWaiting
  <1>4. RowsFollow /\ CacheFollows
    BY DEF TInit, OpInit, Init, RowsFollow, CacheFollows
  <1> QED
    BY <1>1, <1>2, <1>3, <1>4 DEF AccessInv

LEMMA AccessInvStep == AccessInv /\ [TNext]_accessVars => AccessInv'
  <1> SUFFICES ASSUME AccessInv, [TNext]_accessVars PROVE AccessInv'
    OBVIOUS
  <1> QED
    BY HandlerTStep, ClockStep, OnceEachStep, NotWaitingStep, RowsFollowStep,
       CacheFollowsStep DEF AccessInv

-----------------------------------------------------------------------------
(* The refinement.                                                         *)

LEMMA AccessInit == TInit => A!Init
  BY HeldType DEF TInit, A!Init

\* Every step of the backend is a step of Access, or leaves its state alone.
LEMMA AccessStep == AccessInv /\ [TNext]_accessVars => [A!Next]_A!vars
  <1> SUFFICES ASSUME AccessInv, [TNext]_accessVars PROVE [A!Next]_A!vars
    OBVIOUS
  <1>0. ClockTypes /\ OnceEach
    BY DEF AccessInv
  <1>1. CASE NoteChanges /\ granted' = granted
    BY <1>1, HeldType DEF NoteChanges, A!Next, A!Change
  <1>2. CASE TNext /\ granted' # granted
    <2>1. PICK i \in Request, u \in User, s \in SUBSET Perm : Gives(i, u, s)
      BY <1>2, Decisions
    <2>2. UNCHANGED <<Held, changed>>
      BY <1>0, <2>1, NothingChanged DEF Gives
    <2>3. i \notin DOMAIN granted
      BY <1>0, <2>1 DEF Gives, OnceEach
    <2>4. A!Decide(i, u)
      BY <2>1, <2>2, <2>3 DEF Gives, A!Decide
    <2> QED
      BY <2>4 DEF A!Next
  <1>3. CASE TTick
    <2>1. Held' = Held /\ granted' = granted
      BY <1>3, HeldStable DEF TTick, Tick, tables
    <2>2. \A u \in User, p \in Perm :
             Older(changed[u][p]) = IF A!Recent(u, p) THEN changed[u][p] + 1 ELSE changed[u][p]
      BY DEF Older, A!Recent
    <2>3. A!Tick
      BY <1>3, <2>1, <2>2 DEF TTick, A!Tick
    <2> QED
      BY <2>3 DEF A!Next
  <1>4. CASE UNCHANGED accessVars
    BY <1>4, HeldStable DEF accessVars, opVars, vars, tables, A!vars
  <1> QED
    BY <1>1, <1>2, <1>3, <1>4, TStepShape DEF RequestStep

\* However an invalidation is missed, overtaken or never made, the permissions a
\* request gets are at most TTL + Lag ticks out of date.
THEOREM AccessRefined == TSpec => BoundedStaleness
  <1>1. TSpec => []AccessInv
    BY AccessInvInit, AccessInvStep, PTL DEF TSpec
  <1> QED
    BY <1>1, AccessInit, AccessStep, PTL DEF TSpec, BoundedStaleness, A!Spec

\* The state of the server and of the operator's program keeps its types.
THEOREM OperatorTypes == TSpec => []OpTypeOK
  <1>1. TSpec => []AccessInv
    BY AccessInvInit, AccessInvStep, PTL DEF TSpec
  <1>2. AccessInv => OpTypeOK
    BY DEF AccessInv, HandlerInv, OpTypeOK
  <1> QED
    BY <1>1, <1>2, PTL
-----------------------------------------------------------------------------
(* The operator's program beside the server.  Its insert comes with no     *)
(* check, audit row or transaction of the server, and in the middle of any *)
(* of the server's; still it breaks none of what Rbac promises.            *)

\* What Rbac's invariants promise, with what they rest on.
OperatorInv ==
    /\ HandlerInv
    /\ script \in Script
    /\ AuditOnlyIfCommitted
    /\ LiveNamesUnique
    /\ SweepKeepsUp
    /\ SystemTargets

LEMMA OperatorInit == OpInit => OperatorInv
  <1> SUFFICES ASSUME OpInit PROVE OperatorInv
    OBVIOUS
  <1>1. Init /\ HandlerInv
    BY HandlerInit DEF OpInit
  <1>2. script \in Script
    BY DEF OpInit, Off, Script, ScriptStage
  <1>3. AuditOnlyIfCommitted /\ LiveNamesUnique /\ SweepKeepsUp /\ SystemTargets
    BY <1>1 DEF Init, AuditOnlyIfCommitted, LiveNamesUnique, NameTaken, Bearers,
       SweepKeepsUp, SystemTargets, Harmless
  <1> QED
    BY <1>1, <1>2, <1>3 DEF OperatorInv

\* An assignment that comes out of nowhere matters to none of the invariants.
LEMMA OperatorStep == OperatorInv /\ [OpNext]_opVars => OperatorInv'
  <1> SUFFICES ASSUME OperatorInv, [OpNext]_opVars PROVE OperatorInv'
    OBVIOUS
  <1> USE DEF OperatorInv
  <1>1. CASE [Next]_vars /\ UNCHANGED script
    BY <1>1, HandlerStep, AuditStep, NamesStep, SweepStep, SystemTargetsStep
  <1>2. CASE ScriptStep
    <2>1. UNCHANGED <<users, roles, rolePerms, journal, store, control>>
      BY <1>2, ScriptWrites
    <2>2. HandlerInv' /\ script' \in Script
      BY <1>2, HandlerScript, ScriptType DEF HandlerInv
    <2>3. AuditOnlyIfCommitted' /\ SweepKeepsUp'
      BY <2>1 DEF journal, store, AuditOnlyIfCommitted, SweepKeepsUp
    <2>4. LiveNamesUnique' /\ SystemTargets'
      BY <2>1 DEF control, LiveNamesUnique, LiveRole, SystemTargets, Harmless
    <2> QED
      BY <2>2, <2>3, <2>4
  <1> QED
    BY <1>1, <1>2 DEF OpNext, opVars

\* With the operator's program at work, replies stay true, only commits are
\* audited, names stay unique and the cache is swept.
THEOREM OperatorIsHarmless ==
  OpSpec => [](RepliesTellTheTruth /\ AuditOnlyIfCommitted /\ LiveNamesUnique /\ SweepKeepsUp)
  <1>1. OperatorInv => RepliesTellTheTruth /\ AuditOnlyIfCommitted /\ LiveNamesUnique
                          /\ SweepKeepsUp
    BY DEF OperatorInv, HandlerInv, RepliesTellTheTruth
  <1> QED
    BY <1>1, OperatorInit, OperatorStep, PTL DEF OpSpec

\* The program finds the role SuperAdmin by name and assigns it, but does not
\* write its row or that of any other system role.
THEOREM OperatorKeepsSystemRoles == OpSpec => SystemRolesIntact
  <1>1. OperatorInv /\ [OpNext]_opVars => [SystemRowsKept]_vars
    <2> SUFFICES ASSUME OperatorInv, [OpNext]_opVars PROVE SystemRowsKept
      OBVIOUS
    <2>1. CASE [Next]_vars
      BY <2>1, SystemRowsStay DEF OperatorInv
    <2>2. CASE ScriptStep
      BY <2>2, ScriptWrites DEF OperatorInv, SystemRowsKept
    <2> QED
      BY <2>1, <2>2 DEF OpNext, opVars
  <1> QED
    BY <1>1, OperatorInit, OperatorStep, PTL
       DEF OpSpec, SystemRolesIntact, SystemRowsKept

\* RbacAccess adds nothing to what the server and the program can do: the clocks
\* only bound how long an answer waits, and req.permissions is written, never read.
THEOREM AccessIsOperator == TSpec => OpSpec
  <1>1. TInit => OpInit
    BY DEF TInit
  <1>2. [TNext]_accessVars => [OpNext]_opVars
    <2> SUFFICES ASSUME [TNext]_accessVars PROVE [OpNext]_opVars
      OBVIOUS
    <2>1. CASE RequestStep
      BY <2>1, UntimedNext DEF RequestStep, OpNext
    <2>2. CASE ScriptStep
      BY <2>2 DEF OpNext
    <2>3. CASE TTick
      BY <2>3 DEF TTick, OpNext, Next, Environment
    <2>4. CASE UNCHANGED accessVars
      BY <2>4 DEF accessVars
    <2> QED
      BY <2>1, <2>2, <2>3, <2>4, TStepShape
  <1> QED
    BY <1>1, <1>2, PTL DEF TSpec, OpSpec
=============================================================================
