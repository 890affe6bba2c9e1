----------------------------- MODULE Gate_proofs -----------------------------
(***************************************************************************)
(* Theorems about Gate, for any users, requests, routes and time limits.   *)
(***************************************************************************)
EXTENDS Gate, TLAPS

-----------------------------------------------------------------------------
(* The routes.                                                             *)

Key(i) == RouteKey[route[i]]

LEMMA RouteKeys ==
  ASSUME NEW r \in Routes, r # "me"
  PROVE  RouteKey[r] \in Perm
  BY DEF Perm

LEMMA GrantKeys ==
  /\ \A r \in ForOneUser \cup ForARole : RouteKey[r] \in {"Users.AssignRoles", "Roles.Manage"}
  /\ "me" \notin ForOneUser \cup ForARole
  BY DEF ForOneUser, ForARole, RouteKey

LEMMA LabKeys ==
  ASSUME NEW r \in Labs
  PROVE  ClaimKey[r] = RouteKey[r] /\ r # "me"
  BY DEF Labs, ClaimKey, RouteKey

-----------------------------------------------------------------------------
(* The inductive invariant.                                                *)

InFlight(i) == pc[i] \notin {"idle", "done"}
Past(i) == pc[i] \in {"handler", "dims"}

\* The history knows how long a permission has been missing, or that it has been for
\* longer than a decision may lag.
Timed(i) ==
    /\ InFlight(i) /\ ~Has(who[i], route[i], held) /\ changed[who[i]][Key(i)] < Window
          => absent[i] <= changed[who[i]][Key(i)]
    /\ Has(who[i], route[i], held) => absent[i] = 0

\* Behind the gate, and in a token, is only what was granted.
LetIn(i) ==
    /\ pc[i] = "load" \/ Past(i) => i \in seen
    /\ Past(i) => /\ route[i] # "me"
                  /\ i \in DOMAIN granted
                  /\ Key(i) \in granted[i]
    /\ pc[i] = "dims" => /\ route[i] \in Labs
                         /\ claim[i] = Key(i)
                         /\ token[i] < TokenTTL => absent[i] <= (Window - 1) + token[i]

GateInv == TypeOK /\ \A i \in Request : Timed(i) /\ LetIn(i)

\* What a step does to permissions, whoever takes it.
AccessTypes ==
    /\ held \in [User -> SUBSET Perm]
    /\ changed \in [User -> [Perm -> 0..Window]]
    /\ DOMAIN granted \subseteq Request
    /\ granted \in [DOMAIN granted -> SUBSET Perm]

LEMMA ChangeTypes ==
  ASSUME TypeOK, A!Change
  PROVE  /\ AccessTypes'
         /\ granted' = granted
         /\ \A u \in User, p \in Perm :
               changed'[u][p] = IF p \in held'[u] <=> p \in held[u] THEN changed[u][p] ELSE 0
  BY GateAssumption DEF TypeOK, A!Change, AccessTypes

LEMMA DecideTypes ==
  ASSUME TypeOK, NEW i \in Request, NEW u \in User, A!Decide(i, u)
  PROVE  /\ AccessTypes'
         /\ held' = held /\ changed' = changed
         /\ i \notin DOMAIN granted
         /\ DOMAIN granted' = DOMAIN granted \cup {i}
         /\ \A j \in DOMAIN granted : granted'[j] = granted[j]
         /\ \A p \in granted'[i] : p \in Perm /\ (p \in held[u] \/ changed[u][p] < Window)
  BY DEF TypeOK, A!Decide, A!Given, A!Views, A!Recent, AccessTypes

LEMMA TickTypes ==
  ASSUME TypeOK, A!Tick
  PROVE  /\ AccessTypes'
         /\ held' = held /\ granted' = granted
         /\ \A u \in User, p \in Perm :
               changed'[u][p] = IF changed[u][p] < Window THEN changed[u][p] + 1
                                ELSE changed[u][p]
  BY GateAssumption DEF TypeOK, A!Tick, A!Recent, AccessTypes

-----------------------------------------------------------------------------
(* The history.                                                            *)

LEMMA NoteTypes ==
  ASSUME TypeOK, NEW n \in {0, 1}, Note(n)
  PROVE  /\ who' = who /\ route' = route
         /\ seen \subseteq seen' /\ seen' \subseteq Request
         /\ absent' \in [Request -> 0..(Window + TokenTTL)]
         /\ \A i \in Request : absent'[i] = Missed(i, n)
  <1>1. ASSUME NEW i \in Request PROVE Missed(i, n) \in 0..(Window + TokenTTL)
    <2>1. absent[i] \in 0..(Window + TokenTTL) /\ Window + TokenTTL \in Nat
      BY GateAssumption DEF TypeOK
    <2>2. Few(absent[i] + n) \in 0..(Window + TokenTTL)
      BY <2>1 DEF Few
    <2>3. CASE route[i] = "me"
      BY <2>1, <2>3 DEF Missed, Has
    <2>4. CASE route[i] # "me"
      <3>1. who[i] \in User /\ Key(i) \in Perm
        BY <2>4, RouteKeys DEF TypeOK, Key
      <3>2. changed[who[i]][Key(i)] \in 0..Window
        BY <3>1 DEF TypeOK
      <3> QED
        BY <2>1, <2>2, <3>2, GateAssumption DEF Missed, Key
    <2> QED
      BY <2>3, <2>4
  <1>2. UNCHANGED <<who, route>> /\ absent' = [i \in Request |-> Missed(i, n)]
    BY DEF Note
  <1>3. seen \subseteq seen' /\ seen' \subseteq Request
    BY DEF Note, TypeOK
  <1> QED
    BY <1>1, <1>2, <1>3

\* How a step moves permissions: some change in no time, or a tick passes.
Moves(n) ==
    \/ /\ n = 0
       /\ \A u \in User, p \in Perm :
             changed'[u][p] = IF p \in held'[u] <=> p \in held[u] THEN changed[u][p] ELSE 0
    \/ /\ n = 1
       /\ held' = held
       /\ \A u \in User, p \in Perm :
             changed'[u][p] = IF changed[u][p] < Window THEN changed[u][p] + 1
                              ELSE changed[u][p]

LEMMA TimedStep ==
  ASSUME GateInv, NEW n \in {0, 1}, Note(n), Moves(n), NEW i \in Request,
         pc[i] = "done" => pc'[i] = "done",
         pc[i] = "idle" /\ pc'[i] # "idle" => UNCHANGED <<held, changed>>
  PROVE  Timed(i)'
  <1>1. /\ TypeOK /\ Timed(i) /\ who' = who /\ route' = route
        /\ absent'[i] = Missed(i, n)
        /\ absent[i] \in 0..(Window + TokenTTL) /\ absent'[i] \in 0..(Window + TokenTTL)
    BY NoteTypes DEF GateInv, TypeOK
  <1>2. Has(who[i], route[i], held)' <=> Has(who[i], route[i], held')
    BY <1>1 DEF Has
  <1>3. Has(who[i], route[i], held)' => absent'[i] = 0
    BY <1>1, <1>2 DEF Missed
  <1>4. ASSUME InFlight(i)', ~Has(who[i], route[i], held'), changed'[who[i]][Key(i)] < Window
        PROVE  absent'[i] <= changed'[who[i]][Key(i)]
    <2>1. who[i] \in User /\ Key(i) \in Perm /\ route[i] # "me"
      BY <1>1, <1>4, RouteKeys DEF TypeOK, Key, Has
    <2> DEFINE ago == changed[who[i]][Key(i)]
    <2>2. ago \in 0..Window /\ Window \in Nat /\ TokenTTL \in Nat
      BY <1>1, <2>1, GateAssumption DEF TypeOK
    <2>3. CASE pc[i] = "idle"
      <3>1. UNCHANGED <<held, changed>>
        BY <1>4, <2>3 DEF InFlight
      <3>2. absent'[i] = IF ago < Window THEN ago ELSE Window + TokenTTL
        BY <1>1, <1>4, <2>3, <3>1 DEF Missed, InFlight, Key
      <3> QED
        BY <1>4, <2>2, <3>1, <3>2
    <2>4. CASE pc[i] # "idle"
      <3>1. InFlight(i) /\ absent'[i] = Few(absent[i] + n)
        BY <1>1, <1>4, <2>4 DEF Missed, InFlight
      <3>2. absent'[i] <= absent[i] + n
        BY <1>1, <2>2, <3>1 DEF Few
      <3>3. CASE n = 0 /\ Key(i) \in held[who[i]]
        <4>1. absent[i] = 0 /\ Key(i) \notin held'[who[i]]
          BY <1>1, <1>4, <2>1, <3>3 DEF Timed, Has, Key
        <4>2. changed'[who[i]][Key(i)] = 0
          BY <2>1, <3>3, <4>1 DEF Moves
        <4> QED
          BY <3>2, <3>3, <4>1, <4>2
      <3>4. CASE n = 0 /\ Key(i) \notin held[who[i]]
        <4>1. Key(i) \notin held'[who[i]]
          BY <1>4, <2>1 DEF Has, Key
        <4>2. changed'[who[i]][Key(i)] = ago
          BY <2>1, <3>4, <4>1 DEF Moves
        <4>3. absent[i] <= ago
          BY <1>1, <1>4, <2>1, <3>1, <3>4, <4>2 DEF Timed, Has, Key
        <4> QED
          BY <1>1, <2>2, <3>2, <3>4, <4>2, <4>3
      <3>5. CASE n = 1
        <4>1. /\ held' = held
              /\ changed'[who[i]][Key(i)] = IF ago < Window THEN ago + 1 ELSE ago
          BY <2>1, <3>5 DEF Moves
        <4>2. ago < Window
          BY <1>4, <2>2, <4>1
        <4>3. absent[i] <= ago
          BY <1>1, <1>4, <3>1, <4>1, <4>2 DEF Timed
        <4> QED
          BY <1>1, <2>2, <3>2, <3>5, <4>1, <4>2, <4>3
      <3> QED
        BY <3>3, <3>4, <3>5
    <2> QED
      BY <2>3, <2>4
  <1> QED
    BY <1>1, <1>2, <1>3, <1>4 DEF Timed, Key

\* A request that a step leaves where it is keeps what it was let in by.
LEMMA LetInKept ==
  ASSUME GateInv, NEW n \in {0, 1}, Note(n), NEW i \in Request,
         pc'[i] = pc[i], claim'[i] = claim[i],
         i \in DOMAIN granted => i \in DOMAIN granted' /\ granted'[i] = granted[i],
         pc[i] = "dims" /\ token'[i] < TokenTTL
            => token[i] < TokenTTL /\ token'[i] = token[i] + n
  PROVE  LetIn(i)'
  <1>1. /\ TypeOK /\ LetIn(i) /\ who' = who /\ route' = route /\ seen \subseteq seen'
        /\ absent'[i] = Missed(i, n) /\ absent'[i] \in Nat /\ n \in Nat
        /\ absent[i] \in Nat /\ token[i] \in Nat /\ Window \in Nat /\ TokenTTL \in Nat
    BY NoteTypes, GateAssumption DEF GateInv, TypeOK
  <1>2. ASSUME pc[i] = "dims", token'[i] < TokenTTL
        PROVE  absent'[i] <= (Window - 1) + token'[i]
    <2>1. absent[i] <= (Window - 1) + token[i] /\ token'[i] = token[i] + n
      BY <1>1, <1>2 DEF LetIn
    <2>2. absent'[i] = 0 \/ absent'[i] = Few(absent[i] + n)
      BY <1>1, <1>2 DEF Missed
    <2>3. absent'[i] <= absent[i] + n
      BY <1>1, <2>2 DEF Few
    <2> QED
      BY <1>1, <2>1, <2>3
  <1>3. Key(i)' = Key(i)
    BY <1>1 DEF Key
  <1> QED
    BY <1>1, <1>2, <1>3 DEF LetIn, Past

-----------------------------------------------------------------------------
(* The steps.                                                              *)

CallTypes ==
    /\ pc \in [Request -> Stage]
    /\ claim \in [Request -> Perm \cup {"none"}]
    /\ token \in [Request -> 0..TokenTTL]
    /\ served \subseteq Request

LEMMA TypesNext ==
  ASSUME TypeOK, NEW n \in {0, 1}, Note(n), AccessTypes', CallTypes', active' \subseteq User
  PROVE  TypeOK'
  BY NoteTypes DEF TypeOK, AccessTypes, CallTypes

LEMMA TypesHave == TypeOK => AccessTypes /\ CallTypes
  BY DEF TypeOK, AccessTypes, CallTypes

LEMMA GotoEffect ==
  ASSUME TypeOK, NEW i \in Request, NEW stage \in Stage, Goto(i, stage)
  PROVE  /\ pc' \in [Request -> Stage] /\ pc'[i] = stage
         /\ \A j \in Request \ {i} : pc'[j] = pc[j]
  BY DEF TypeOK, Goto

\* A step of one request that leaves the other calls alone, and its own unless the
\* lemma is told what it is let in by.
LEMMA RequestStep ==
  ASSUME GateInv, Note(0), Moves(0), NEW i \in Request, AccessTypes', CallTypes',
         active' \subseteq User, pc[i] # "done",
         pc[i] = "idle" => UNCHANGED <<held, changed>>,
         \A j \in Request \ {i} :
            /\ pc'[j] = pc[j] /\ claim'[j] = claim[j] /\ token'[j] = token[j]
            /\ j \in DOMAIN granted => j \in DOMAIN granted' /\ granted'[j] = granted[j],
         LetIn(i)'
  PROVE  GateInv'
  <1>1. TypeOK'
    BY TypesNext DEF GateInv
  <1>2. ASSUME NEW j \in Request PROVE Timed(j)'
    <2>1. CASE j = i
      BY <2>1, TimedStep
    <2>2. CASE j # i
      BY <2>2, TimedStep
    <2> QED
      BY <2>1, <2>2
  <1>3. ASSUME NEW j \in Request, j # i PROVE LetIn(j)'
    <2>1. token[j] \in Nat
      BY GateAssumption DEF GateInv, TypeOK
    <2> QED
      BY <1>3, <2>1, LetInKept
  <1> QED
    BY <1>1, <1>2, <1>3 DEF GateInv

LEMMA Still == ASSUME UNCHANGED <<held, changed>>, TypeOK PROVE Moves(0)
  BY DEF Moves

\* A request that is answered, or has only arrived, is let in by nothing.
LEMMA Outside_LetIn ==
  ASSUME NEW i \in Request, pc'[i] \in {"idle", "authenticate", "done"}
  PROVE  LetIn(i)'
  BY DEF LetIn, Past

LEMMA PlainStep ==
  ASSUME GateInv, Note(0), NEW i \in Request,
         Arrive(i) \/ authenticate(i) \/ Ends(i) \/ PatchUser(i) \/ DimsServes(i)
            \/ DimsRefuses(i)
  PROVE  GateInv'
  <1>1. TypeOK
    BY DEF GateInv
  <1>2. /\ UNCHANGED <<held, changed, granted, claim, token>>
        /\ active' \subseteq User /\ served' \subseteq Request
        /\ pc[i] # "done"
    BY <1>1 DEF Arrive, authenticate, Ends, PatchUser, DimsServes, DimsRefuses, accessVars,
       call, TypeOK
  <1>3. \E stage \in {"authenticate", "load", "done"} :
           /\ Goto(i, stage)
           /\ stage = "load" => pc[i] = "authenticate" /\ who[i] \in active /\ active' = active
    BY DEF Arrive, authenticate, Ends, PatchUser, DimsServes, DimsRefuses
  <1>4. PICK stage \in {"authenticate", "load", "done"} :
           /\ Goto(i, stage)
           /\ stage = "load" => pc[i] = "authenticate" /\ who[i] \in active /\ active' = active
    BY <1>3
  <1>5. /\ pc' \in [Request -> Stage] /\ pc'[i] = stage
        /\ \A j \in Request \ {i} : pc'[j] = pc[j]
    BY <1>1, <1>4, GotoEffect DEF Stage
  <1>6. AccessTypes' /\ CallTypes'
    BY <1>1, <1>2, <1>5 DEF TypeOK, AccessTypes, CallTypes
  <1>7. LetIn(i)'
    <2>1. CASE stage # "load"
      BY <1>5, <2>1, Outside_LetIn
    <2>2. CASE stage = "load"
      <3>1. i \in seen'
        BY <1>4, <1>5, <2>2 DEF Note
      <3> QED
        BY <1>5, <2>2, <3>1 DEF LetIn, Past
    <2> QED
      BY <2>1, <2>2
  <1> QED
    BY <1>1, <1>2, <1>5, <1>6, <1>7, RequestStep, Still

LEMMA LoadStep ==
  ASSUME GateInv, Note(0), NEW i \in Request, loadPermissions(i)
  PROVE  GateInv'
  <1>1. TypeOK /\ Timed(i) /\ LetIn(i) /\ pc[i] = "load" /\ who[i] \in User
    BY DEF GateInv, loadPermissions, TypeOK
  <1>2. A!Decide(i, who[i]) /\ active' = active
    BY DEF loadPermissions
  <1>3. /\ AccessTypes' /\ held' = held /\ changed' = changed
        /\ DOMAIN granted' = DOMAIN granted \cup {i}
        /\ \A j \in DOMAIN granted : granted'[j] = granted[j]
        /\ i \notin DOMAIN granted
        /\ \A p \in granted'[i] :
              p \in Perm /\ (p \in held[who[i]] \/ changed[who[i]][p] < Window)
    BY <1>1, <1>2, DecideTypes
  <1>4. who' = who /\ route' = route /\ seen \subseteq seen' /\ absent'[i] = Missed(i, 0)
    BY <1>1, NoteTypes
  <1>5. i \in seen'
    BY <1>1, <1>4 DEF LetIn
  <1>6. \/ Goto(i, "done") /\ UNCHANGED call
        \/ /\ requirePermission(route[i], granted'[i]) /\ route[i] # "me"
           /\ \/ Goto(i, "handler") /\ UNCHANGED call
              \/ Goto(i, "dims") /\ route[i] \in Labs /\ mintServiceJwt(i)
    <2>1. "me" \notin Labs
      BY DEF Labs
    <2> QED
      BY <2>1 DEF loadPermissions
  <1>7. ASSUME CallTypes', LetIn(i)',
               \A j \in Request \ {i} : pc'[j] = pc[j] /\ claim'[j] = claim[j] /\ token'[j] = token[j]
        PROVE  GateInv'
    BY <1>1, <1>2, <1>3, <1>7, RequestStep, Still DEF TypeOK
  <1>8. CASE Goto(i, "done") /\ UNCHANGED call
    <2>1. /\ pc' \in [Request -> Stage] /\ pc'[i] = "done"
          /\ \A j \in Request \ {i} : pc'[j] = pc[j]
      BY <1>1, <1>8, GotoEffect DEF Stage
    <2>2. CallTypes'
      BY <1>1, <1>8, <2>1 DEF call, CallTypes, TypeOK
    <2> QED
      BY <1>7, <1>8, <2>1, <2>2, Outside_LetIn DEF call
  <1>9. ASSUME requirePermission(route[i], granted'[i]), route[i] # "me"
        PROVE  Key(i) \in granted'[i] /\ Key(i) \in Perm
    BY <1>3, <1>9 DEF requirePermission, Key
  <1>10. CASE /\ requirePermission(route[i], granted'[i]) /\ route[i] # "me"
              /\ Goto(i, "handler") /\ UNCHANGED call
    <2>1. /\ pc' \in [Request -> Stage] /\ pc'[i] = "handler"
          /\ \A j \in Request \ {i} : pc'[j] = pc[j]
      BY <1>1, <1>10, GotoEffect DEF Stage
    <2>2. CallTypes'
      BY <1>1, <1>10, <2>1 DEF call, CallTypes, TypeOK
    <2>3. LetIn(i)'
      BY <1>3, <1>4, <1>5, <1>9, <1>10, <2>1 DEF LetIn, Past, Key
    <2> QED
      BY <1>7, <1>10, <2>1, <2>2, <2>3 DEF call
  <1>11. CASE /\ requirePermission(route[i], granted'[i]) /\ route[i] # "me"
              /\ Goto(i, "dims") /\ route[i] \in Labs /\ mintServiceJwt(i)
    <2>1. /\ pc' \in [Request -> Stage] /\ pc'[i] = "dims"
          /\ \A j \in Request \ {i} : pc'[j] = pc[j]
      BY <1>1, <1>11, GotoEffect DEF Stage
    <2>2. ClaimKey[route[i]] = Key(i)
      BY <1>11, LabKeys DEF Key
    <2>3. 0 \in 0..TokenTTL
      BY GateAssumption
    <2>4. /\ claim' \in [Request -> Perm \cup {"none"}] /\ token' \in [Request -> 0..TokenTTL]
          /\ claim'[i] = Key(i) /\ token'[i] = 0
          /\ \A j \in Request \ {i} : claim'[j] = claim[j] /\ token'[j] = token[j]
      BY <1>1, <1>9, <1>11, <2>2, <2>3 DEF mintServiceJwt, TypeOK
    <2>5. CallTypes'
      BY <1>1, <1>11, <2>1, <2>4 DEF mintServiceJwt, CallTypes, TypeOK
    <2>6. absent'[i] <= Window - 1
      <3>1. /\ absent[i] \in 0..(Window + TokenTTL) /\ Window \in Nat \ {0}
            /\ changed[who[i]][Key(i)] \in 0..Window
        BY <1>1, <1>9, <1>11, GateAssumption DEF TypeOK
      <3>2. CASE Key(i) \in held[who[i]]
        BY <1>3, <1>4, <3>1, <3>2 DEF Missed, Has, Key
      <3>3. CASE Key(i) \notin held[who[i]]
        <4>1. changed[who[i]][Key(i)] < Window
          BY <1>3, <1>9, <1>11, <3>3
        <4>2. ~Has(who[i], route[i], held) /\ InFlight(i)
          BY <1>1, <1>11, <3>3 DEF InFlight, Has, Key
        <4>3. absent[i] <= changed[who[i]][Key(i)]
          BY <1>1, <4>1, <4>2 DEF Timed
        <4>4. absent'[i] = Few(absent[i] + 0)
          <5>1. ~Has(who[i], route[i], held')
            BY <1>3, <4>2 DEF Has
          <5> QED
            BY <1>1, <1>4, <2>1, <5>1 DEF Missed
        <4> QED
          BY <3>1, <4>1, <4>3, <4>4, GateAssumption DEF Few
      <3> QED
        BY <3>2, <3>3
    <2>7. LetIn(i)'
      <3>1. token'[i] < TokenTTL => absent'[i] <= (Window - 1) + token'[i]
        BY <2>4, <2>6, GateAssumption
      <3>2. Key(i)' = Key(i)
        BY <1>4 DEF Key
      <3> QED
        BY <1>3, <1>4, <1>5, <1>9, <1>11, <2>1, <2>4, <3>1, <3>2 DEF LetIn, Past
    <2> QED
      BY <1>7, <2>1, <2>4, <2>5, <2>7
  <1> QED
    BY <1>6, <1>8, <1>10, <1>11

LEMMA ChangeStep ==
  ASSUME GateInv, Note(0), NEW i \in Request, ChangeGrants(i)
  PROVE  GateInv'
  <1>1. TypeOK /\ pc[i] = "handler" /\ A!Change /\ UNCHANGED <<active, call>>
    BY DEF GateInv, ChangeGrants
  <1>2. AccessTypes' /\ granted' = granted /\ Moves(0)
    BY <1>1, ChangeTypes DEF Moves
  <1>3. /\ pc' \in [Request -> Stage] /\ pc'[i] = "done"
        /\ \A j \in Request \ {i} : pc'[j] = pc[j]
    BY <1>1, GotoEffect DEF ChangeGrants, Stage
  <1>4. CallTypes' /\ active' \subseteq User
    BY <1>1, <1>3 DEF call, CallTypes, TypeOK
  <1>5. LetIn(i)'
    BY <1>3, Outside_LetIn
  <1> QED
    BY <1>1, <1>2, <1>3, <1>4, <1>5, RequestStep DEF call

LEMMA ServeStep ==
  ASSUME GateInv, Note(0), NEW i \in Request, Serve(i)
  PROVE  GateInv'
  BY PlainStep, LoadStep, ChangeStep DEF Serve

\* Steps of nobody's request.
LEMMA IdleStep ==
  ASSUME GateInv, NEW n \in {0, 1}, Note(n), Moves(n), UNCHANGED <<pc, claim, served, granted>>,
         AccessTypes', active' \subseteq User, token' \in [Request -> 0..TokenTTL],
         \A j \in Request : pc[j] = "dims" /\ token'[j] < TokenTTL
            => token[j] < TokenTTL /\ token'[j] = token[j] + n
  PROVE  GateInv'
  <1>1. TypeOK'
    <2>1. CallTypes'
      BY DEF GateInv, TypeOK, CallTypes
    <2> QED
      BY <2>1, TypesNext DEF GateInv
  <1>2. \A j \in Request : Timed(j)'
    BY TimedStep
  <1>3. \A j \in Request : LetIn(j)'
    BY LetInKept
  <1> QED
    BY <1>1, <1>2, <1>3 DEF GateInv

LEMMA OutsideStep ==
  ASSUME GateInv, Outside, Note(0)
  PROVE  GateInv'
  <1>1. TypeOK /\ UNCHANGED <<pc, call>>
    BY DEF GateInv, Outside
  <1>2. AccessTypes' /\ granted' = granted /\ Moves(0) /\ active' \subseteq User
    <2>1. CASE A!Change /\ UNCHANGED active
      BY <1>1, <2>1, ChangeTypes DEF Moves, TypeOK
    <2>2. CASE active' \in SUBSET User /\ UNCHANGED accessVars
      BY <1>1, <2>2, Still DEF accessVars, AccessTypes, TypeOK
    <2> QED
      BY <2>1, <2>2 DEF Outside
  <1>3. \A j \in Request : token'[j] = token[j] + 0
    BY <1>1, GateAssumption DEF call, TypeOK
  <1>4. token' \in [Request -> 0..TokenTTL]
    BY <1>1 DEF call, TypeOK
  <1> QED
    BY <1>1, <1>2, <1>3, <1>4, IdleStep DEF call

LEMMA TickStep ==
  ASSUME GateInv, Tick, Note(1)
  PROVE  GateInv'
  <1>1. TypeOK /\ A!Tick /\ UNCHANGED <<active, pc, claim, served>>
    BY DEF GateInv, Tick
  <1>2. AccessTypes' /\ granted' = granted /\ Moves(1)
    BY <1>1, TickTypes DEF Moves
  <1>3. /\ token' \in [Request -> 0..TokenTTL]
        /\ \A j \in Request :
              token'[j] = IF pc[j] = "dims" /\ token[j] < TokenTTL THEN token[j] + 1 ELSE token[j]
    BY <1>1, GateAssumption DEF Tick, TypeOK
  <1>4. \A j \in Request : pc[j] = "dims" /\ token'[j] < TokenTTL
            => token[j] < TokenTTL /\ token'[j] = token[j] + 1
    BY <1>3
  <1> QED
    BY <1>1, <1>2, <1>3, <1>4, IdleStep DEF TypeOK

LEMMA GateInit == Init => GateInv
  <1> SUFFICES ASSUME Init PROVE GateInv
    OBVIOUS
  <1>1. /\ held \in [User -> SUBSET Perm]
        /\ changed = [u \in User |-> [p \in Perm |-> Window]]
        /\ granted = [i \in {} |-> {}]
    BY DEF Init, A!Init
  <1>2. Window \in 0..Window /\ 0 \in 0..TokenTTL /\ 0 \in 0..(Window + TokenTTL)
    BY GateAssumption
  <1>3. DOMAIN granted = {} /\ granted \in [DOMAIN granted -> SUBSET Perm]
    BY <1>1
  <1>4. changed \in [User -> [Perm -> 0..Window]]
    BY <1>1, <1>2
  <1>5. TypeOK
    BY <1>1, <1>2, <1>3, <1>4 DEF Init, TypeOK, Stage
  <1>6. \A i \in Request : Timed(i) /\ LetIn(i)
    BY DEF Init, Timed, InFlight, LetIn, Past
  <1> QED
    BY <1>5, <1>6 DEF GateInv

LEMMA GateStep == GateInv /\ [Next]_vars => GateInv'
  <1> SUFFICES ASSUME GateInv, [Next]_vars PROVE GateInv'
    OBVIOUS
  <1>1. CASE Next
    BY <1>1, ServeStep, OutsideStep, TickStep DEF Next
  <1>2. CASE UNCHANGED vars
    <2>1. UNCHANGED <<held, changed, granted, active, who, route, pc, claim, token, served,
                      absent, seen>>
      BY <1>2 DEF vars, accessVars, call
    <2>2. TypeOK'
      BY <2>1 DEF GateInv, TypeOK
    <2>3. \A j \in Request : Timed(j)' /\ LetIn(j)'
      BY <2>1 DEF GateInv, Timed, LetIn, InFlight, Past, Has, Key
    <2> QED
      BY <2>2, <2>3 DEF GateInv
  <1> QED
    BY <1>1, <1>2

-----------------------------------------------------------------------------
(* Theorems.                                                               *)

\* GateInv is inductive: what a handler or a token was let in by, and how old that is.
THEOREM GateCorrect == Spec => []GateInv
  BY GateInit, GateStep, PTL DEF Spec

\* Every variable keeps its type; no token outlives its limit.
THEOREM TypeCorrect == Spec => []TypeOK
  <1>1. GateInv => TypeOK
    BY DEF GateInv
  <1> QED
    BY <1>1, GateCorrect, PTL

\* For any routes and any activity of users, a handler runs only for a user whom the
\* request found active after it arrived (authenticate.ts).
THEOREM ActiveCorrect == Spec => []OnlyActiveUsersEnter
  <1>1. GateInv => OnlyActiveUsersEnter
    BY DEF GateInv, LetIn, Past, OnlyActiveUsersEnter
  <1> QED
    BY <1>1, GateCorrect, PTL

\* For every route of the labs router the token claims the permission of the gate,
\* which the request was granted (labs.routes.ts, labs.services.ts).
THEOREM ClaimsCorrect == Spec => []ClaimsWereGranted
  <1>1. GateInv => ClaimsWereGranted
    BY DEF GateInv, LetIn, Past, Key, ClaimsWereGranted
  <1> QED
    BY <1>1, GateCorrect, PTL

\* For any time limits, a call that DIMS serves was backed by a permission that its
\* user had no longer ago than a decision may lag and a token may live
\* (loadPermissions.ts, serviceJwt.ts).
THEOREM RevocationCorrect == Spec => RevocationReachesDims
  <1> DEFINE Backed(i) == absent[i] <= (Window - 1) + (TokenTTL - 1)
  <1>1. ASSUME GateInv, [Next]_vars, NEW i \in served' \ served PROVE Backed(i)
    <2>1. ASSUME NEW j \in Request, Serve(j) PROVE DimsServes(j) \/ served' = served
      BY <2>1 DEF Serve, Arrive, authenticate, loadPermissions, mintServiceJwt, Ends,
         ChangeGrants, PatchUser, DimsRefuses, call
    <2>2. Outside \/ Tick \/ UNCHANGED vars => served' = served
      BY DEF Outside, Tick, vars, call
    <2>3. PICK j \in Request : DimsServes(j)
      BY <1>1, <2>1, <2>2 DEF Next
    <2>4. i = j /\ pc[i] = "dims" /\ token[i] < TokenTTL
      BY <2>3 DEF DimsServes
    <2>5. /\ absent[i] <= (Window - 1) + token[i]
          /\ absent[i] \in Nat /\ token[i] \in Nat
      BY <1>1, <2>4, GateAssumption DEF GateInv, LetIn, TypeOK
    <2> QED
      BY <2>4, <2>5, GateAssumption
  <1>2. ASSUME GateInv, [Next]_vars PROVE \A i \in served' \ served : Backed(i)
    BY <1>1, <1>2
  <1>3. Spec => [][\A i \in served' \ served : Backed(i)]_vars
    BY <1>2, GateCorrect, PTL DEF Spec
  <1> QED
    BY <1>3 DEF RevocationReachesDims

\* For any users, requests and routes: authority over grants that has been withdrawn
\* everywhere is not regained through the routes of this program.
THEOREM SealedCorrect == Spec => SealedStaysSealed
  <1>1. ASSUME GateInv, [Next]_vars, Sealed, ~UNCHANGED pc PROVE Sealed'
    <2>1. TypeOK
      BY <1>1 DEF GateInv
    <2>2. PICK i \in Request : Serve(i) /\ Note(0)
      BY <1>1 DEF Next, Outside, Tick, vars
    <2>3. route' = route
      BY <2>2 DEF Note
    <2>4. ~ChangeGrants(i)
      BY <1>1 DEF ChangeGrants, Sealed
    <2>5. held' = held /\ changed' = changed
      BY <2>2, <2>4 DEF Serve, Arrive, authenticate, loadPermissions, Ends, PatchUser,
         DimsServes, DimsRefuses, accessVars, A!Decide
    <2>6. \A u \in User, p \in Perm \cap {"Users.AssignRoles", "Roles.Manage"} :
             p \notin held'[u] /\ changed'[u][p] >= Window
      BY <1>1, <2>5 DEF Sealed
    <2>7. ASSUME NEW j \in Request, pc'[j] = "handler"
          PROVE  route[j] \notin ForOneUser \cup ForARole
      <3>1. \E stage \in Stage : Goto(i, stage) /\ (stage = "handler" => loadPermissions(i))
        BY <2>2, <2>4 DEF Serve, Arrive, authenticate, loadPermissions, Ends, PatchUser,
           DimsServes, DimsRefuses, Stage
      <3>2. CASE pc[j] = "handler"
        BY <1>1, <3>2 DEF Sealed
      <3>3. CASE pc[j] # "handler"
        <4>1. j = i /\ loadPermissions(i)
          BY <2>1, <2>7, <3>1, <3>3, GotoEffect
        <4>2. A!Decide(i, who[i]) /\ who[i] \in User /\ route[i] \in Routes
          BY <2>1, <4>1 DEF loadPermissions, TypeOK
        <4>3. requirePermission(route[i], granted'[i])
          <5>1. Goto(i, "done") => pc'[i] = "done"
            BY <2>1, GotoEffect DEF Stage
          <5>2. Goto(i, "dims") => pc'[i] = "dims"
            BY <2>1, GotoEffect DEF Stage
          <5> QED
            BY <2>7, <4>1, <5>1, <5>2 DEF loadPermissions
        <4>4. SUFFICES ASSUME route[i] \in ForOneUser \cup ForARole PROVE FALSE
          BY <4>1
        <4>5. /\ RouteKey[route[i]] \in {"Users.AssignRoles", "Roles.Manage"}
              /\ RouteKey[route[i]] \in granted'[i]
          BY <4>3, <4>4, GrantKeys DEF requirePermission
        <4>6. /\ RouteKey[route[i]] \in Perm
              /\ \/ RouteKey[route[i]] \in held[who[i]]
                 \/ changed[who[i]][RouteKey[route[i]]] < Window
          BY <2>1, <4>2, <4>5, DecideTypes
        <4>7. changed[who[i]][RouteKey[route[i]]] \in 0..Window
          BY <2>1, <4>2, <4>6 DEF TypeOK
        <4> QED
          BY <1>1, <4>2, <4>5, <4>6, <4>7, GateAssumption DEF Sealed
      <3> QED
        BY <3>2, <3>3
    <2> QED
      BY <2>3, <2>6, <2>7 DEF Sealed
  <1>2. ASSUME GateInv, [Next]_vars PROVE Sealed /\ ~Sealed' => UNCHANGED pc
    BY <1>1, <1>2
  <1>3. Spec => [][Sealed /\ ~Sealed' => UNCHANGED pc]_vars
    BY <1>2, GateCorrect, PTL DEF Spec
  <1> QED
    BY <1>3 DEF SealedStaysSealed
=============================================================================
