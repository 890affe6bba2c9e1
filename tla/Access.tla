-------------------------------- MODULE Access --------------------------------
(***************************************************************************)
(* What the permission check promises, without tables, cache or handlers:  *)
(* a request is let in with permissions its user has, or with an older     *)
(* view that is out of date for less than Window ticks.  A permission that *)
(* was granted or revoked longer ago is always seen as it is now.          *)
(***************************************************************************)
EXTENDS Integers

CONSTANTS
    User,
    Perm,
    Request,
    Window  \* how long, in ticks, a decision may ignore a change

VARIABLES
    held,    \* the permissions the tables give each user
    changed, \* ticks since a user last gained or lost a permission, at most Window
    granted  \* req.permissions: a function from the requests that have them

vars == <<held, changed, granted>>

Init ==
    /\ held \in [User -> SUBSET Perm]
    /\ changed = [u \in User |-> [p \in Perm |-> Window]]
    /\ granted = [i \in {} |-> {}]

\* The tables change, in whatever way and on whose behalf.
Change ==
    /\ held' \in [User -> SUBSET Perm]
    /\ changed' = [u \in User |-> [p \in Perm |->
                      IF p \in held'[u] <=> p \in held[u] THEN changed[u][p] ELSE 0]]
    /\ UNCHANGED granted

Recent(u, p) == changed[u][p] < Window

\* The views of a user's permissions that a request may be decided by.
Views(u) == {s \in SUBSET Perm : \A p \in Perm : Recent(u, p) \/ (p \in s <=> p \in held[u])}

Given(i, s) == [j \in DOMAIN granted \cup {i} |-> IF j = i THEN s ELSE granted[j]]

\* Once: nothing loads the permissions of a request again.
Decide(i, u) ==
    /\ i \notin DOMAIN granted
    /\ \E s \in Views(u) : granted' = Given(i, s)
    /\ UNCHANGED <<held, changed>>

Tick ==
    /\ changed' = [u \in User |-> [p \in Perm |->
                      IF Recent(u, p) THEN changed[u][p] + 1 ELSE changed[u][p]]]
    /\ UNCHANGED <<held, granted>>

Next ==
    \/ Change
    \/ \E i \in Request, u \in User : Decide(i, u)
    \/ Tick

Spec == Init /\ [][Next]_vars
=============================================================================
