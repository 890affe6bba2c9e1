-------------------------------- MODULE MCGate --------------------------------
(* A small instance of Gate for TLC.                                         *)
EXTENDS Gate, TLC

CONSTANTS u1, u2

\* u1 may change users and roles, u2 the labs; the requests are any two.
GateInit ==
    /\ held = (u1 :> {"Users.AssignRoles", "Users.Edit"}) @@ (u2 :> {"Labs.Edit"})
    /\ active = User
    /\ Init

\* A bound: other writers only take away, and nobody gains the permission that only
\* the activity of users depends on.
Withdrawals ==
    /\ \A u \in User : "Users.Edit" \in held'[u] => "Users.Edit" \in held[u]
    /\ UNCHANGED pc =>
        /\ \A u \in User : held'[u] \subseteq held[u]
        /\ active' \subseteq active

MCSymmetry == Permutations(Request)

MCGateSpec == GateInit /\ [][Next /\ Withdrawals]_vars
=============================================================================
