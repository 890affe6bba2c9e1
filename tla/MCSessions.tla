------------------------------ MODULE MCSessions ------------------------------
(* Small instances of Sessions for TLC.                                      *)
EXTENDS Sessions, TLC

CONSTANTS u1, u2, u3, a1, a2, s1, s2, s3, s4

LiveRow(a) == [google |-> a, active |-> TRUE, deleted |-> FALSE]

\* One user with a session that is still good.
OneInit ==
    /\ users = (u1 :> LiveRow(a1))
    /\ sessions = (s1 :> [user |-> u1, left |-> TTL])
    /\ Init
OneFairSpec == OneInit /\ [][Next]_vars /\ Fairness

\* Nobody has signed in yet.
EmptyInit ==
    /\ users = [u \in {} |-> LiveRow(a1)]
    /\ sessions = [s \in {} |-> [user |-> u1, left |-> 0]]
    /\ Init
EmptySpec == EmptyInit /\ [][Next]_vars

\* Nothing in an empty database tells users, session ids or requests apart.
MCSymmetry ==
    Permutations(Request) \cup Permutations(Sid) \cup Permutations(User)
=============================================================================
