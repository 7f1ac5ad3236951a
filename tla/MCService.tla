----------------------------- MODULE MCService -----------------------------
(* Instances of Service.  Each budget lets one part of it do a lot, or two *)
(* parts that interact do a little.                                        *)
EXTENDS Service, MCScoring, MCBloodHound

CONSTANTS s1, s2, l1, l2, q1, q2, v1, v2

Only(events) == [k \in Kinds |-> IF k \in DOMAIN events THEN events[k] ELSE 0]

MCBudgets == {
    Only([login |-> 2, admin |-> 2]),
    Only([login |-> 1, admin |-> 2, fault |-> 1]),
    Only([login |-> 1, admin |-> 1, cli |-> 1, fault |-> 1, restart |-> 1]),
    Only([login |-> 3, tick |-> 4]),
    Only([login |-> 1, admin |-> 1, request |-> 2, tick |-> 3]),
    Only([login |-> 1, token |-> 2, call |-> 2]),
    Only([login |-> 1, token |-> 2, call |-> 1, fault |-> 1, restart |-> 1]),
    Only([login |-> 1, store |-> 3, request |-> 2, fault |-> 1]),
    Only([login |-> 1, store |-> 2, request |-> 1, fault |-> 1, restart |-> 1]),
    Only([login |-> 1, store |-> 2, admin |-> 1, request |-> 1]),
    Only([login |-> 1, store |-> 2, token |-> 2, call |-> 1, fault |-> 1]),
    Only([login |-> 1, setting |-> 3, fault |-> 1, restart |-> 1]),
    Only([corpus |-> 2, score |-> 2, fault |-> 2]),
    Only([data |-> 5]),
    Only([bhe |-> 2, fault |-> 2]),
    Only([bhe |-> 2, fault |-> 1, restart |-> 1]),
    Only([corpus |-> 2, score |-> 2, restart |-> 1])
}

\* A login, and a change of a role while its session is open.
RoleBudgets == {Only([login |-> 2, admin |-> 1])}

MCSymmetry == Permutations(SessionIds) \cup Permutations(Logins) \cup Permutations(Requests)
                  \cup Permutations(Values)
=============================================================================
