------------------------------- MODULE MCJobs -------------------------------
(* Model-checking instances of Jobs: one job after the other over one      *)
(* account, one job with a pool over two.                                  *)
EXTENDS Jobs

CONSTANTS u1, u2, w1, w2

Overtaking == [runs |-> 2, users |-> {u1}, workers |-> {w1}]
Pooled     == [runs |-> 1, users |-> {u1, u2}, workers |-> {w1, w2}]

MCSizes   == {Overtaking, Pooled}
OneWorker == {[Pooled EXCEPT !.workers = {w1}]}

=============================================================================
