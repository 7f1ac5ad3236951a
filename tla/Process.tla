------------------------------ MODULE Process ------------------------------
(***************************************************************************)
(* The patd process that the service's components share: the clock they    *)
(* read and whether the process is up.  A budget bounds how often each     *)
(* kind of event happens; a behaviour picks one of several budgets, so     *)
(* that one run can look closely at each part of the service and at some   *)
(* of their combinations without multiplying everything by everything.     *)
(***************************************************************************)
EXTENDS Integers

CONSTANT Budgets    \* bound: the budgets a behaviour may start with

Kinds == {"login", "admin", "cli", "token", "call", "request", "setting",
          "store", "corpus", "score", "data", "bhe", "fault", "restart", "tick"}

ASSUME ProcessAssumption == Budgets \subseteq [Kinds -> Nat]

VARIABLES
    now,        \* the wall clock, in ticks of some minutes
    up,         \* the server is running
    budget      \* budget[k]: events of kind k still to come

process == <<now, up, budget>>

ProcessInit ==
    /\ now = 0
    /\ up = TRUE
    /\ budget \in Budgets

ProcessTypeOK ==
    /\ now \in Nat
    /\ up \in BOOLEAN
    /\ budget \in [Kinds -> Nat]

Spend(kinds) ==
    /\ \A k \in kinds : budget[k] > 0
    /\ budget' = [k \in Kinds |-> IF k \in kinds THEN budget[k] - 1 ELSE budget[k]]

\* A step of the running server, with nothing or with some budget spent.
Serves == up /\ UNCHANGED process
Takes(kinds) == up /\ Spend(kinds) /\ UNCHANGED <<now, up>>

\* A command typed at a shell, whether the server runs or not.
Shell(kinds) == Spend(kinds) /\ UNCHANGED <<now, up>>

\* The clock goes on.
Pass ==
    /\ Spend({"tick"})
    /\ now' = now + 1
    /\ UNCHANGED up

\* The process stops, by a crash or a shutdown, and starts again.
Halt ==
    /\ up
    /\ up' = FALSE
    /\ Spend({"restart"})
    /\ UNCHANGED now

Boot ==
    /\ ~up
    /\ up' = TRUE
    /\ UNCHANGED <<now, budget>>

=============================================================================
