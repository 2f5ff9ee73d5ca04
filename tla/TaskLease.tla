----------------------------- MODULE TaskLease -----------------------------
(***************************************************************************)
(* What a lease on a cluster-aware task promises (src/scheduler/lock.go:   *)
(* nodes racing for the same task "can never both win"): of the nodes      *)
(* within the term of a lease they were granted, at most one is inside the *)
(* task.  A node enters a task nobody is inside of; nodes leave, crash or  *)
(* outlive their term, any number of them at once.                         *)
(***************************************************************************)
CONSTANTS Nodes, Tasks

VARIABLE inside \* inside[t]: the nodes inside t within their term

Init == inside = [t \in Tasks |-> {}]

Enter(n, t) ==
    /\ inside[t] = {}
    /\ inside' = [inside EXCEPT ![t] = {n}]

Lapse ==
    /\ inside' \in [Tasks -> SUBSET Nodes]
    /\ \A t \in Tasks : inside'[t] \subseteq inside[t]

Next == Lapse \/ \E n \in Nodes, t \in Tasks : Enter(n, t)

Spec == Init /\ [][Next]_inside
=============================================================================
