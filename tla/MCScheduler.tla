---------------------------- MODULE MCScheduler ----------------------------
(* Instances of Scheduler for TLC.                                         *)
EXTENDS Scheduler, TLC

CONSTANTS n1, n2, cron, every

(* The cron task runs at 2, 4, ...; the "@every" task one unit after it    *)
(* last began, so the two drift apart.                                     *)
MCEvery == [t \in Tasks |-> IF t = cron THEN 2 ELSE 1]

(* The same cron task due at every instant: leases, catch-up window and    *)
(* several occurrences all fit into a short clock.                         *)
MCEveryUnit == [t \in Tasks |-> 1]

(* ran and history are never read by an action: a run whose properties do  *)
(* not mention them need not tell states apart by them.                    *)
ControlView == <<now, rows, locks, proc, memory, pc, faults>>

NodeSymmetry == Permutations({n1, n2})
=============================================================================
