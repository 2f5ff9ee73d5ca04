------------------------------- MODULE MCNode -------------------------------
(***************************************************************************)
(* The parts of a node that must make progress, for TLC: cluster           *)
(* membership, the start and stop of the server, the overlay networks.     *)
(* A behaviour runs one part, chosen at the start, and leaves the others   *)
(* in their initial state.                                                 *)
(***************************************************************************)
EXTENDS Cluster, Lifecycle, Overlay

CONSTANT Parts \* the parts a run lets behaviours choose from

VARIABLE part

MCHost == [p \in Procs |-> p]

nodeVars == <<part, vars, lifecycleVars, overlayVars>>

NodeInit ==
    /\ part \in Parts
    /\ Init /\ LifecycleInit /\ OverlayInit
    /\ part # "overlay" => ovNet = "tor"

NodeNext ==
    /\ \/ part = "cluster" /\ Next /\ UNCHANGED <<lifecycleVars, overlayVars>>
       \/ part = "lifecycle" /\ LifecycleNext /\ UNCHANGED <<vars, overlayVars>>
       \/ part = "overlay" /\ OverlayNext /\ UNCHANGED <<vars, lifecycleVars>>
    /\ UNCHANGED part

(* The fairness of the part that runs.  Nothing of a server that is off,   *)
(* nor of a manager that was never started, is enabled; the clock of a     *)
(* cluster is.                                                             *)
NodeFairness ==
    /\ part = "cluster" => Fairness
    /\ LifecycleFairness
    /\ OverlayFairness

NodeSpec == NodeInit /\ [][NodeNext]_nodeVars /\ NodeFairness
=============================================================================
