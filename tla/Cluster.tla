------------------------------ MODULE Cluster ------------------------------
(***************************************************************************)
(* Cluster membership (src/database/cluster.go): every process writes its  *)
(* cluster_nodes row from the cluster_heartbeat task; liveness, primary    *)
(* and quorum are derived from the table by whoever reads it, without any  *)
(* message between nodes.                                                  *)
(*                                                                         *)
(* Only differences of times matter, so a row keeps the AGE of last_seen,  *)
(* which the clock advances up to Cap; no bound on the clock is needed.    *)
(***************************************************************************)
EXTENDS Integers, FiniteSets

CONSTANTS
    Procs,             \* server processes sharing one server.db
    Host,              \* Host[p]: the id NodeID gives p
    Marks,             \* the states an operator sets with MarkNodeState
    HeartbeatInterval,
    HeartbeatTimeout,
    HeartbeatOffline,
    PruneAfter,        \* age beyond which the caller of PruneNodes deletes rows
    WriteDelay,        \* how old a heartbeat's timestamp is when it is written
    MaxSilence         \* a running process beats at least this often

Ids == {Host[p] : p \in Procs}
States == {"healthy", "degraded", "offline", "removed", "stale"}
Cap == PruneAfter + 1

(* The timeout outlasts a dropped tick followed by a slow write, which is  *)
(* why it is three intervals.                                              *)
ASSUME ClusterAssumption ==
    /\ Host \in [Procs -> Nat \ {0}]
    /\ Marks \subseteq States
    /\ {HeartbeatInterval, HeartbeatTimeout, HeartbeatOffline, PruneAfter,
        WriteDelay, MaxSilence} \subseteq Nat
    /\ HeartbeatInterval <= HeartbeatTimeout
    /\ HeartbeatTimeout < HeartbeatOffline
    /\ HeartbeatOffline < PruneAfter
    /\ MaxSilence + WriteDelay < HeartbeatTimeout

VARIABLES
    rows,    \* cluster_nodes
    up,      \* the processes that run
    silent,  \* time since p last beat, or since it started or stopped
    beaten,  \* the processes that have beaten since they started
    retired  \* ids an operator removed and has not reinstated (history)

vars == <<rows, up, silent, beaten, retired>>

NoRow == [in |-> FALSE, state |-> "offline", age |-> 0]
Row(state, age) == [in |-> TRUE, state |-> state, age |-> age]
Older(age) == IF age < Cap THEN age + 1 ELSE Cap

-----------------------------------------------------------------------------
(* NodeID: hostname plus a suffix from app_secrets.  EnsureSecret gives    *)
(* every process on the database the same suffix (Secrets!Agreement), so   *)
(* ids differ exactly when hostnames do.                                   *)
NodeID(p) == Host[p]

(* Mutant: the timeout is a single heartbeat interval.                     *)
NodeStateHasty(age) ==
    IF age < HeartbeatInterval THEN "healthy"
    ELSE IF age < HeartbeatOffline THEN "degraded" ELSE "offline"

NodeState(age) ==
    IF age < HeartbeatTimeout THEN "healthy"
    ELSE IF age < HeartbeatOffline THEN "degraded" ELSE "offline"

EffectiveState(row) ==
    IF row.state \in {"removed", "stale"} THEN row.state ELSE NodeState(row.age)

HealthyNodes(table) == {i \in Ids : table[i].in /\ EffectiveState(table[i]) = "healthy"}

(* primaryNodeAt: the lowest healthy id, or none.                          *)
Primary(table) ==
    IF HealthyNodes(table) = {} THEN 0
    ELSE CHOOSE i \in HealthyNodes(table) : \A j \in HealthyNodes(table) : i <= j

(* Mutant: removed nodes stay in the denominator.                          *)
CountedAll(table) == {i \in Ids : table[i].in}

(* The denominator of HasQuorum.                                           *)
Counted(table) == {i \in Ids : table[i].in /\ EffectiveState(table[i]) # "removed"}

HasQuorum(table) ==
    /\ Counted(table) # {}
    /\ 2 * Cardinality(HealthyNodes(table)) > Cardinality(Counted(table))

-----------------------------------------------------------------------------
Init ==
    /\ rows = [i \in Ids |-> NoRow]
    /\ up = {}
    /\ silent = [p \in Procs |-> 0]
    /\ beaten = {}
    /\ retired = {}

Boot(p) ==
    /\ p \notin up
    /\ up' = up \cup {p}
    /\ silent' = [silent EXCEPT ![p] = 0]
    /\ UNCHANGED <<rows, beaten, retired>>

Halt(p) ==
    /\ p \in up
    /\ up' = up \ {p}
    /\ silent' = [silent EXCEPT ![p] = 0]
    /\ beaten' = beaten \ {p}
    /\ UNCHANGED <<rows, retired>>

(* Mutant: the upsert writes the state column as well.                     *)
HeartbeatClears(p) ==
    /\ p \in up
    /\ \E d \in 0..WriteDelay : rows' = [rows EXCEPT ![NodeID(p)] = Row("healthy", d)]
    /\ silent' = [silent EXCEPT ![p] = 0]
    /\ beaten' = beaten \cup {p}
    /\ UNCHANGED <<up, retired>>

(* Heartbeat: an upsert that refreshes last_seen and leaves the stored     *)
(* state alone.  The timestamp is taken before the statement is sent.      *)
Heartbeat(p) ==
    /\ p \in up
    /\ \E d \in 0..WriteDelay :
          rows' = [rows EXCEPT ![NodeID(p)] =
                     IF @.in THEN Row(@.state, d) ELSE Row("healthy", d)]
    /\ silent' = [silent EXCEPT ![p] = 0]
    /\ beaten' = beaten \cup {p}
    /\ UNCHANGED <<up, retired>>

(* MarkNodeState: an UPDATE, so nothing happens to an absent row.          *)
MarkNodeState(i, state) ==
    /\ rows[i].in
    /\ rows[i].state # state
    /\ rows' = [rows EXCEPT ![i].state = state]
    /\ retired' = IF state = "removed" THEN retired \cup {i} ELSE retired \ {i}
    /\ UNCHANGED <<up, silent, beaten>>

(* PruneNodes deletes by age alone.                                        *)
PruneNodes ==
    /\ \E i \in Ids : rows[i].in /\ rows[i].age > PruneAfter
    /\ rows' = [i \in Ids |-> IF rows[i].in /\ rows[i].age > PruneAfter
                              THEN NoRow ELSE rows[i]]
    /\ UNCHANGED <<up, silent, beaten, retired>>

(* Time passes.  A running process beats before it has been silent for     *)
(* MaxSilence: the scheduler runs cluster_heartbeat every                  *)
(* HeartbeatInterval, and MaxSilence allows for dropped ticks.             *)
Clock ==
    /\ \A p \in up : silent[p] < MaxSilence
    /\ rows' = [i \in Ids |-> IF rows[i].in
                              THEN Row(rows[i].state, Older(rows[i].age)) ELSE NoRow]
    /\ silent' = [p \in Procs |-> Older(silent[p])]
    /\ UNCHANGED <<up, beaten, retired>>

Next ==
    \/ Clock
    \/ PruneNodes
    \/ \E p \in Procs : Boot(p) \/ Halt(p) \/ Heartbeat(p)
    \/ \E i \in Ids, s \in Marks : MarkNodeState(i, s)

Spec == Init /\ [][Next]_vars

(* Time does not stop, and the heartbeat task of a running process is run. *)
Fairness ==
    /\ WF_vars(Clock)
    /\ \A p \in Procs : WF_vars(Heartbeat(p))

-----------------------------------------------------------------------------
(* Type invariant.                                                         *)
TypeOK ==
    /\ rows \in [Ids -> {NoRow} \cup [in : {TRUE}, state : States, age : 0..Cap]]
    /\ up \subseteq Procs
    /\ silent \in [Procs -> 0..Cap]
    /\ beaten \subseteq up
    /\ retired \subseteq Ids

(* A node that has been down for HeartbeatTimeout is not primary: a crash  *)
(* is noticed from the table alone (NodeState's comment).                  *)
DeadNotPrimary ==
    \A i \in Ids :
        (\A p \in Procs : NodeID(p) = i =>
            p \notin up /\ silent[p] >= HeartbeatTimeout)
        => Primary(rows) # i

(* HeartbeatTimeout's comment: "a single slow write or one dropped tick    *)
(* never demotes a working node".                                          *)
WorkingNotDemoted ==
    \A p \in beaten :
        rows[NodeID(p)].in /\ rows[NodeID(p)].state \notin {"removed", "stale"}
            => EffectiveState(rows[NodeID(p)]) = "healthy"

(* Only an operator clears a sticky mark: no heartbeat of the marked node  *)
(* does, and a marked node is not elected while its row exists.            *)
MarksAreSticky ==
    [][\A i \in Ids :
         rows[i].in /\ rows[i].state \in {"removed", "stale"} /\ rows'[i].in =>
            \/ rows'[i].state = rows[i].state /\ Primary(rows') # i
            \/ \E s \in Marks : MarkNodeState(i, s)]_vars

(* What every reader of cluster_nodes may rely on in every state.          *)
MembershipSound == TypeOK /\ DeadNotPrimary /\ WorkingNotDemoted

(* NodeRemoved's comment: a decommissioned node "that is accidentally      *)
(* restarted does not silently rejoin": until MarkNodeState reinstates it, *)
(* it is not a healthy member.                                             *)
RemovedDoesNotRejoin == retired \cap HealthyNodes(rows) = {}

(* Membership has settled on the processes S, none of them marked.         *)
Settled(S) ==
    /\ up = S
    /\ \A p \in S : rows[NodeID(p)].state \notin {"removed", "stale"}

Members(S) == {NodeID(p) : p \in S}

(* When membership settles on S, the table elects the lowest id of S for   *)
(* good: every reader reaches the same primary without coordination.       *)
StableElection ==
    \A S \in SUBSET Procs \ {{}} :
        (<>[]Settled(S)) =>
            <>[](Primary(rows) \in Members(S) /\ \A p \in S : Primary(rows) <= NodeID(p))

(* HasQuorum's comment: decommissioned nodes do not "hold the surviving    *)
(* cluster below quorum forever": once every other known node is removed,  *)
(* the survivors have quorum for good.                                     *)
SurvivorsRegainQuorum ==
    \A S \in SUBSET Procs \ {{}} :
        (<>[](Settled(S) /\ \A i \in Ids \ Members(S) :
                                rows[i].in => rows[i].state = "removed"))
            => <>[]HasQuorum(rows)

(* Once membership settles, so do the primary and the quorum.              *)
MembershipSettles == StableElection /\ SurvivorsRegainQuorum
=============================================================================
