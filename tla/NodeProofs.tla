----------------------------- MODULE NodeProofs -----------------------------
(***************************************************************************)
(* Proofs about the membership of a cluster, the life of a server process  *)
(* and the overlay services it owns, for any processes, hosts and timeouts.*)
(***************************************************************************)
EXTENDS Cluster, Lifecycle, Overlay, WellFoundedInduction, TLAPS

-----------------------------------------------------------------------------
(* Cluster membership.                                                     *)
(*                                                                         *)
(* DeadNotPrimary and WorkingNotDemoted compare the age of a row with the  *)
(* life of the processes behind it, so the invariant ties the two: a row   *)
(* nobody refreshes is as old as the silence of one of its processes, and  *)
(* the row of a process that has beaten is not older than the silence of   *)
(* that process and one slow write.                                        *)

Unattended(i) == \A p \in Procs : NodeID(p) = i => p \notin up

AgedAsSilent ==
    \A i \in Ids : rows[i].in /\ Unattended(i) =>
        \E p \in Procs : NodeID(p) = i /\ silent[p] <= rows[i].age

FreshAsBeaten ==
    \A p \in beaten :
        /\ silent[p] <= MaxSilence
        /\ rows[NodeID(p)].in => rows[NodeID(p)].age <= silent[p] + WriteDelay

ClusterInv == TypeOK /\ AgedAsSilent /\ FreshAsBeaten

(* Every non-empty set of ids has a least one: the election of             *)
(* primaryNodeAt is well defined whenever somebody is healthy.             *)
LEMMA LeastExists ==
    ASSUME NEW S \in SUBSET Nat, S # {}
    PROVE  \E x \in S : \A y \in S : x <= y
<1> DEFINE R == {ss \in Nat \X Nat : ss[1] < ss[2]}
<1>1. \E x \in S : \A y \in S : ~(<<y, x>> \in R)
  <2>1. IsWellFoundedOn(R, Nat)
    BY NatLessThanWellFounded DEF OpToRel
  <2> HIDE DEF R
  <2> QED
    BY <2>1, WFMin
<1>2. ASSUME NEW x \in S, NEW y \in S, ~(<<y, x>> \in R) PROVE x <= y
  BY <1>2
<1> QED
  BY <1>1, <1>2

(* The primary is a healthy node, or nobody is.                            *)
LEMMA PrimaryIsHealthy ==
    ASSUME NEW table, Primary(table) # 0
    PROVE  Primary(table) \in HealthyNodes(table)
<1> DEFINE H == HealthyNodes(table)
<1>1. H # {} /\ Primary(table) = CHOOSE i \in H : \A j \in H : i <= j
  BY DEF Primary
<1>2. H \subseteq Nat
  BY ClusterAssumption DEF HealthyNodes, Ids
<1>3. \E i \in H : \A j \in H : i <= j
  BY <1>1, <1>2, LeastExists
<1> QED
  BY <1>1, <1>3

LEMMA AgeType ==
    ASSUME NEW a \in 0..Cap
    PROVE  Older(a) \in 0..Cap /\ a <= Older(a)
BY ClusterAssumption DEF Older, Cap

LEMMA OlderKeepsOrder ==
    ASSUME NEW a \in 0..Cap, NEW b \in 0..Cap, a <= b
    PROVE  Older(a) <= Older(b)
BY ClusterAssumption DEF Older, Cap

StoredRow == [in : {TRUE}, state : States, age : 0..Cap]

(* What the two kinds of entries of the table look like.                   *)
LEMMA RowKinds ==
    /\ ~NoRow.in
    /\ \A r \in StoredRow : r.in /\ r.in = TRUE /\ r.state \in States /\ r.age \in 0..Cap
    /\ \A s \in States, d \in 0..Cap :
          Row(s, d) \in StoredRow /\ Row(s, d).in /\ Row(s, d).state = s /\ Row(s, d).age = d
<1>1. ~NoRow.in
  BY DEF NoRow
<1>2. \A r \in StoredRow : r.in /\ r.in = TRUE /\ r.state \in States /\ r.age \in 0..Cap
  BY DEF StoredRow
<1>3. \A s \in States, d \in 0..Cap :
          Row(s, d) \in StoredRow /\ Row(s, d).in /\ Row(s, d).state = s /\ Row(s, d).age = d
  BY DEF StoredRow, Row
<1> QED
  BY <1>1, <1>2, <1>3

LEMMA RowsAre ==
    ASSUME TypeOK, NEW i \in Ids
    PROVE  /\ rows[i] = NoRow \/ rows[i] \in StoredRow
           /\ rows[i].in => rows[i] \in StoredRow
           /\ ~rows[i].in => rows[i] = NoRow
<1>1. rows[i] = NoRow \/ rows[i] \in StoredRow
  BY DEF TypeOK, StoredRow
<1> QED
  BY <1>1, RowKinds

LEMMA Ages ==
    /\ {HeartbeatInterval, HeartbeatTimeout, HeartbeatOffline, PruneAfter, WriteDelay, MaxSilence} \subseteq Nat
    /\ Cap \in Nat /\ HeartbeatTimeout < Cap /\ MaxSilence + WriteDelay < HeartbeatTimeout
    /\ \A p \in Procs : NodeID(p) \in Ids
    /\ Marks \subseteq States
    /\ "healthy" \in States
    /\ 0..WriteDelay \subseteq 0..Cap
BY ClusterAssumption DEF Cap, Ids, NodeID, States

LEMMA InitCluster == Init => ClusterInv
<1> SUFFICES ASSUME Init PROVE ClusterInv
  OBVIOUS
<1>1. TypeOK
  BY Ages DEF Init, TypeOK
<1>2. AgedAsSilent
  BY RowKinds DEF Init, AgedAsSilent
<1>3. FreshAsBeaten
  BY DEF Init, FreshAsBeaten
<1> QED
  BY <1>1, <1>2, <1>3 DEF ClusterInv

(* Steps that leave the table alone, or only let rows go.                  *)
LEMMA FewerRows ==
    ASSUME ClusterInv, \A i \in Ids : rows'[i].in => rows[i].in /\ rows'[i].age = rows[i].age,
           UNCHANGED <<up, silent, beaten>>
    PROVE  AgedAsSilent' /\ FreshAsBeaten'
<1>1. AgedAsSilent'
  BY DEF ClusterInv, AgedAsSilent, Unattended
<1>2. FreshAsBeaten'
  <2> SUFFICES ASSUME NEW p \in beaten
               PROVE  /\ silent[p] <= MaxSilence
                      /\ rows'[NodeID(p)].in => rows'[NodeID(p)].age <= silent[p] + WriteDelay
    BY DEF FreshAsBeaten
  <2>1. NodeID(p) \in Ids
    BY Ages DEF ClusterInv, TypeOK
  <2> QED
    BY <2>1 DEF ClusterInv, FreshAsBeaten
<1> QED
  BY <1>1, <1>2

LEMMA BootKeepsCluster ==
    ASSUME ClusterInv, NEW p \in Procs, Boot(p)
    PROVE  ClusterInv'
<1>1. TypeOK'
  <2>1. silent' \in [Procs -> 0..Cap]
    BY Ages DEF Boot, ClusterInv, TypeOK
  <2>2. up' \subseteq Procs /\ beaten' \subseteq up'
    BY DEF Boot, ClusterInv, TypeOK
  <2> QED
    BY <2>1, <2>2 DEF Boot, ClusterInv, TypeOK
<1>2. AgedAsSilent'
  <2> SUFFICES ASSUME NEW i \in Ids, rows'[i].in, Unattended(i)'
               PROVE  \E q \in Procs : NodeID(q) = i /\ silent'[q] <= rows'[i].age
    BY DEF AgedAsSilent
  <2>1. Unattended(i) /\ NodeID(p) # i
    BY DEF Boot, Unattended
  <2>2. PICK q \in Procs : NodeID(q) = i /\ silent[q] <= rows[i].age
    BY <2>1 DEF Boot, ClusterInv, AgedAsSilent
  <2>3. silent'[q] = silent[q]
    BY <2>1, <2>2 DEF Boot, ClusterInv, TypeOK
  <2> QED
    BY <2>2, <2>3 DEF Boot
<1>3. FreshAsBeaten'
  <2>1. \A q \in beaten : silent'[q] = silent[q]
    BY DEF Boot, ClusterInv, TypeOK
  <2> QED
    BY <2>1 DEF Boot, ClusterInv, FreshAsBeaten
<1> QED
  BY <1>1, <1>2, <1>3 DEF ClusterInv

LEMMA HaltKeepsCluster ==
    ASSUME ClusterInv, NEW p \in Procs, Halt(p)
    PROVE  ClusterInv'
<1>1. TypeOK'
  <2>1. silent' \in [Procs -> 0..Cap]
    BY Ages DEF Halt, ClusterInv, TypeOK
  <2>2. up' \subseteq Procs /\ beaten' \subseteq up'
    BY DEF Halt, ClusterInv, TypeOK
  <2> QED
    BY <2>1, <2>2 DEF Halt, ClusterInv, TypeOK
<1>2. AgedAsSilent'
  <2> SUFFICES ASSUME NEW i \in Ids, rows'[i].in, Unattended(i)'
               PROVE  \E q \in Procs : NodeID(q) = i /\ silent'[q] <= rows'[i].age
    BY DEF AgedAsSilent
  <2>1. CASE NodeID(p) = i
    <3>1. rows'[i].age \in 0..Cap
      BY RowsAre, RowKinds DEF Halt, ClusterInv
    <3>2. silent'[p] = 0
      BY DEF Halt, ClusterInv, TypeOK
    <3> QED
      BY <2>1, <3>1, <3>2, Ages
  <2>2. CASE NodeID(p) # i
    <3>1. Unattended(i)
      BY <2>2 DEF Halt, Unattended
    <3>2. PICK q \in Procs : NodeID(q) = i /\ silent[q] <= rows[i].age
      BY <3>1 DEF Halt, ClusterInv, AgedAsSilent
    <3>3. silent'[q] = silent[q]
      BY <2>2, <3>2 DEF Halt, ClusterInv, TypeOK
    <3> QED
      BY <3>2, <3>3 DEF Halt
  <2> QED
    BY <2>1, <2>2
<1>3. FreshAsBeaten'
  <2>1. \A q \in beaten' : q \in beaten /\ silent'[q] = silent[q]
    BY DEF Halt, ClusterInv, TypeOK
  <2> QED
    BY <2>1 DEF Halt, ClusterInv, FreshAsBeaten
<1> QED
  BY <1>1, <1>2, <1>3 DEF ClusterInv

LEMMA HeartbeatKeepsCluster ==
    ASSUME ClusterInv, NEW p \in Procs, Heartbeat(p)
    PROVE  ClusterInv'
<1>1. PICK d \in 0..WriteDelay :
        rows' = [rows EXCEPT ![NodeID(p)] =
                   IF @.in THEN Row(@.state, d) ELSE Row("healthy", d)]
  BY DEF Heartbeat
<1>2. NodeID(p) \in Ids /\ d \in 0..Cap /\ TypeOK
  BY Ages DEF ClusterInv
<1>3. rows'[NodeID(p)] \in StoredRow /\ rows'[NodeID(p)].age = d
  <2>1. CASE rows[NodeID(p)].in
    <3>1. rows[NodeID(p)].state \in States
      BY <1>2, <2>1, RowsAre, RowKinds
    <3>2. rows'[NodeID(p)] = Row(rows[NodeID(p)].state, d)
      BY <1>1, <1>2, <2>1 DEF TypeOK
    <3> QED
      BY <1>2, <3>1, <3>2, RowKinds
  <2>2. CASE ~rows[NodeID(p)].in
    BY <1>1, <1>2, <2>2, RowKinds, Ages DEF TypeOK
  <2> QED
    BY <2>1, <2>2
<1>4. \A i \in Ids : i # NodeID(p) => rows'[i] = rows[i]
  BY <1>1, <1>2 DEF TypeOK
<1>5. TypeOK'
  <2>1. rows' \in [Ids -> {NoRow} \cup StoredRow]
    <3>1. \A i \in Ids : rows'[i] \in {NoRow} \cup StoredRow
      BY <1>2, <1>3, <1>4, RowsAre
    <3>2. rows' = [i \in Ids |-> rows'[i]]
      BY <1>1, <1>2 DEF TypeOK
    <3> QED
      BY <3>1, <3>2
  <2>2. silent' \in [Procs -> 0..Cap]
    BY Ages DEF Heartbeat, ClusterInv, TypeOK
  <2>3. up' \subseteq Procs /\ beaten' \subseteq up'
    BY DEF Heartbeat, ClusterInv, TypeOK
  <2> QED
    BY <1>2, <2>1, <2>2, <2>3 DEF Heartbeat, TypeOK, StoredRow
<1>6. AgedAsSilent'
  <2> SUFFICES ASSUME NEW i \in Ids, rows'[i].in, Unattended(i)'
               PROVE  \E q \in Procs : NodeID(q) = i /\ silent'[q] <= rows'[i].age
    BY DEF AgedAsSilent
  <2>1. NodeID(p) # i /\ Unattended(i)
    BY DEF Heartbeat, Unattended
  <2>2. PICK q \in Procs : NodeID(q) = i /\ silent[q] <= rows[i].age
    BY <1>4, <2>1 DEF ClusterInv, AgedAsSilent
  <2>3. silent'[q] = silent[q]
    BY <2>1, <2>2 DEF Heartbeat, ClusterInv, TypeOK
  <2> QED
    BY <1>4, <2>1, <2>2, <2>3
<1>7. FreshAsBeaten'
  <2> SUFFICES ASSUME NEW q \in beaten'
               PROVE  /\ silent'[q] <= MaxSilence
                      /\ rows'[NodeID(q)].in => rows'[NodeID(q)].age <= silent'[q] + WriteDelay
    BY DEF FreshAsBeaten
  <2>1. q \in Procs /\ silent'[q] \in 0..Cap
    BY <1>5 DEF TypeOK
  <2>2. q = p => silent'[q] = 0
    BY DEF Heartbeat, ClusterInv, TypeOK
  <2>3. q # p => q \in beaten /\ silent'[q] = silent[q]
    BY <2>1 DEF Heartbeat, ClusterInv, TypeOK
  <2>4. silent'[q] <= MaxSilence
    BY <2>2, <2>3, Ages DEF ClusterInv, FreshAsBeaten
  <2>5. CASE NodeID(q) = NodeID(p)
    BY <1>1, <1>3, <2>1, <2>4, <2>5, Ages
  <2>6. CASE NodeID(q) # NodeID(p)
    BY <1>4, <2>1, <2>3, <2>4, <2>6, Ages DEF ClusterInv, FreshAsBeaten
  <2> QED
    BY <2>5, <2>6
<1> QED
  BY <1>5, <1>6, <1>7 DEF ClusterInv

LEMMA MarkKeepsCluster ==
    ASSUME ClusterInv, NEW i \in Ids, NEW s \in Marks, MarkNodeState(i, s)
    PROVE  ClusterInv'
<1>0. TypeOK /\ s \in States
  BY Ages DEF ClusterInv
<1>1. rows'[i] \in StoredRow /\ rows'[i].age = rows[i].age
  <2>1. rows[i] \in StoredRow /\ rows[i].in
    BY <1>0, RowsAre DEF MarkNodeState
  <2>2. rows'[i] = [rows[i] EXCEPT !.state = s]
    BY <1>0 DEF MarkNodeState, TypeOK
  <2> QED
    BY <1>0, <2>1, <2>2 DEF StoredRow
<1>2. \A j \in Ids : j # i => rows'[j] = rows[j]
  BY <1>0 DEF MarkNodeState, TypeOK
<1>3. rows' \in [Ids -> {NoRow} \cup StoredRow]
  <2>1. \A j \in Ids : rows'[j] \in {NoRow} \cup StoredRow
    BY <1>0, <1>1, <1>2, RowsAre
  <2>2. rows' = [j \in Ids |-> rows'[j]]
    BY <1>0 DEF MarkNodeState, TypeOK
  <2> QED
    BY <2>1, <2>2
<1>4. TypeOK'
  <2>1. retired' \subseteq Ids
    BY <1>0 DEF MarkNodeState, TypeOK
  <2> QED
    BY <1>0, <1>3, <2>1 DEF MarkNodeState, TypeOK, StoredRow
<1>5. \A j \in Ids : rows'[j].in => rows[j].in /\ rows'[j].age = rows[j].age
  BY <1>1, <1>2 DEF MarkNodeState
<1> QED
  BY <1>4, <1>5, FewerRows DEF ClusterInv, MarkNodeState

LEMMA PruneKeepsCluster ==
    ASSUME ClusterInv, PruneNodes
    PROVE  ClusterInv'
<1>1. \A j \in Ids : rows'[j].in => rows[j].in /\ rows'[j].age = rows[j].age
  BY RowKinds DEF PruneNodes
<1>2. TypeOK'
  <2>1. rows' \in [Ids -> {NoRow} \cup StoredRow]
    BY RowsAre DEF PruneNodes, ClusterInv
  <2> QED
    BY <2>1 DEF PruneNodes, ClusterInv, TypeOK, StoredRow
<1> QED
  BY <1>1, <1>2, FewerRows DEF ClusterInv, PruneNodes

LEMMA ClockKeepsCluster ==
    ASSUME ClusterInv, Clock
    PROVE  ClusterInv'
<1>0. TypeOK
  BY DEF ClusterInv
<1>1. \A j \in Ids : rows[j].in =>
         /\ rows[j].age \in 0..Cap
         /\ rows'[j] \in StoredRow /\ rows'[j].in /\ rows'[j].age = Older(rows[j].age)
  BY <1>0, RowsAre, RowKinds, AgeType DEF Clock
<1>2. \A j \in Ids : ~rows[j].in => rows'[j] = NoRow
  BY DEF Clock
<1>3. \A q \in Procs : /\ silent[q] \in 0..Cap /\ silent'[q] \in 0..Cap
                       /\ silent'[q] = Older(silent[q])
  BY <1>0, AgeType DEF Clock, TypeOK
<1>4. TypeOK'
  <2>1. rows' \in [Ids -> {NoRow} \cup StoredRow]
    <3>1. \A j \in Ids : rows'[j] \in {NoRow} \cup StoredRow
      BY <1>1, <1>2
    <3>2. rows' = [j \in Ids |-> rows'[j]]
      BY DEF Clock
    <3> QED
      BY <3>1, <3>2
  <2>2. silent' \in [Procs -> 0..Cap]
    <3>1. silent' = [q \in Procs |-> silent'[q]]
      BY DEF Clock
    <3> QED
      BY <1>3, <3>1
  <2> QED
    BY <1>0, <2>1, <2>2 DEF Clock, TypeOK, StoredRow
<1>5. AgedAsSilent'
  <2> SUFFICES ASSUME NEW i \in Ids, rows'[i].in, Unattended(i)'
               PROVE  \E q \in Procs : NodeID(q) = i /\ silent'[q] <= rows'[i].age
    BY DEF AgedAsSilent
  <2>1. rows[i].in
    BY <1>2, RowKinds
  <2>2. PICK q \in Procs : NodeID(q) = i /\ silent[q] <= rows[i].age
    BY <2>1 DEF Clock, ClusterInv, AgedAsSilent, Unattended
  <2>3. silent'[q] <= rows'[i].age
    BY <1>1, <1>3, <2>1, <2>2, OlderKeepsOrder
  <2> QED
    BY <2>2, <2>3
<1>6. FreshAsBeaten'
  <2> SUFFICES ASSUME NEW q \in beaten'
               PROVE  /\ silent'[q] <= MaxSilence
                      /\ rows'[NodeID(q)].in => rows'[NodeID(q)].age <= silent'[q] + WriteDelay
    BY DEF FreshAsBeaten
  <2>1. q \in beaten /\ q \in up /\ q \in Procs
    BY <1>0 DEF Clock, TypeOK
  <2>2. silent[q] \in 0..Cap /\ silent[q] < MaxSilence /\ NodeID(q) \in Ids
    BY <1>3, <2>1, Ages DEF Clock
  <2>3. silent'[q] = silent[q] + 1
    BY <1>3, <2>1, <2>2, Ages DEF Older
  <2>4. ASSUME rows'[NodeID(q)].in PROVE rows'[NodeID(q)].age <= silent'[q] + WriteDelay
    <3>1. rows[NodeID(q)].in
      BY <1>2, <2>2, <2>4, RowKinds
    <3>2. rows[NodeID(q)].age <= silent[q] + WriteDelay /\ rows[NodeID(q)].age \in 0..Cap
      BY <1>1, <2>1, <2>2, <3>1 DEF ClusterInv, FreshAsBeaten
    <3>3. Older(rows[NodeID(q)].age) <= rows[NodeID(q)].age + 1 /\ Older(rows[NodeID(q)].age) \in Nat
      BY <3>2, Ages DEF Older
    <3>4. rows'[NodeID(q)].age = Older(rows[NodeID(q)].age)
      BY <1>1, <2>2, <3>1
    <3> QED
      BY <2>2, <2>3, <3>2, <3>3, <3>4, Ages
  <2> QED
    BY <2>2, <2>3, <2>4, Ages
<1> QED
  BY <1>4, <1>5, <1>6 DEF ClusterInv

LEMMA StepCluster == ClusterInv /\ [Next]_vars => ClusterInv'
<1> SUFFICES ASSUME ClusterInv, [Next]_vars PROVE ClusterInv'
  OBVIOUS
<1>1. CASE UNCHANGED vars
  BY <1>1 DEF vars, ClusterInv, TypeOK, AgedAsSilent, FreshAsBeaten, Unattended
<1> QED
  BY <1>1, BootKeepsCluster, HaltKeepsCluster, HeartbeatKeepsCluster, MarkKeepsCluster,
     PruneKeepsCluster, ClockKeepsCluster DEF Next

LEMMA ClusterInvariant == Spec => []ClusterInv
<1> QED
  BY InitCluster, StepCluster, PTL DEF Spec

(* What every reader of cluster_nodes may rely on: a node down for         *)
(* HeartbeatTimeout is not primary, and one dropped tick with a slow write *)
(* never demotes a working node.                                           *)
THEOREM MembershipIsSound == Spec => []MembershipSound
<1>1. ASSUME ClusterInv PROVE DeadNotPrimary
  <2> SUFFICES ASSUME NEW i \in Ids, Primary(rows) = i,
                      \A p \in Procs : NodeID(p) = i => p \notin up /\ silent[p] >= HeartbeatTimeout
               PROVE  FALSE
    BY DEF DeadNotPrimary
  <2>1. i # 0
    BY ClusterAssumption DEF Ids
  <2>2. rows[i].in /\ EffectiveState(rows[i]) = "healthy"
    BY <2>1, PrimaryIsHealthy DEF HealthyNodes
  <2>3. PICK p \in Procs : NodeID(p) = i /\ silent[p] <= rows[i].age
    BY <1>1, <2>2 DEF ClusterInv, AgedAsSilent, Unattended
  <2>4. rows[i].age \in 0..Cap /\ silent[p] \in 0..Cap /\ HeartbeatTimeout \in Nat /\ Cap \in Nat
    BY <1>1, <2>2, RowsAre, RowKinds, Ages DEF ClusterInv, TypeOK
  <2>5. rows[i].age >= HeartbeatTimeout
    BY <2>3, <2>4
  <2> QED
    BY <2>2, <2>4, <2>5 DEF EffectiveState, NodeState
<1>2. ASSUME ClusterInv PROVE WorkingNotDemoted
  <2> SUFFICES ASSUME NEW p \in beaten, rows[NodeID(p)].in,
                      rows[NodeID(p)].state \notin {"removed", "stale"}
               PROVE  NodeState(rows[NodeID(p)].age) = "healthy"
    BY DEF WorkingNotDemoted, EffectiveState
  <2>1. NodeID(p) \in Ids /\ silent[p] \in 0..Cap
    BY <1>2, Ages DEF ClusterInv, TypeOK
  <2>2. rows[NodeID(p)].age \in 0..Cap
    BY <1>2, <2>1, RowsAre, RowKinds DEF ClusterInv
  <2>3. rows[NodeID(p)].age <= silent[p] + WriteDelay /\ silent[p] <= MaxSilence
    BY <1>2 DEF ClusterInv, FreshAsBeaten
  <2> QED
    BY <2>1, <2>2, <2>3, Ages DEF NodeState
<1>3. ClusterInv => MembershipSound
  BY <1>1, <1>2 DEF MembershipSound, ClusterInv
<1> QED
  BY <1>3, ClusterInvariant, PTL

(* Only an operator clears a sticky mark, and a node that carries one is   *)
(* not elected.                                                            *)
THEOREM MarksStick == Spec => MarksAreSticky
<1> DEFINE Sticky ==
      \A i \in Ids :
         rows[i].in /\ rows[i].state \in {"removed", "stale"} /\ rows'[i].in =>
            \/ rows'[i].state = rows[i].state /\ Primary(rows') # i
            \/ \E s \in Marks : MarkNodeState(i, s)
<1>1. ASSUME TypeOK, [Next]_vars PROVE Sticky
  <2> SUFFICES ASSUME NEW i \in Ids, rows[i].in, rows[i].state \in {"removed", "stale"}, rows'[i].in,
                      \A s \in Marks : ~MarkNodeState(i, s)
               PROVE  rows'[i].state = rows[i].state /\ Primary(rows') # i
    OBVIOUS
  <2>1. rows'[i].state = rows[i].state
    <3> USE <1>1 DEF TypeOK
    <3>0. rows[i] \in StoredRow
      BY RowsAre
    <3>1. CASE Clock
      BY <3>0, <3>1, RowKinds, AgeType DEF Clock
    <3>2. CASE PruneNodes
      BY <3>2, RowKinds DEF PruneNodes
    <3>3. ASSUME NEW p \in Procs, Boot(p) \/ Halt(p) PROVE rows'[i].state = rows[i].state
      BY <3>3 DEF Boot, Halt
    <3>4. ASSUME NEW p \in Procs, Heartbeat(p) PROVE rows'[i].state = rows[i].state
      BY <3>0, <3>4, RowKinds, Ages DEF Heartbeat
    <3>5. ASSUME NEW j \in Ids, NEW s \in Marks, MarkNodeState(j, s) PROVE rows'[i].state = rows[i].state
      BY <3>5 DEF MarkNodeState
    <3>6. CASE UNCHANGED vars
      BY <3>6 DEF vars
    <3> QED
      BY <1>1, <3>1, <3>2, <3>3, <3>4, <3>5, <3>6 DEF Next
  <2>2. i \notin HealthyNodes(rows')
    BY <2>1 DEF HealthyNodes, EffectiveState
  <2>3. i # 0
    BY ClusterAssumption DEF Ids
  <2> QED
    BY <2>1, <2>2, <2>3, PrimaryIsHealthy
<1>2. TypeOK /\ [Next]_vars => [Sticky]_vars
  BY <1>1
<1>3. Spec => []TypeOK
  BY ClusterInvariant, PTL DEF ClusterInv
<1> QED
  BY <1>2, <1>3, PTL DEF Spec, MarksAreSticky
-----------------------------------------------------------------------------
(* The life of a process.                                                  *)
(*                                                                         *)
(* The invariant follows one process through its stages: what it may hold  *)
(* at each, that whoever serves or schedules has its stores open, which    *)
(* work may be left when a drain is over, and that the PID file names the  *)
(* process that wrote it until somebody raced it.  Processes meet only in  *)
(* the ports and the PID file.                                             *)

LifecycleSpec == LifecycleInit /\ [][LifecycleNext]_lifecycleVars

Unbound == {"log", "pidcheck", "pidstale", "pidwrite", "config", "databases", "http"}
Serving == {"overlays", "scheduler", "token", "up"}

HoldsInOrder(p) ==
    /\ "log" \in holding[p] => stage[p] \notin {"off", "log"}
    /\ "pid" \in holding[p] =>
          stage[p] \notin {"off", "log", "pidcheck", "pidstale", "pidwrite", "closelog"}
    /\ \A r \in StoreHandles \cup {"geoip"} : r \in holding[p] =>
          stage[p] \in {"http"} \cup Serving \cup {"stopsched", "stopoverlays", "stophttp", "closestores"}
    /\ "http" \in holding[p] => stage[p] \in Serving \cup {"stopsched", "stopoverlays", "stophttp"}
    /\ "overlays" \in holding[p] =>
          stage[p] \in {"scheduler", "token", "up", "stopsched", "stopoverlays"}
    /\ "sched" \in holding[p] => stage[p] \in {"token", "up", "stopsched"}
    /\ portOf = p => "http" \in holding[p]

StoresOpen(p) ==
    /\ stage[p] \in {"http"} \cup Serving => StoreHandles \subseteq holding[p]
    /\ "http" \in holding[p] \/ "sched" \in holding[p] => StoreHandles \subseteq holding[p]

WorkInOrder(p) ==
    /\ stage[p] \in {"off"} \cup Unbound => working[p] = {}
    /\ working[p] # {} => StoreHandles \subseteq holding[p] \/ p \in late
    /\ stage[p] \in {"stopoverlays", "stophttp", "closestores"} /\ "task" \in working[p] => p \in late
    /\ stage[p] = "closestores" => "acme" \notin working[p]
    /\ stage[p] = "closestores" /\ "request" \in working[p] => p \in late

PIDInOrder(p) ==
    /\ stage[p] \in {"config", "databases", "http"} \cup Serving => "pid" \in holding[p]
    /\ "pid" \in holding[p] => pidFile = p \/ raced

ProcessInv(p) == HoldsInOrder(p) /\ StoresOpen(p) /\ WorkInOrder(p) /\ PIDInOrder(p)

LifecycleInv ==
    /\ LifecycleTypeOK
    /\ raced \in BOOLEAN
    /\ \A p \in Instances : ProcessInv(p)

LEMMA InitLifecycle == LifecycleInit => LifecycleInv
BY LifecycleAssumption
   DEF LifecycleInit, LifecycleInv, LifecycleTypeOK, ProcessInv, HoldsInOrder, StoresOpen, WorkInOrder,
       PIDInOrder, Unbound, Serving, StoreHandles, Resources

LEMMA RunServerKeeps ==
    ASSUME LifecycleInv, NEW p \in Instances, RunServer(p)
    PROVE  LifecycleInv'
<1> USE DEF RunServer, GoTo
<1>1. LifecycleTypeOK' /\ raced' \in BOOLEAN
  BY DEF LifecycleInv, LifecycleTypeOK, StartStages, StopStages, Resources, StoreHandles, WorkKinds
<1>2. ASSUME NEW q \in Instances PROVE ProcessInv(q)'
  <2> USE DEF LifecycleInv, LifecycleTypeOK, ProcessInv, Unbound, Serving
  <2>1. HoldsInOrder(q)'
    BY LifecycleAssumption DEF HoldsInOrder, StoreHandles
  <2>2. StoresOpen(q)'
    BY DEF HoldsInOrder, StoresOpen, StoreHandles
  <2>3. WorkInOrder(q)'
    BY DEF HoldsInOrder, StoresOpen, WorkInOrder, WorkKinds
  <2>4. PIDInOrder(q)'
    BY LifecycleAssumption DEF HoldsInOrder, PIDInOrder
  <2> QED
    BY <2>1, <2>2, <2>3, <2>4
<1> QED
  BY <1>1, <1>2 DEF LifecycleInv

LEMMA OpenLogKeeps ==
    ASSUME LifecycleInv, NEW p \in Instances, OpenLog(p)
    PROVE  LifecycleInv'
<1> USE DEF OpenLog, GoTo, Acquire, NoWork
<1>1. LifecycleTypeOK' /\ raced' \in BOOLEAN
  BY DEF LifecycleInv, LifecycleTypeOK, StartStages, StopStages, Resources, StoreHandles, WorkKinds
<1>2. ASSUME NEW q \in Instances PROVE ProcessInv(q)'
  <2> USE DEF LifecycleInv, LifecycleTypeOK, ProcessInv, Unbound, Serving
  <2>1. HoldsInOrder(q)'
    BY LifecycleAssumption DEF HoldsInOrder, StoreHandles
  <2>2. StoresOpen(q)'
    BY DEF HoldsInOrder, StoresOpen, StoreHandles
  <2>3. WorkInOrder(q)'
    BY DEF HoldsInOrder, StoresOpen, WorkInOrder, WorkKinds
  <2>4. PIDInOrder(q)'
    BY LifecycleAssumption DEF HoldsInOrder, PIDInOrder
  <2> QED
    BY <2>1, <2>2, <2>3, <2>4
<1> QED
  BY <1>1, <1>2 DEF LifecycleInv

LEMMA CheckPIDKeeps ==
    ASSUME LifecycleInv, NEW p \in Instances, CheckPID(p)
    PROVE  LifecycleInv'
<1> USE DEF CheckPID, GoTo, NoWork, Alive
<1>1. LifecycleTypeOK' /\ raced' \in BOOLEAN
  BY DEF LifecycleInv, LifecycleTypeOK, StartStages, StopStages, Resources, StoreHandles, WorkKinds
<1>2. ASSUME NEW q \in Instances PROVE ProcessInv(q)'
  <2> USE DEF LifecycleInv, LifecycleTypeOK, ProcessInv, Unbound, Serving
  <2>1. HoldsInOrder(q)'
    BY LifecycleAssumption DEF HoldsInOrder, StoreHandles
  <2>2. StoresOpen(q)'
    BY DEF HoldsInOrder, StoresOpen, StoreHandles
  <2>3. WorkInOrder(q)'
    BY DEF HoldsInOrder, StoresOpen, WorkInOrder, WorkKinds
  <2>4. PIDInOrder(q)'
    BY LifecycleAssumption DEF HoldsInOrder, PIDInOrder
  <2> QED
    BY <2>1, <2>2, <2>3, <2>4
<1> QED
  BY <1>1, <1>2 DEF LifecycleInv

LEMMA RemoveStaleKeeps ==
    ASSUME LifecycleInv, NEW p \in Instances, RemoveStale(p)
    PROVE  LifecycleInv'
<1> USE DEF RemoveStale, GoTo, NoWork, Alive
<1>1. LifecycleTypeOK' /\ raced' \in BOOLEAN
  BY DEF LifecycleInv, LifecycleTypeOK, StartStages, StopStages, Resources, StoreHandles, WorkKinds
<1>2. ASSUME NEW q \in Instances PROVE ProcessInv(q)'
  <2> USE DEF LifecycleInv, LifecycleTypeOK, ProcessInv, Unbound, Serving
  <2>1. HoldsInOrder(q)'
    BY LifecycleAssumption DEF HoldsInOrder, StoreHandles
  <2>2. StoresOpen(q)'
    BY DEF HoldsInOrder, StoresOpen, StoreHandles
  <2>3. WorkInOrder(q)'
    BY DEF HoldsInOrder, StoresOpen, WorkInOrder, WorkKinds
  <2>4. PIDInOrder(q)'
    BY LifecycleAssumption DEF HoldsInOrder, PIDInOrder
  <2> QED
    BY <2>1, <2>2, <2>3, <2>4
<1> QED
  BY <1>1, <1>2 DEF LifecycleInv

LEMMA WritePIDKeeps ==
    ASSUME LifecycleInv, NEW p \in Instances, WritePID(p)
    PROVE  LifecycleInv'
<1> USE DEF WritePID, GoTo, Acquire, NoWork, Alive
<1>1. LifecycleTypeOK' /\ raced' \in BOOLEAN
  BY DEF LifecycleInv, LifecycleTypeOK, StartStages, StopStages, Resources, StoreHandles, WorkKinds
<1>2. ASSUME NEW q \in Instances PROVE ProcessInv(q)'
  <2> USE DEF LifecycleInv, LifecycleTypeOK, ProcessInv, Unbound, Serving
  <2>1. HoldsInOrder(q)'
    BY LifecycleAssumption DEF HoldsInOrder, StoreHandles
  <2>2. StoresOpen(q)'
    BY DEF HoldsInOrder, StoresOpen, StoreHandles
  <2>3. WorkInOrder(q)'
    BY DEF HoldsInOrder, StoresOpen, WorkInOrder, WorkKinds
  <2>4. PIDInOrder(q)'
    BY LifecycleAssumption DEF HoldsInOrder, PIDInOrder
  <2> QED
    BY <2>1, <2>2, <2>3, <2>4
<1> QED
  BY <1>1, <1>2 DEF LifecycleInv

LEMMA LoadConfigKeeps ==
    ASSUME LifecycleInv, NEW p \in Instances, LoadConfig(p)
    PROVE  LifecycleInv'
<1> USE DEF LoadConfig, GoTo, NoWork
<1>1. LifecycleTypeOK' /\ raced' \in BOOLEAN
  BY DEF LifecycleInv, LifecycleTypeOK, StartStages, StopStages, Resources, StoreHandles, WorkKinds
<1>2. ASSUME NEW q \in Instances PROVE ProcessInv(q)'
  <2> USE DEF LifecycleInv, LifecycleTypeOK, ProcessInv, Unbound, Serving
  <2>1. HoldsInOrder(q)'
    BY LifecycleAssumption DEF HoldsInOrder, StoreHandles
  <2>2. StoresOpen(q)'
    BY DEF HoldsInOrder, StoresOpen, StoreHandles
  <2>3. WorkInOrder(q)'
    BY DEF HoldsInOrder, StoresOpen, WorkInOrder, WorkKinds
  <2>4. PIDInOrder(q)'
    BY LifecycleAssumption DEF HoldsInOrder, PIDInOrder
  <2> QED
    BY <2>1, <2>2, <2>3, <2>4
<1> QED
  BY <1>1, <1>2 DEF LifecycleInv

LEMMA OpenDatabasesKeeps ==
    ASSUME LifecycleInv, NEW p \in Instances, OpenDatabases(p)
    PROVE  LifecycleInv'
<1> USE DEF OpenDatabases, GoTo, Acquire, NoWork
<1>1. LifecycleTypeOK' /\ raced' \in BOOLEAN
  BY DEF LifecycleInv, LifecycleTypeOK, StartStages, StopStages, Resources, StoreHandles, WorkKinds
<1>2. ASSUME NEW q \in Instances PROVE ProcessInv(q)'
  <2> USE DEF LifecycleInv, LifecycleTypeOK, ProcessInv, Unbound, Serving
  <2>1. HoldsInOrder(q)'
    BY LifecycleAssumption DEF HoldsInOrder, StoreHandles
  <2>2. StoresOpen(q)'
    BY DEF HoldsInOrder, StoresOpen, StoreHandles
  <2>3. WorkInOrder(q)'
    BY DEF HoldsInOrder, StoresOpen, WorkInOrder, WorkKinds
  <2>4. PIDInOrder(q)'
    BY LifecycleAssumption DEF HoldsInOrder, PIDInOrder
  <2> QED
    BY <2>1, <2>2, <2>3, <2>4
<1> QED
  BY <1>1, <1>2 DEF LifecycleInv

LEMMA StartHTTPKeeps ==
    ASSUME LifecycleInv, NEW p \in Instances, StartHTTP(p)
    PROVE  LifecycleInv'
<1> USE DEF StartHTTP, GoTo, Acquire, BindListeners, OrderCertificate
<1>1. LifecycleTypeOK' /\ raced' \in BOOLEAN
  BY DEF LifecycleInv, LifecycleTypeOK, StartStages, StopStages, Resources, StoreHandles, WorkKinds
<1>2. ASSUME NEW q \in Instances PROVE ProcessInv(q)'
  <2> USE DEF LifecycleInv, LifecycleTypeOK, ProcessInv, Unbound, Serving
  <2>1. HoldsInOrder(q)'
    BY LifecycleAssumption DEF HoldsInOrder, StoreHandles
  <2>2. StoresOpen(q)'
    BY DEF HoldsInOrder, StoresOpen, StoreHandles
  <2>3. WorkInOrder(q)'
    BY DEF HoldsInOrder, StoresOpen, WorkInOrder, WorkKinds
  <2>4. PIDInOrder(q)'
    BY LifecycleAssumption DEF HoldsInOrder, PIDInOrder
  <2> QED
    BY <2>1, <2>2, <2>3, <2>4
<1> QED
  BY <1>1, <1>2 DEF LifecycleInv

LEMMA StartOverlaysKeeps ==
    ASSUME LifecycleInv, NEW p \in Instances, StartOverlays(p)
    PROVE  LifecycleInv'
<1> USE DEF StartOverlays, GoTo, Acquire, NoWork
<1>1. LifecycleTypeOK' /\ raced' \in BOOLEAN
  BY DEF LifecycleInv, LifecycleTypeOK, StartStages, StopStages, Resources, StoreHandles, WorkKinds
<1>2. ASSUME NEW q \in Instances PROVE ProcessInv(q)'
  <2> USE DEF LifecycleInv, LifecycleTypeOK, ProcessInv, Unbound, Serving
  <2>1. HoldsInOrder(q)'
    BY LifecycleAssumption DEF HoldsInOrder, StoreHandles
  <2>2. StoresOpen(q)'
    BY DEF HoldsInOrder, StoresOpen, StoreHandles
  <2>3. WorkInOrder(q)'
    BY DEF HoldsInOrder, StoresOpen, WorkInOrder, WorkKinds
  <2>4. PIDInOrder(q)'
    BY LifecycleAssumption DEF HoldsInOrder, PIDInOrder
  <2> QED
    BY <2>1, <2>2, <2>3, <2>4
<1> QED
  BY <1>1, <1>2 DEF LifecycleInv

LEMMA StartSchedulerKeeps ==
    ASSUME LifecycleInv, NEW p \in Instances, StartScheduler(p)
    PROVE  LifecycleInv'
<1> USE DEF StartScheduler, GoTo, Acquire, NoWork
<1>1. LifecycleTypeOK' /\ raced' \in BOOLEAN
  BY DEF LifecycleInv, LifecycleTypeOK, StartStages, StopStages, Resources, StoreHandles, WorkKinds
<1>2. ASSUME NEW q \in Instances PROVE ProcessInv(q)'
  <2> USE DEF LifecycleInv, LifecycleTypeOK, ProcessInv, Unbound, Serving
  <2>1. HoldsInOrder(q)'
    BY LifecycleAssumption DEF HoldsInOrder, StoreHandles
  <2>2. StoresOpen(q)'
    BY DEF HoldsInOrder, StoresOpen, StoreHandles
  <2>3. WorkInOrder(q)'
    BY DEF HoldsInOrder, StoresOpen, WorkInOrder, WorkKinds
  <2>4. PIDInOrder(q)'
    BY LifecycleAssumption DEF HoldsInOrder, PIDInOrder
  <2> QED
    BY <2>1, <2>2, <2>3, <2>4
<1> QED
  BY <1>1, <1>2 DEF LifecycleInv

LEMMA AnnounceKeeps ==
    ASSUME LifecycleInv, NEW p \in Instances, Announce(p)
    PROVE  LifecycleInv'
<1> USE DEF Announce, GoTo, NoWork
<1>1. LifecycleTypeOK' /\ raced' \in BOOLEAN
  BY DEF LifecycleInv, LifecycleTypeOK, StartStages, StopStages, Resources, StoreHandles, WorkKinds
<1>2. ASSUME NEW q \in Instances PROVE ProcessInv(q)'
  <2> USE DEF LifecycleInv, LifecycleTypeOK, ProcessInv, Unbound, Serving
  <2>1. HoldsInOrder(q)'
    BY LifecycleAssumption DEF HoldsInOrder, StoreHandles
  <2>2. StoresOpen(q)'
    BY DEF HoldsInOrder, StoresOpen, StoreHandles
  <2>3. WorkInOrder(q)'
    BY DEF HoldsInOrder, StoresOpen, WorkInOrder, WorkKinds
  <2>4. PIDInOrder(q)'
    BY LifecycleAssumption DEF HoldsInOrder, PIDInOrder
  <2> QED
    BY <2>1, <2>2, <2>3, <2>4
<1> QED
  BY <1>1, <1>2 DEF LifecycleInv

LEMMA StepFailsKeeps ==
    ASSUME LifecycleInv, NEW p \in Instances, StepFails(p)
    PROVE  LifecycleInv'
<1> USE DEF StepFails, GoTo, NoWork
<1>1. LifecycleTypeOK' /\ raced' \in BOOLEAN
  BY DEF LifecycleInv, LifecycleTypeOK, StartStages, StopStages, Resources, StoreHandles, WorkKinds
<1>2. ASSUME NEW q \in Instances PROVE ProcessInv(q)'
  <2> USE DEF LifecycleInv, LifecycleTypeOK, ProcessInv, Unbound, Serving
  <2>1. HoldsInOrder(q)'
    BY LifecycleAssumption DEF HoldsInOrder, StoreHandles
  <2>2. StoresOpen(q)'
    BY DEF HoldsInOrder, StoresOpen, StoreHandles
  <2>3. WorkInOrder(q)'
    BY DEF HoldsInOrder, StoresOpen, WorkInOrder, WorkKinds
  <2>4. PIDInOrder(q)'
    BY LifecycleAssumption DEF HoldsInOrder, PIDInOrder
  <2> QED
    BY <2>1, <2>2, <2>3, <2>4
<1> QED
  BY <1>1, <1>2 DEF LifecycleInv

LEMMA ServeRequestKeeps ==
    ASSUME LifecycleInv, NEW p \in Instances, ServeRequest(p)
    PROVE  LifecycleInv'
<1> USE DEF ServeRequest
<1>1. LifecycleTypeOK' /\ raced' \in BOOLEAN
  BY DEF LifecycleInv, LifecycleTypeOK, StartStages, StopStages, Resources, StoreHandles, WorkKinds
<1>2. ASSUME NEW q \in Instances PROVE ProcessInv(q)'
  <2> USE DEF LifecycleInv, LifecycleTypeOK, ProcessInv, Unbound, Serving
  <2>1. HoldsInOrder(q)'
    BY LifecycleAssumption DEF HoldsInOrder, StoreHandles
  <2>2. StoresOpen(q)'
    BY DEF HoldsInOrder, StoresOpen, StoreHandles
  <2>3. WorkInOrder(q)'
    BY DEF HoldsInOrder, StoresOpen, WorkInOrder, WorkKinds
  <2>4. PIDInOrder(q)'
    BY LifecycleAssumption DEF HoldsInOrder, PIDInOrder
  <2> QED
    BY <2>1, <2>2, <2>3, <2>4
<1> QED
  BY <1>1, <1>2 DEF LifecycleInv

LEMMA RunTaskKeeps ==
    ASSUME LifecycleInv, NEW p \in Instances, RunTask(p)
    PROVE  LifecycleInv'
<1> USE DEF RunTask
<1>1. LifecycleTypeOK' /\ raced' \in BOOLEAN
  BY DEF LifecycleInv, LifecycleTypeOK, StartStages, StopStages, Resources, StoreHandles, WorkKinds
<1>2. ASSUME NEW q \in Instances PROVE ProcessInv(q)'
  <2> USE DEF LifecycleInv, LifecycleTypeOK, ProcessInv, Unbound, Serving
  <2>1. HoldsInOrder(q)'
    BY LifecycleAssumption DEF HoldsInOrder, StoreHandles
  <2>2. StoresOpen(q)'
    BY DEF HoldsInOrder, StoresOpen, StoreHandles
  <2>3. WorkInOrder(q)'
    BY DEF HoldsInOrder, StoresOpen, WorkInOrder, WorkKinds
  <2>4. PIDInOrder(q)'
    BY LifecycleAssumption DEF HoldsInOrder, PIDInOrder
  <2> QED
    BY <2>1, <2>2, <2>3, <2>4
<1> QED
  BY <1>1, <1>2 DEF LifecycleInv

LEMMA FinishWorkKeeps ==
    ASSUME LifecycleInv, NEW p \in Instances, NEW w \in WorkKinds, FinishWork(p, w)
    PROVE  LifecycleInv'
<1> USE DEF FinishWork
<1>1. LifecycleTypeOK' /\ raced' \in BOOLEAN
  BY DEF LifecycleInv, LifecycleTypeOK, StartStages, StopStages, Resources, StoreHandles, WorkKinds
<1>2. ASSUME NEW q \in Instances PROVE ProcessInv(q)'
  <2> USE DEF LifecycleInv, LifecycleTypeOK, ProcessInv, Unbound, Serving
  <2>1. HoldsInOrder(q)'
    BY LifecycleAssumption DEF HoldsInOrder, StoreHandles
  <2>2. StoresOpen(q)'
    BY DEF HoldsInOrder, StoresOpen, StoreHandles
  <2>3. WorkInOrder(q)'
    BY DEF HoldsInOrder, StoresOpen, WorkInOrder, WorkKinds
  <2>4. PIDInOrder(q)'
    BY LifecycleAssumption DEF HoldsInOrder, PIDInOrder
  <2> QED
    BY <2>1, <2>2, <2>3, <2>4
<1> QED
  BY <1>1, <1>2 DEF LifecycleInv

LEMMA DeliverSignalKeeps ==
    ASSUME LifecycleInv, NEW p \in Instances, NEW s \in {"term", "usr1"}, DeliverSignal(p, s)
    PROVE  LifecycleInv'
<1> USE DEF DeliverSignal, NoWork
<1>1. LifecycleTypeOK' /\ raced' \in BOOLEAN
  BY DEF LifecycleInv, LifecycleTypeOK, StartStages, StopStages, Resources, StoreHandles, WorkKinds
<1>2. ASSUME NEW q \in Instances PROVE ProcessInv(q)'
  <2> USE DEF LifecycleInv, LifecycleTypeOK, ProcessInv, Unbound, Serving
  <2>1. HoldsInOrder(q)'
    BY LifecycleAssumption DEF HoldsInOrder, StoreHandles
  <2>2. StoresOpen(q)'
    BY DEF HoldsInOrder, StoresOpen, StoreHandles
  <2>3. WorkInOrder(q)'
    BY DEF HoldsInOrder, StoresOpen, WorkInOrder, WorkKinds
  <2>4. PIDInOrder(q)'
    BY LifecycleAssumption DEF HoldsInOrder, PIDInOrder
  <2> QED
    BY <2>1, <2>2, <2>3, <2>4
<1> QED
  BY <1>1, <1>2 DEF LifecycleInv

LEMMA DispatchSignalKeeps ==
    ASSUME LifecycleInv, NEW p \in Instances, DispatchSignal(p)
    PROVE  LifecycleInv'
<1> USE DEF DispatchSignal, GoTo, NoWork
<1>1. LifecycleTypeOK' /\ raced' \in BOOLEAN
  BY DEF LifecycleInv, LifecycleTypeOK, StartStages, StopStages, Resources, StoreHandles, WorkKinds
<1>2. ASSUME NEW q \in Instances PROVE ProcessInv(q)'
  <2> USE DEF LifecycleInv, LifecycleTypeOK, ProcessInv, Unbound, Serving
  <2>1. HoldsInOrder(q)'
    BY LifecycleAssumption DEF HoldsInOrder, StoreHandles
  <2>2. StoresOpen(q)'
    BY DEF HoldsInOrder, StoresOpen, StoreHandles
  <2>3. WorkInOrder(q)'
    BY DEF HoldsInOrder, StoresOpen, WorkInOrder, WorkKinds
  <2>4. PIDInOrder(q)'
    BY LifecycleAssumption DEF HoldsInOrder, PIDInOrder
  <2> QED
    BY <2>1, <2>2, <2>3, <2>4
<1> QED
  BY <1>1, <1>2 DEF LifecycleInv

LEMMA StopSchedulerKeeps ==
    ASSUME LifecycleInv, NEW p \in Instances, StopScheduler(p)
    PROVE  LifecycleInv'
<1> USE DEF StopScheduler, GoTo, Release, Drained
<1>1. LifecycleTypeOK' /\ raced' \in BOOLEAN
  BY DEF LifecycleInv, LifecycleTypeOK, StartStages, StopStages, Resources, StoreHandles, WorkKinds
<1>2. ASSUME NEW q \in Instances PROVE ProcessInv(q)'
  <2> USE DEF LifecycleInv, LifecycleTypeOK, ProcessInv, Unbound, Serving
  <2>1. HoldsInOrder(q)'
    BY LifecycleAssumption DEF HoldsInOrder, StoreHandles
  <2>2. StoresOpen(q)'
    BY DEF HoldsInOrder, StoresOpen, StoreHandles
  <2>3. WorkInOrder(q)'
    BY DEF HoldsInOrder, StoresOpen, WorkInOrder, WorkKinds, StoreHandles
  <2>4. PIDInOrder(q)'
    BY LifecycleAssumption DEF HoldsInOrder, PIDInOrder
  <2> QED
    BY <2>1, <2>2, <2>3, <2>4
<1> QED
  BY <1>1, <1>2 DEF LifecycleInv

LEMMA StopOverlaysKeeps ==
    ASSUME LifecycleInv, NEW p \in Instances, StopOverlays(p)
    PROVE  LifecycleInv'
<1> USE DEF StopOverlays, GoTo, Release, NoWork
<1>1. LifecycleTypeOK' /\ raced' \in BOOLEAN
  BY DEF LifecycleInv, LifecycleTypeOK, StartStages, StopStages, Resources, StoreHandles, WorkKinds
<1>2. ASSUME NEW q \in Instances PROVE ProcessInv(q)'
  <2> USE DEF LifecycleInv, LifecycleTypeOK, ProcessInv, Unbound, Serving
  <2>1. HoldsInOrder(q)'
    BY LifecycleAssumption DEF HoldsInOrder, StoreHandles
  <2>2. StoresOpen(q)'
    BY DEF HoldsInOrder, StoresOpen, StoreHandles
  <2>3. WorkInOrder(q)'
    BY DEF HoldsInOrder, StoresOpen, WorkInOrder, WorkKinds, StoreHandles
  <2>4. PIDInOrder(q)'
    BY LifecycleAssumption DEF HoldsInOrder, PIDInOrder
  <2> QED
    BY <2>1, <2>2, <2>3, <2>4
<1> QED
  BY <1>1, <1>2 DEF LifecycleInv

LEMMA StopHTTPKeeps ==
    ASSUME LifecycleInv, NEW p \in Instances, StopHTTP(p)
    PROVE  LifecycleInv'
<1> USE DEF StopHTTP, GoTo, Release, Drained
<1>1. LifecycleTypeOK' /\ raced' \in BOOLEAN
  BY DEF LifecycleInv, LifecycleTypeOK, StartStages, StopStages, Resources, StoreHandles, WorkKinds
<1>2. ASSUME NEW q \in Instances PROVE ProcessInv(q)'
  <2> USE DEF LifecycleInv, LifecycleTypeOK, ProcessInv, Unbound, Serving
  <2>1. HoldsInOrder(q)'
    BY LifecycleAssumption DEF HoldsInOrder, StoreHandles
  <2>2. StoresOpen(q)'
    BY DEF HoldsInOrder, StoresOpen, StoreHandles
  <2>3. WorkInOrder(q)'
    BY DEF HoldsInOrder, StoresOpen, WorkInOrder, WorkKinds
  <2>4. PIDInOrder(q)'
    BY LifecycleAssumption DEF HoldsInOrder, PIDInOrder
  <2> QED
    BY <2>1, <2>2, <2>3, <2>4
<1> QED
  BY <1>1, <1>2 DEF LifecycleInv

LEMMA CloseStoresKeeps ==
    ASSUME LifecycleInv, NEW p \in Instances, CloseStores(p)
    PROVE  LifecycleInv'
<1> USE DEF CloseStores, GoTo, Release, NoWork
<1>1. LifecycleTypeOK' /\ raced' \in BOOLEAN
  BY DEF LifecycleInv, LifecycleTypeOK, StartStages, StopStages, Resources, StoreHandles, WorkKinds
<1>2. ASSUME NEW q \in Instances PROVE ProcessInv(q)'
  <2> USE DEF LifecycleInv, LifecycleTypeOK, ProcessInv, Unbound, Serving
  <2>1. HoldsInOrder(q)'
    BY LifecycleAssumption DEF HoldsInOrder, StoreHandles
  <2>2. StoresOpen(q)'
    BY DEF HoldsInOrder, StoresOpen, StoreHandles
  <2>3. WorkInOrder(q)'
    BY DEF HoldsInOrder, StoresOpen, WorkInOrder, WorkKinds
  <2>4. PIDInOrder(q)'
    BY LifecycleAssumption DEF HoldsInOrder, PIDInOrder
  <2> QED
    BY <2>1, <2>2, <2>3, <2>4
<1> QED
  BY <1>1, <1>2 DEF LifecycleInv

LEMMA RemovePIDKeeps ==
    ASSUME LifecycleInv, NEW p \in Instances, RemovePID(p)
    PROVE  LifecycleInv'
<1> USE DEF RemovePID, GoTo, Release, NoWork, Alive
<1>1. LifecycleTypeOK' /\ raced' \in BOOLEAN
  BY DEF LifecycleInv, LifecycleTypeOK, StartStages, StopStages, Resources, StoreHandles, WorkKinds
<1>2. ASSUME NEW q \in Instances PROVE ProcessInv(q)'
  <2> USE DEF LifecycleInv, LifecycleTypeOK, ProcessInv, Unbound, Serving
  <2>1. HoldsInOrder(q)'
    BY LifecycleAssumption DEF HoldsInOrder, StoreHandles
  <2>2. StoresOpen(q)'
    BY DEF HoldsInOrder, StoresOpen, StoreHandles
  <2>3. WorkInOrder(q)'
    BY DEF HoldsInOrder, StoresOpen, WorkInOrder, WorkKinds
  <2>4. PIDInOrder(q)'
    BY LifecycleAssumption DEF HoldsInOrder, PIDInOrder
  <2> QED
    BY <2>1, <2>2, <2>3, <2>4
<1> QED
  BY <1>1, <1>2 DEF LifecycleInv

LEMMA CloseLogKeeps ==
    ASSUME LifecycleInv, NEW p \in Instances, CloseLog(p)
    PROVE  LifecycleInv'
<1> USE DEF CloseLog, GoTo, Release
<1>1. LifecycleTypeOK' /\ raced' \in BOOLEAN
  BY DEF LifecycleInv, LifecycleTypeOK, StartStages, StopStages, Resources, StoreHandles, WorkKinds
<1>2. ASSUME NEW q \in Instances PROVE ProcessInv(q)'
  <2> USE DEF LifecycleInv, LifecycleTypeOK, ProcessInv, Unbound, Serving
  <2>1. HoldsInOrder(q)'
    BY LifecycleAssumption DEF HoldsInOrder, StoreHandles
  <2>2. StoresOpen(q)'
    BY DEF HoldsInOrder, StoresOpen, StoreHandles
  <2>3. WorkInOrder(q)'
    BY DEF HoldsInOrder, StoresOpen, WorkInOrder, WorkKinds
  <2>4. PIDInOrder(q)'
    BY LifecycleAssumption DEF HoldsInOrder, PIDInOrder
  <2> QED
    BY <2>1, <2>2, <2>3, <2>4
<1> QED
  BY <1>1, <1>2 DEF LifecycleInv

LEMMA KillServerKeeps ==
    ASSUME LifecycleInv, NEW p \in Instances, KillServer(p)
    PROVE  LifecycleInv'
<1> USE DEF KillServer, GoTo, Alive
<1>1. LifecycleTypeOK' /\ raced' \in BOOLEAN
  BY DEF LifecycleInv, LifecycleTypeOK, StartStages, StopStages, Resources, StoreHandles, WorkKinds
<1>2. ASSUME NEW q \in Instances PROVE ProcessInv(q)'
  <2> USE DEF LifecycleInv, LifecycleTypeOK, ProcessInv, Unbound, Serving
  <2>1. HoldsInOrder(q)'
    BY LifecycleAssumption DEF HoldsInOrder, StoreHandles
  <2>2. StoresOpen(q)'
    BY DEF HoldsInOrder, StoresOpen, StoreHandles
  <2>3. WorkInOrder(q)'
    BY DEF HoldsInOrder, StoresOpen, WorkInOrder, WorkKinds
  <2>4. PIDInOrder(q)'
    BY LifecycleAssumption DEF HoldsInOrder, PIDInOrder
  <2> QED
    BY <2>1, <2>2, <2>3, <2>4
<1> QED
  BY <1>1, <1>2 DEF LifecycleInv

LEMMA StepLifecycle == LifecycleInv /\ [LifecycleNext]_lifecycleVars => LifecycleInv'
<1> SUFFICES ASSUME LifecycleInv, [LifecycleNext]_lifecycleVars PROVE LifecycleInv'
  OBVIOUS
<1>1. CASE UNCHANGED lifecycleVars
  BY <1>1 DEF lifecycleVars, LifecycleInv, LifecycleTypeOK, ProcessInv, HoldsInOrder, StoresOpen,
              WorkInOrder, PIDInOrder
<1>2. CASE LifecycleNext
  <2> SUFFICES ASSUME NEW p \in Instances,
                      \/ RunServer(p) \/ StartStep(p) \/ StepFails(p) \/ ServeRequest(p) \/ RunTask(p)
                      \/ \E w \in WorkKinds : FinishWork(p, w)
                      \/ \E s \in {"term", "usr1"} : DeliverSignal(p, s)
                      \/ DispatchSignal(p) \/ ShutdownStep(p) \/ KillServer(p)
               PROVE  LifecycleInv'
    BY <1>2 DEF LifecycleNext
  <2>1. ASSUME StartStep(p) PROVE LifecycleInv'
    BY <2>1, OpenLogKeeps, CheckPIDKeeps, RemoveStaleKeeps, WritePIDKeeps, LoadConfigKeeps,
       OpenDatabasesKeeps, StartHTTPKeeps, StartOverlaysKeeps, StartSchedulerKeeps, AnnounceKeeps
       DEF StartStep
  <2>2. ASSUME ShutdownStep(p) PROVE LifecycleInv'
    BY <2>2, StopSchedulerKeeps, StopOverlaysKeeps, StopHTTPKeeps, CloseStoresKeeps, RemovePIDKeeps,
       CloseLogKeeps DEF ShutdownStep
  <2> QED
    BY <2>1, <2>2, RunServerKeeps, StepFailsKeeps, ServeRequestKeeps, RunTaskKeeps, FinishWorkKeeps,
       DeliverSignalKeeps, DispatchSignalKeeps, KillServerKeeps
<1> QED
  BY <1>1, <1>2

(* Starts, failed starts, signals, shutdowns and kills of any number of    *)
(* processes, in any order: a process that is gone has given everything    *)
(* back, nobody works on a store that is closed unless its drain timed     *)
(* out, and the PID file names the server that is up unless two starts     *)
(* overlapped.                                                             *)
THEOREM LifecycleIsSound == LifecycleSpec => []LifecycleSound
<1>1. ASSUME LifecycleInv PROVE LifecycleSound
  <2>1. ASSUME NEW p \in Instances PROVE
          /\ stage[p] = "off" => holding[p] = {} /\ portOf # p
          /\ working[p] # {} => StoreHandles \subseteq holding[p] \/ p \in late
          /\ stage[p] = "up" => pidFile = p \/ raced
    <3>1. ProcessInv(p) /\ holding[p] \subseteq Resources
      BY <1>1 DEF LifecycleInv, LifecycleTypeOK
    <3> QED
      BY <3>1 DEF ProcessInv, HoldsInOrder, WorkInOrder, PIDInOrder, Serving, Resources
  <2> QED
    BY <1>1, <2>1 DEF LifecycleInv, LifecycleSound, NothingLeaks, StoresOutliveWork, PIDNamesServer
<1>2. LifecycleSpec => []LifecycleInv
  BY InitLifecycle, StepLifecycle, PTL DEF LifecycleSpec
<1>3. LifecycleInv => LifecycleSound
  BY <1>1
<1> QED
  BY <1>2, <1>3, PTL

-----------------------------------------------------------------------------
(* Overlay networks.                                                       *)
(*                                                                         *)
(* A start adds a process and takes over the address of the key it finds.  *)
(* The manager owns its process because every start finds the service      *)
(* closed: whoever closed it still has the lock.  The address persists     *)
(* because, unless another key was asked for, the key on disk is the       *)
(* address's own and readable by the provider that runs: then even a start *)
(* that fails late has nothing new to persist.                             *)

OverlaySpec == OverlayInit /\ [][OverlayNext]_overlayVars

Providers == {"none", "tor", "i2pd", "sam"}
KeyRow == [id : Int, by : Providers \cup {"import"}]

ServiceShape ==
    /\ ovStarts \in Nat /\ ovService \in 0..ovStarts /\ ovLive \subseteq 1..ovStarts
    /\ ovProvider \in Providers /\ ovKey \in KeyRow
    /\ ovStarts = 0 => ovProvider = "none" /\ ovKey.id = 0
    /\ ovStarts # 0 /\ ovNet = "tor" => ovProvider = "tor"

OwnsLive == ovProvider # "i2pd" => ovLive \subseteq {ovService}

KeyBehindAddress ==
    /\ ovAddress # 0 => ovRekeyed \/ ovKey.id = ovAddress
    /\ ovKey.id # 0 => ovKey.by \in {ovProvider, "import"}

ServiceInv == ServiceShape /\ OwnsLive /\ KeyBehindAddress

LocksInOrder ==
    /\ ovLock \in {"monitor", "op"} => ovService = 0
    /\ ovStarts = 0 => ovLock = "free" /\ ovOp = "none" /\ monitor.at = "none"
    /\ closing # "no" => ovOp = "none"
    /\ closing = "closed" => monitor.at \in {"gone", "none"}

ClosedForGood == closing = "closed" /\ ovProvider # "i2pd" => ovLive = {}

OverlayInv == ServiceInv /\ LocksInOrder /\ ClosedForGood

LEMMA InitOverlay == OverlayInit => OverlayInv
<1> SUFFICES ASSUME OverlayInit PROVE OverlayInv
  OBVIOUS
<1>1. ovKey \in KeyRow /\ ovKey.id = 0
  BY DEF OverlayInit, KeyRow, Providers
<1>2. ServiceShape
  BY <1>1 DEF OverlayInit, ServiceShape, Providers
<1>3. OwnsLive /\ KeyBehindAddress
  BY <1>1 DEF OverlayInit, OwnsLive, KeyBehindAddress
<1>4. LocksInOrder /\ ClosedForGood
  BY DEF OverlayInit, LocksInOrder, ClosedForGood
<1> QED
  BY <1>2, <1>3, <1>4 DEF OverlayInv, ServiceInv

(* Unless i2pd comes and goes, the provider is settled by the first start. *)
LEMMA ProviderSettled ==
    ASSUME ProviderStays, ServiceInv, NEW prov \in {"tor", "i2pd", "sam"}, ResolveProvider(prov)
    PROVE  /\ ovStarts = 0 \/ prov = ovProvider
           /\ ovNet = "tor" => prov = "tor"
BY DEF ProviderStays, ResolveProvider, ServiceInv, ServiceShape

(* Nothing is alive when a start finds the service closed.                 *)
LEMMA NothingLives ==
    ASSUME ServiceInv, ovService = 0, ovProvider # "i2pd" PROVE ovLive = {}
BY DEF ServiceInv, ServiceShape, OwnsLive

AddressKept == ovAddress' # ovAddress /\ ovAddress # 0 => ovRekeyed

(* The key a start runs with is readable by its provider, and the stored   *)
(* one if there was one.                                                   *)
LEMMA StartKey ==
    ASSUME ServiceInv, NEW prov \in {"tor", "i2pd", "sam"}, ovStarts = 0 \/ prov = ovProvider
    PROVE  LET k == LoadOrCreateKey(prov, ovStarts + 1)
           IN  /\ k \in KeyRow /\ k.by \in {prov, "import"}
               /\ ovKey.id # 0 => k = ovKey
<1>1. ovStarts \in Nat /\ ovKey \in KeyRow /\ (ovKey.id # 0 => ovKey.by \in {prov, "import"})
  BY DEF ServiceInv, ServiceShape, KeyBehindAddress
<1> DEFINE n == [id |-> ovStarts + 1, by |-> prov]
<1>2. n \in KeyRow /\ n.by = prov
  BY <1>1 DEF KeyRow, Providers
<1> HIDE DEF n
<1>3. LoadOrCreateKey(prov, ovStarts + 1) = IF ovKey.id # 0 /\ ovKey.by \in {prov, "import"} THEN ovKey ELSE n
  BY DEF LoadOrCreateKey, n
<1> QED
  BY <1>1, <1>2, <1>3

LEMMA StartedService ==
    ASSUME ProviderStays, ServiceInv, ovService = 0, ovNet' = ovNet, StartService
    PROVE  ServiceInv' /\ AddressKept /\ ovService' # 0 /\ ovStarts' # 0
<1>1. PICK prov \in {"tor", "i2pd", "sam"} : StartProcess(prov)
  BY DEF StartService, StartTor, StartI2PD, StartSAMEepsite
<1>2. /\ ovStarts' = ovStarts + 1 /\ ovProvider' = prov /\ ovService' = ovStarts + 1
      /\ ovLive' = ovLive \cup {ovStarts + 1} /\ ovAddress' = ovKey'.id
      /\ ovKey' = LoadOrCreateKey(prov, ovStarts + 1) /\ ResolveProvider(prov)
  BY <1>1 DEF StartProcess, NextStart
<1>3. /\ ovStarts = 0 \/ prov = ovProvider
      /\ ovNet = "tor" => prov = "tor"
  BY <1>2, ProviderSettled
<1>4. ovStarts \in Nat /\ ovKey \in KeyRow /\ ovLive \subseteq 1..ovStarts
  BY DEF ServiceInv, ServiceShape
<1>5. OwnsLive'
  <2> SUFFICES ASSUME prov # "i2pd" PROVE ovLive' = {ovStarts + 1}
    BY <1>2 DEF OwnsLive
  <2>1. ovProvider # "i2pd"
    BY <1>3 DEF ServiceInv, ServiceShape
  <2> QED
    BY <1>2, <2>1, NothingLives
<1>6. /\ ovKey' \in KeyRow /\ ovKey'.by \in {prov, "import"} /\ ovRekeyed' = FALSE
      /\ ovKey.id # 0 => ovKey' = ovKey
  BY <1>1, <1>2, <1>3, StartKey DEF StartProcess
<1>7. ServiceShape'
  BY <1>2, <1>3, <1>4, <1>6 DEF ServiceShape, Providers
<1>8. KeyBehindAddress'
  BY <1>2, <1>6 DEF KeyBehindAddress
<1>9. AddressKept
  BY <1>2, <1>6 DEF ServiceInv, KeyBehindAddress, AddressKept
<1> QED
  BY <1>2, <1>4, <1>5, <1>7, <1>8, <1>9 DEF ServiceInv

LEMMA FailedService ==
    ASSUME ProviderStays, ServiceInv, ovNet' = ovNet, StartFails
    PROVE  /\ ServiceInv' /\ AddressKept /\ ovService' = ovService /\ ovStarts' # 0
           /\ ovProvider' # "i2pd" => ovLive' = ovLive /\ ovProvider # "i2pd"
<1>1. PICK prov \in {"tor", "i2pd", "sam"} :
        /\ ResolveProvider(prov) /\ ovProvider' = prov
        /\ ovLive' = ovLive \/ (prov = "i2pd" /\ ovLive' = ovLive \cup {ovStarts + 1})
        /\ ovKey' \in {ovKey, LoadOrCreateKey(prov, ovStarts + 1)}
  BY DEF StartFails
<1>2. ovStarts' = ovStarts + 1 /\ UNCHANGED <<ovService, ovAddress, ovRekeyed>>
  BY DEF StartFails, NextStart
<1>3. /\ ovStarts = 0 \/ prov = ovProvider
      /\ ovNet = "tor" => prov = "tor"
  BY <1>1, ProviderSettled
<1>4. ovStarts \in Nat /\ ovLive \subseteq 1..ovStarts /\ ovService \in 0..ovStarts
  BY DEF ServiceInv, ServiceShape
<1>9. /\ ovKey' \in KeyRow
      /\ ovKey.id # 0 => ovKey' = ovKey
      /\ ovKey'.id # 0 => ovKey'.by \in {prov, "import"}
  <2>1. CASE ovKey' = ovKey
    BY <1>3, <2>1 DEF ServiceInv, ServiceShape, KeyBehindAddress
  <2>2. CASE ovKey' = LoadOrCreateKey(prov, ovStarts + 1)
    BY <1>3, <2>2, StartKey
  <2> QED
    BY <1>1, <2>1, <2>2
<1>5. ServiceShape'
  <2>1. ovStarts' \in Nat /\ ovStarts' # 0 /\ ovService' \in 0..ovStarts'
    BY <1>2, <1>4
  <2>2. ovLive' \subseteq 1..ovStarts'
    <3>1. ovLive' \subseteq ovLive \cup {ovStarts + 1}
      BY <1>1
    <3>2. 1..ovStarts' = (1..ovStarts) \cup {ovStarts + 1}
      BY <1>2, <1>4
    <3> QED
      BY <1>4, <3>1, <3>2
  <2>3. ovProvider' \in Providers /\ (ovNet' = "tor" => ovProvider' = "tor")
    BY <1>1, <1>3 DEF Providers
  <2> QED
    BY <1>9, <2>1, <2>2, <2>3 DEF ServiceShape
<1>6. ovProvider' # "i2pd" => ovLive' = ovLive /\ ovProvider # "i2pd"
  BY <1>1, <1>3 DEF ServiceInv, ServiceShape
<1>7. OwnsLive'
  BY <1>2, <1>6 DEF ServiceInv, OwnsLive
<1>8. KeyBehindAddress' /\ AddressKept
  BY <1>1, <1>2, <1>9 DEF ServiceInv, KeyBehindAddress, AddressKept
<1> QED
  BY <1>2, <1>4, <1>5, <1>6, <1>7, <1>8 DEF ServiceInv

(* Closing leaves nothing alive, but an i2pd that was interrupted.         *)
LEMMA ClosedService ==
    ASSUME ServiceInv, CloseService, UNCHANGED <<ovNet, ovProvider, ovStarts, ovAddress>>,
           \/ UNCHANGED <<ovKey, ovRekeyed>>
           \/ /\ ovRekeyed' = TRUE /\ ovStarts # 0
              /\ ovKey' = [id |-> 0, by |-> "none"] \/ ovKey' = [id |-> -1, by |-> "import"]
    PROVE  ServiceInv' /\ ovService' = 0 /\ (ovProvider # "i2pd" => ovLive' = {})
<1>1. ovService' = 0 /\ ovLive' \subseteq ovLive /\ (ovProvider # "i2pd" => ovLive' = ovLive \ {ovService})
  BY DEF CloseService, CloseTor, CloseI2P
<1>2. ovProvider # "i2pd" => ovLive' = {}
  BY <1>1 DEF ServiceInv, OwnsLive
<1>3. /\ ovKey' \in KeyRow
      /\ \/ UNCHANGED <<ovKey, ovRekeyed>>
         \/ ovRekeyed' /\ ovStarts # 0 /\ (ovKey'.id = 0 \/ ovKey'.by = "import")
  <2>1. CASE UNCHANGED <<ovKey, ovRekeyed>>
    BY <2>1 DEF ServiceInv, ServiceShape
  <2>2. [id |-> 0, by |-> "none"] \in KeyRow /\ [id |-> -1, by |-> "import"] \in KeyRow
    BY DEF KeyRow, Providers
  <2> QED
    BY <2>1, <2>2
<1>4. ServiceShape'
  BY <1>1, <1>3 DEF ServiceInv, ServiceShape
<1>5. KeyBehindAddress'
  BY <1>3 DEF ServiceInv, KeyBehindAddress
<1> QED
  BY <1>1, <1>2, <1>4, <1>5 DEF ServiceInv, OwnsLive

(* A process that is gone, or nothing at all.                              *)
LEMMA SameService ==
    ASSUME ServiceInv, UNCHANGED <<ovNet, ovProvider, ovService, ovStarts, ovKey, ovAddress, ovRekeyed>>,
           ovLive' \subseteq ovLive
    PROVE  ServiceInv' /\ AddressKept
BY DEF ServiceInv, ServiceShape, OwnsLive, KeyBehindAddress, AddressKept

LEMMA StepOverlay ==
    ASSUME ProviderStays, OverlayInv, [OverlayNext]_overlayVars
    PROVE  OverlayInv' /\ AddressKept
<1> DEFINE Goal == OverlayInv' /\ AddressKept
<1> USE DEF OverlayInv
<1>1. CASE StartManager
  <2>1. /\ ovService = 0 /\ ovStarts = 0 /\ closing = "no" /\ monitor.at = "none"
        /\ UNCHANGED <<ovNet, ovLock, ovOp>>
    BY <1>1 DEF StartManager
  <2>2. ovLive = {} /\ ovLock = "free" /\ ovOp = "none"
    BY <2>1 DEF ServiceInv, ServiceShape, LocksInOrder
  <2>3. CASE StartService /\ UNCHANGED closing
    BY <2>1, <2>2, <2>3, StartedService DEF LocksInOrder, ClosedForGood
  <2>4. CASE StartFails /\ closing' = "closed" /\ UNCHANGED monitor
    <3>1. ServiceInv' /\ AddressKept /\ (ovProvider' # "i2pd" => ovLive' = ovLive) /\ ovStarts' # 0
      BY <2>1, <2>4, FailedService
    <3>2. LocksInOrder'
      BY <2>1, <2>2, <2>4, <3>1 DEF LocksInOrder
    <3> QED
      BY <2>2, <3>1, <3>2 DEF ClosedForGood
  <2> QED
    BY <1>1, <2>3, <2>4 DEF StartManager
<1>2. CASE MonitorTicks \/ MonitorStops \/ ReadService \/ JudgeService
  <2>1. ServiceKept /\ UNCHANGED <<ovLock, closing, ovOp>>
    BY <1>2 DEF MonitorTicks, MonitorStops, ReadService, JudgeService
  <2>2. ServiceInv' /\ AddressKept
    BY <2>1, SameService DEF ServiceKept
  <2>3. closing # "closed" /\ ovStarts # 0
    BY <1>2 DEF MonitorTicks, MonitorStops, ReadService, JudgeService, MonitorAt, LocksInOrder
  <2> QED
    BY <2>1, <2>2, <2>3 DEF ServiceKept, LocksInOrder, ClosedForGood
<1>3. CASE CloseJudged
  <2>1. /\ monitor.at = "relock" /\ CloseService
        /\ UNCHANGED <<ovNet, ovProvider, ovStarts, ovKey, ovAddress, ovRekeyed, closing, ovOp>>
    BY <1>3 DEF CloseJudged, MonitorAt
  <2>2. ServiceInv' /\ ovService' = 0
    BY <2>1, ClosedService
  <2>3. closing # "closed" /\ ovStarts # 0
    BY <2>1 DEF LocksInOrder, ServiceInv, ServiceShape
  <2> QED
    BY <2>1, <2>2, <2>3 DEF LocksInOrder, ClosedForGood, AddressKept
<1>4. CASE RestartJudged
  <2>1. /\ monitor.at = "restart" /\ ovLock = "monitor" /\ ovLock' = "free" /\ (StartService \/ StartFails)
        /\ UNCHANGED <<ovNet, closing, ovOp>>
    BY <1>4 DEF RestartJudged, MonitorAt, Unlock
  <2>2. ovService = 0 /\ closing # "closed"
    BY <2>1 DEF LocksInOrder
  <2>3. ServiceInv' /\ AddressKept /\ ovStarts' # 0
    BY <2>1, <2>2, StartedService, FailedService
  <2> QED
    BY <2>1, <2>2, <2>3 DEF LocksInOrder, ClosedForGood
<1>5. CASE RestartOp \/ RegenerateAddress \/ ApplyKeys \/ DisableI2P
  <2>1. /\ closing = "no" /\ ovStarts > 0 /\ ovLock' = "op" /\ CloseService
        /\ UNCHANGED <<ovNet, ovProvider, ovStarts, ovAddress, monitor, closing>>
        /\ \/ UNCHANGED <<ovKey, ovRekeyed>>
           \/ /\ ovRekeyed' = TRUE
              /\ ovKey' = [id |-> 0, by |-> "none"] \/ ovKey' = [id |-> -1, by |-> "import"]
    BY <1>5 DEF RestartOp, RegenerateAddress, ApplyKeys, DisableI2P, KeepKey, ReplaceKey, BeginOp, Lock
  <2>2. ovStarts # 0
    BY <2>1
  <2>3. ServiceInv' /\ ovService' = 0
    BY <2>1, <2>2, ClosedService
  <2> QED
    BY <2>1, <2>2, <2>3 DEF LocksInOrder, ClosedForGood, AddressKept
<1>6. CASE EndOp
  <2>1. ovOp # "none" /\ ovLock = "op" /\ ovLock' = "free" /\ ovOp' = "none" /\ UNCHANGED <<ovNet, monitor, closing>>
    BY <1>6 DEF EndOp, Unlock
  <2>2. ovService = 0 /\ closing = "no" /\ ovStarts # 0
    BY <2>1 DEF LocksInOrder
  <2>3. ServiceInv' /\ AddressKept /\ ovStarts' # 0
    <3>1. CASE StartService
      BY <2>1, <2>2, <3>1, StartedService
    <3>2. CASE StartFails
      BY <2>1, <3>2, FailedService
    <3>3. CASE UNCHANGED <<ovProvider, ovService, ovLive, ovStarts, ovKey, ovAddress, ovRekeyed>>
      BY <2>1, <2>2, <3>3, SameService
    <3> QED
      BY <1>6, <3>1, <3>2, <3>3 DEF EndOp
  <2> QED
    BY <2>1, <2>2, <2>3 DEF LocksInOrder, ClosedForGood
<1>7. CASE CloseCancels
  <2>1. /\ closing = "no" /\ ovOp = "none" /\ closing' = "waiting"
        /\ ServiceKept /\ UNCHANGED <<ovLock, monitor, ovOp>>
    BY <1>7 DEF CloseCancels
  <2>2. ServiceInv' /\ AddressKept
    BY <2>1, SameService DEF ServiceKept
  <2> QED
    BY <2>1, <2>2 DEF ServiceKept, LocksInOrder, ClosedForGood
<1>8. CASE EndClose
  <2>1. /\ closing = "waiting" /\ monitor.at = "gone" /\ ovLock' = "free" /\ CloseService /\ closing' = "closed"
        /\ UNCHANGED <<ovNet, ovProvider, ovStarts, ovKey, ovAddress, ovRekeyed, monitor, ovOp>>
    BY <1>8 DEF EndClose, MonitorAt
  <2>2. ServiceInv' /\ ovService' = 0 /\ (ovProvider # "i2pd" => ovLive' = {})
    BY <2>1, ClosedService
  <2> QED
    BY <2>1, <2>2 DEF LocksInOrder, ClosedForGood, AddressKept
<1>9. CASE ProcessDies \/ InterruptedExits \/ UNCHANGED overlayVars
  <2>1. /\ ovLive' \subseteq ovLive
        /\ UNCHANGED <<ovNet, ovProvider, ovService, ovStarts, ovKey, ovAddress, ovRekeyed, ovLock, monitor,
                       closing, ovOp>>
    BY <1>9 DEF ProcessDies, InterruptedExits, overlayVars
  <2>2. ServiceInv' /\ AddressKept
    BY <2>1, SameService
  <2> QED
    BY <2>1, <2>2 DEF LocksInOrder, ClosedForGood
<1> QED
  BY <1>1, <1>2, <1>3, <1>4, <1>5, <1>6, <1>7, <1>8, <1>9 DEF OverlayNext, MonitorStep

LEMMA NetStays == ASSUME [OverlayNext]_overlayVars PROVE ovNet' = ovNet
BY DEF OverlayNext, StartManager, MonitorTicks, MonitorStops, MonitorStep, ReadService, JudgeService,
       CloseJudged, RestartJudged, RestartOp, RegenerateAddress, ApplyKeys, DisableI2P, BeginOp, EndOp,
       CloseCancels, EndClose, ProcessDies, InterruptedExits, ServiceKept, overlayVars

(* A manager that runs its service the same way each time, as Tor's always *)
(* does and I2P's where i2pd does not come and go, comes back under        *)
(* another address only if a regenerated address or an imported key was    *)
(* asked for since it was last up, and with the lock free owns every tor   *)
(* process or SAM session that is alive, for any number of restarts,       *)
(* operations and starts that fail early or late.                          *)
THEOREM AddressIsKept == OverlaySpec => AddressPersists
<1> DEFINE Inv == ProviderStays => OverlayInv
           Act == /\ (ProviderStays /\ ovAddress' # ovAddress /\ ovAddress # 0) => ovRekeyed
                  /\ OwnsItsProcess'
<1>1. Inv /\ [OverlayNext]_overlayVars => Inv'
  <2> SUFFICES ASSUME Inv, [OverlayNext]_overlayVars, ProviderStays' PROVE OverlayInv'
    OBVIOUS
  <2>1. ProviderStays
    BY NetStays DEF ProviderStays
  <2> QED
    BY <2>1, StepOverlay
<1>2. Inv => OwnsItsProcess
  BY DEF OverlayInv, ServiceInv, OwnsLive, ClosedForGood, OwnsItsProcess
<1>3. Inv /\ [OverlayNext]_overlayVars => (ProviderStays => AddressKept)
  BY StepOverlay
<1>4. (ProviderStays => AddressKept) /\ OwnsItsProcess' => Act
  BY DEF AddressKept
<1>5. OverlayInit => Inv
  BY InitOverlay
<1> QED
  BY <1>1, <1>2, <1>3, <1>4, <1>5, PTL DEF OverlaySpec, AddressPersists
=============================================================================
