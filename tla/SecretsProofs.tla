--------------------------- MODULE SecretsProofs ---------------------------
(***************************************************************************)
(* Proofs about Secrets for every set of nodes, every grace period and any *)
(* number of versions.                                                     *)
(*                                                                         *)
(* The inductive invariant follows the newest version.  Either nothing has *)
(* been stored yet (Fresh), or some version is the newest (Top): it is     *)
(* stored as it was issued and does not expire, nothing newer was issued   *)
(* or given a window, every older version whose window is open is still    *)
(* stored as issued, and no node holds anything newer.  A stalled          *)
(* EnsureSecret may store a second version 1, but only once the first one  *)
(* has been pruned, hence below Top, where GetSecret never looks.          *)
(***************************************************************************)
EXTENDS Secrets, TLAPS

Fresh ==
    /\ Empty
    /\ \A v \in Versions : issued[v] = 0 /\ deadline[v] = Null
    /\ \A n \in Nodes : held[n].version = 0

(* What the window of version w promises while it is open.                 *)
Kept(w) ==
    issued[w] # 0 =>
        /\ deadline[w] # Null
        /\ now <= deadline[w] =>
              rows[w].in /\ rows[w].value = issued[w] /\ rows[w].expires = deadline[w]

Top(v) ==
    /\ rows[v].in /\ rows[v].value = issued[v] /\ rows[v].expires = Null
    /\ deadline[v] = Null
    /\ issued[v] # 0 /\ issued[1] # 0
    /\ \A w \in Versions : w > v => ~rows[w].in /\ issued[w] = 0 /\ deadline[w] = Null
    /\ \A w \in Versions : w < v => Kept(w)
    /\ \A n \in Nodes : held[n].version <= v

Candidates == \A n \in Nodes : pc[n] \in {"insert", "rotate"} => cand[n] # 0

HeldAsIssued ==
    \A n \in Nodes : held[n].value =
        IF held[n].version = 0 THEN 0 ELSE issued[held[n].version]

Inv ==
    /\ TypeOK
    /\ Candidates
    /\ HeldAsIssued
    /\ Fresh \/ \E v \in Versions : Top(v)

-----------------------------------------------------------------------------
LEMMA OneIsVersion == 1 \in Versions /\ Versions \subseteq Nat \ {0}
BY SecretsAssumption DEF Versions

LEMMA RowType == NoRow \in Rows /\ \A x \in Nat \ {0} : Row(x) \in Rows
BY DEF NoRow, Row, Rows, Null

LEMMA ExpireType ==
    ASSUME NEW row \in Rows, row.in, NEW until \in Nat
    PROVE  Expire(row, until) \in Rows
<1>1. row # NoRow
  BY DEF NoRow
<1>2. row \in [in : {TRUE}, value : Nat \ {0}, expires : Nat \cup {Null}]
  BY <1>1 DEF Rows
<1>3. row.in = TRUE /\ row.value \in Nat \ {0}
  BY <1>2
<1> QED
  BY <1>3 DEF Rows, Expire

LEMMA ValueType == ASSUME NEW row \in Rows PROVE row.value \in Nat
<1>1. CASE row = NoRow
  BY <1>1 DEF NoRow
<1>2. CASE row \in [in : {TRUE}, value : Nat \ {0}, expires : Nat \cup {Null}]
  BY <1>2
<1> QED
  BY <1>1, <1>2 DEF Rows

(* The version GetSecret returns is Top.                                   *)
LEMMA CurrentIsTop ==
    ASSUME TypeOK, NEW v \in Versions, Top(v)
    PROVE  IsCurrent(v) /\ ~Empty /\ \A w \in Versions : IsCurrent(w) => w = v
BY OneIsVersion DEF IsCurrent, Empty, Top

LEMMA InitInv == Init => Inv
<1> SUFFICES ASSUME Init PROVE Inv
  OBVIOUS
<1> USE OneIsVersion, RowType
<1>1. TypeOK
  BY DEF Init, TypeOK, Nothing, Null
<1>2. HeldAsIssued
  BY DEF Init, HeldAsIssued, Nothing
<1>3. Fresh
  BY DEF Init, Fresh, Empty, NoRow, Nothing
<1> QED
  BY <1>1, <1>2, <1>3 DEF Inv, Init, Candidates

-----------------------------------------------------------------------------
LEMMA StepType == TypeOK /\ Candidates /\ [Next]_vars => TypeOK'
<1> SUFFICES ASSUME TypeOK, Candidates, [Next]_vars PROVE TypeOK'
  OBVIOUS
<1> USE OneIsVersion, RowType
<1>1. ASSUME NEW n \in Nodes, Got(n) PROVE held' \in [Nodes -> [version : Versions \cup {0}, value : Nat]]
  <2>1. PICK v \in Versions : held' = [held EXCEPT ![n] = [version |-> v, value |-> rows[v].value]]
    BY <1>1 DEF Got
  <2>2. rows[v].value \in Nat
    BY ValueType DEF TypeOK
  <2> QED
    BY <2>1, <2>2 DEF TypeOK
<1>2. ASSUME NEW n \in Nodes, EnsureFound(n) PROVE TypeOK'
  BY <1>1, <1>2 DEF EnsureFound, TypeOK
<1>3. ASSUME NEW n \in Nodes, EnsureMissing(n) PROVE TypeOK'
  BY <1>3 DEF EnsureMissing, Generate, TypeOK
<1>4. ASSUME NEW n \in Nodes, EnsureInsert(n) PROVE TypeOK'
  <2>1. cand[n] \in Nat \ {0}
    BY <1>4 DEF EnsureInsert, Candidates, TypeOK
  <2>2. rows' \in [Versions -> Rows] /\ issued' \in [Versions -> Nat]
    BY <1>4, <2>1 DEF EnsureInsert, TypeOK
  <2> QED
    BY <1>4, <2>2 DEF EnsureInsert, TypeOK
<1>5. ASSUME NEW n \in Nodes, EnsureReread(n) PROVE TypeOK'
  BY <1>1, <1>5 DEF EnsureReread, TypeOK
<1>6. ASSUME NEW n \in Nodes, RotateBegin(n) PROVE TypeOK'
  BY <1>6 DEF RotateBegin, Generate, TypeOK
<1>7. ASSUME NEW n \in Nodes, NEW grace \in Graces, RotateCommit(n, grace) PROVE TypeOK'
  <2>1. cand[n] \in Nat \ {0}
    BY <1>7 DEF RotateCommit, Candidates, TypeOK
  <2>2. PICK v \in Versions :
          /\ IsCurrent(v) /\ v < MaxVersion
          /\ rows' = [rows EXCEPT ![v+1] = Row(cand[n]), ![v] = Expire(@, when[n] + grace)]
          /\ issued' = [issued EXCEPT ![v+1] = cand[n]]
          /\ deadline' = [deadline EXCEPT ![v] = when[n] + grace]
    BY <1>7 DEF RotateCommit
  <2>3. v + 1 \in Versions /\ v + 1 # v /\ when[n] + grace \in Nat
    BY <2>2, SecretsAssumption DEF Versions, TypeOK
  <2>4. Expire(rows[v], when[n] + grace) \in Rows
    BY <2>2, <2>3, ExpireType DEF IsCurrent, TypeOK
  <2>5. rows' \in [Versions -> Rows] /\ issued' \in [Versions -> Nat]
        /\ deadline' \in [Versions -> Nat \cup {Null}]
    BY <2>1, <2>2, <2>3, <2>4 DEF TypeOK
  <2> QED
    BY <1>7, <2>5 DEF RotateCommit, TypeOK
<1>8. ASSUME NEW n \in Nodes, RotateRollback(n) PROVE TypeOK'
  BY <1>8 DEF RotateRollback, TypeOK
<1>9. ASSUME NEW n \in Nodes, Crash(n) PROVE TypeOK'
  BY <1>9 DEF Crash, TypeOK, Nothing
<1>10. CASE PruneSecrets
  BY <1>10 DEF PruneSecrets, TypeOK
<1>11. CASE Clock
  BY <1>11 DEF Clock, TypeOK
<1>12. CASE UNCHANGED vars
  BY <1>12 DEF vars, TypeOK
<1> QED
  BY <1>2, <1>3, <1>4, <1>5, <1>6, <1>7, <1>8, <1>9, <1>10, <1>11, <1>12 DEF Next

(* A candidate is generated before the node enters its write.              *)
LEMMA StepCandidates == TypeOK /\ Candidates /\ [Next]_vars => Candidates'
<1> SUFFICES ASSUME TypeOK, Candidates, [Next]_vars PROVE Candidates'
  OBVIOUS
<1> USE DEF Candidates, TypeOK
<1>1. ASSUME NEW n \in Nodes, EnsureMissing(n) \/ RotateBegin(n) PROVE Candidates'
  BY <1>1 DEF EnsureMissing, RotateBegin, Generate
<1>2. ASSUME NEW n \in Nodes, UNCHANGED cand, NEW label \in {"idle", "reread"},
             pc' = [pc EXCEPT ![n] = label]
      PROVE  Candidates'
  BY <1>2
<1>3. CASE UNCHANGED <<pc, cand>>
  BY <1>3
<1>4. ASSUME NEW n \in Nodes,
             EnsureInsert(n) \/ EnsureReread(n) \/ RotateRollback(n) \/ Crash(n)
      PROVE  Candidates'
  BY <1>2, <1>4 DEF EnsureInsert, EnsureReread, RotateRollback, Crash
<1>5. ASSUME NEW n \in Nodes, NEW grace \in Graces, RotateCommit(n, grace) PROVE Candidates'
  BY <1>2, <1>5 DEF RotateCommit
<1>6. ASSUME NEW n \in Nodes, EnsureFound(n) PROVE Candidates'
  BY <1>3, <1>6 DEF EnsureFound
<1>7. CASE Clock \/ PruneSecrets \/ UNCHANGED vars
  BY <1>3, <1>7 DEF Clock, PruneSecrets, vars
<1> HIDE DEF Candidates, TypeOK
<1> QED
  BY <1>1, <1>4, <1>5, <1>6, <1>7 DEF Next

-----------------------------------------------------------------------------
(* A step that leaves the table and its history alone; what a node comes   *)
(* to hold is the current version, or nothing.                             *)
LEMMA HoldStep ==
    ASSUME TypeOK, HeldAsIssued, Fresh \/ \E v \in Versions : Top(v),
           NEW n \in Nodes, Got(n) \/ held' = [held EXCEPT ![n] = Nothing],
           UNCHANGED <<now, rows, issued, deadline>>
    PROVE  HeldAsIssued' /\ (Fresh \/ \E v \in Versions : Top(v))'
<1>1. CASE Got(n)
  <2>1. PICK v \in Versions : /\ IsCurrent(v)
                              /\ held' = [held EXCEPT ![n] = [version |-> v, value |-> rows[v].value]]
    BY <1>1 DEF Got
  <2>2. PICK w \in Versions : Top(w)
    BY <2>1 DEF Fresh, Empty, IsCurrent
  <2>3. w = v
    BY <2>1, <2>2, CurrentIsTop
  <2>4. Top(v)'
    BY <2>1, <2>2, <2>3, OneIsVersion DEF Top, Kept, TypeOK
  <2>5. HeldAsIssued'
    BY <2>1, <2>2, <2>3, OneIsVersion DEF HeldAsIssued, Top, TypeOK
  <2> QED
    BY <2>4, <2>5
<1>2. CASE held' = [held EXCEPT ![n] = Nothing]
  <2>1. HeldAsIssued'
    BY <1>2 DEF HeldAsIssued, Nothing, TypeOK
  <2>2. CASE Fresh
    <3>1. Fresh'
      BY <1>2, <2>2 DEF Fresh, Empty, Nothing, TypeOK
    <3> QED
      BY <2>1, <3>1
  <2>3. ASSUME NEW v \in Versions, Top(v) PROVE Top(v)'
    BY <1>2, <2>3, OneIsVersion DEF Top, Kept, Nothing, TypeOK
  <2> QED
    BY <2>1, <2>2, <2>3
<1> QED
  BY <1>1, <1>2

LEMMA StepTop == Inv /\ [Next]_vars => HeldAsIssued' /\ (Fresh \/ \E v \in Versions : Top(v))'
<1> DEFINE Goal == HeldAsIssued' /\ (Fresh \/ \E v \in Versions : Top(v))'
<1> SUFFICES ASSUME Inv, [Next]_vars PROVE Goal
  OBVIOUS
<1> USE OneIsVersion DEF Inv
<1>1. ASSUME NEW n \in Nodes, EnsureFound(n) \/ EnsureReread(n) \/ Crash(n) PROVE Goal
  BY <1>1, HoldStep DEF EnsureFound, EnsureReread, Crash
<1>2. CASE UNCHANGED <<now, rows, held, issued, deadline>>
  <2>1. HeldAsIssued'
    BY <1>2 DEF HeldAsIssued
  <2>2. Fresh => Fresh'
    BY <1>2 DEF Fresh, Empty
  <2>3. ASSUME NEW v \in Versions, Top(v) PROVE Top(v)'
    BY <1>2, <2>3 DEF Top, Kept
  <2> QED
    BY <2>1, <2>2, <2>3
<1>3. ASSUME NEW n \in Nodes, EnsureMissing(n) \/ RotateBegin(n) \/ RotateRollback(n) PROVE Goal
  BY <1>2, <1>3 DEF EnsureMissing, RotateBegin, RotateRollback
<1>4. ASSUME NEW n \in Nodes, EnsureInsert(n) PROVE Goal
  <2>1. cand[n] \in Nat \ {0}
    BY <1>4 DEF EnsureInsert, Candidates, TypeOK
  <2>2. CASE Fresh
    <3>1. /\ rows' = [rows EXCEPT ![1] = Row(cand[n])]
          /\ issued' = [issued EXCEPT ![1] = cand[n]]
          /\ UNCHANGED <<now, held, deadline>>
      BY <1>4, <2>2 DEF EnsureInsert, Fresh, Empty
    <3>2. Top(1)'
      BY <2>1, <2>2, <3>1 DEF Fresh, Empty, Top, Row, TypeOK
    <3>3. HeldAsIssued'
      BY <2>2, <3>1 DEF Fresh, HeldAsIssued
    <3> QED
      BY <3>2, <3>3
  <2>3. ASSUME NEW v \in Versions, Top(v) PROVE Goal
    <3>1. UNCHANGED <<now, held, issued, deadline>>
      BY <1>4, <2>3 DEF EnsureInsert, Top
    <3>2. \A w \in Versions : rows[w].in => rows'[w] = rows[w]
      BY <1>4 DEF EnsureInsert, TypeOK
    <3>3. \A w \in Versions : w > v => rows'[w] = rows[w]
      BY <1>4, <2>3 DEF EnsureInsert, TypeOK
    <3>4. \A w \in Versions : w < v => Kept(w)'
      BY <2>3, <3>1, <3>2 DEF Top, Kept
    <3>5. Top(v)'
      BY <2>3, <3>1, <3>2, <3>3, <3>4 DEF Top
    <3>6. HeldAsIssued'
      BY <3>1 DEF HeldAsIssued
    <3> QED
      BY <3>5, <3>6
  <2> QED
    BY <2>2, <2>3
<1>5. ASSUME NEW n \in Nodes, NEW grace \in Graces, RotateCommit(n, grace) PROVE Goal
  <2>1. cand[n] \in Nat \ {0}
    BY <1>5 DEF RotateCommit, Candidates, TypeOK
  <2>2. PICK v \in Versions :
          /\ IsCurrent(v) /\ v < MaxVersion
          /\ rows' = [rows EXCEPT ![v+1] = Row(cand[n]), ![v] = Expire(@, when[n] + grace)]
          /\ issued' = [issued EXCEPT ![v+1] = cand[n]]
          /\ deadline' = [deadline EXCEPT ![v] = when[n] + grace]
    BY <1>5 DEF RotateCommit
  <2>3. Top(v)
    <3>1. PICK w \in Versions : Top(w)
      BY <2>2 DEF Fresh, Empty, IsCurrent
    <3> QED
      BY <2>2, <3>1, CurrentIsTop
  <2> DEFINE new == v + 1
  <2>4. new \in Versions /\ new # v /\ new # 1 /\ when[n] + grace \in Nat
    BY <2>2, SecretsAssumption DEF Versions, TypeOK
  <2>5. /\ rows'[new] = Row(cand[n])
        /\ rows'[v] = Expire(rows[v], when[n] + grace)
        /\ issued'[new] = cand[n]
        /\ deadline'[v] = when[n] + grace
        /\ deadline'[new] = deadline[new]
        /\ \A w \in Versions : w # new => issued'[w] = issued[w]
        /\ \A w \in Versions : w # v => deadline'[w] = deadline[w]
        /\ \A w \in Versions : w # v /\ w # new => rows'[w] = rows[w]
    BY <2>2, <2>4 DEF TypeOK
  <2>6. UNCHANGED <<now, held>>
    BY <1>5 DEF RotateCommit
  <2> HIDE DEF new
  <2>7. Kept(v)'
    <3>1. /\ rows'[v].in /\ rows'[v].value = rows[v].value
          /\ rows'[v].expires = when[n] + grace
      BY <2>3, <2>5 DEF Top, Expire
    <3>2. issued'[v] = issued[v] /\ rows[v].value = issued[v]
      BY <2>3, <2>4, <2>5 DEF Top
    <3>3. deadline'[v] # Null
      BY <2>4, <2>5 DEF Null
    <3> QED
      BY <2>5, <3>1, <3>2, <3>3 DEF Kept
  <2>8. ASSUME NEW w \in Versions, w < new PROVE Kept(w)'
    <3>1. w = v \/ w < v
      BY <2>8 DEF new
    <3>2. CASE w < v
      <4>1. w # v /\ w # new
        BY <3>2 DEF new
      <4>2. rows'[w] = rows[w] /\ issued'[w] = issued[w] /\ deadline'[w] = deadline[w]
        BY <2>5, <4>1
      <4>3. Kept(w)
        BY <2>3, <3>2 DEF Top
      <4> QED
        BY <2>6, <4>2, <4>3 DEF Kept
    <3> QED
      BY <2>7, <3>1, <3>2
  <2>9. ASSUME NEW w \in Versions, w > new
        PROVE  (~rows[w].in /\ issued[w] = 0 /\ deadline[w] = Null)'
    <3>1. w > v /\ w # v /\ w # new
      BY <2>9 DEF new
    <3> QED
      BY <2>3, <2>5, <3>1 DEF Top
  <2>10. rows'[new].in /\ rows'[new].value = cand[n] /\ rows'[new].expires = Null
    BY <2>5 DEF Row
  <2>11. deadline'[new] = Null /\ issued'[1] # 0
    BY <2>3, <2>4, <2>5 DEF Top, new
  <2>12. ASSUME NEW m \in Nodes PROVE held'[m].version <= new
    <3>1. held[m].version <= v
      BY <2>3 DEF Top
    <3>2. held[m].version \in Versions \cup {0}
      BY DEF TypeOK
    <3>3. \A x \in Versions \cup {0} : x <= v => x <= v + 1
      BY SecretsAssumption DEF Versions
    <3>4. held[m].version <= v + 1
      BY <3>1, <3>2, <3>3
    <3> QED
      BY <2>6, <3>4 DEF new
  <2>13. Top(new)'
    BY <2>1, <2>5, <2>8, <2>9, <2>10, <2>11, <2>12 DEF Top
  <2>14. HeldAsIssued'
    <3> SUFFICES ASSUME NEW m \in Nodes
                 PROVE  held'[m].value = IF held'[m].version = 0 THEN 0 ELSE issued'[held'[m].version]
      BY DEF HeldAsIssued
    <3>1. held[m].version # new
      BY <2>3 DEF Top, new, TypeOK
    <3> QED
      BY <2>5, <2>6, <3>1 DEF HeldAsIssued, TypeOK
  <2> QED
    BY <2>4, <2>13, <2>14
<1>6. CASE PruneSecrets
  <2>1. /\ rows' = [v \in Versions |-> IF Prunable(v) THEN NoRow ELSE rows[v]]
        /\ UNCHANGED <<now, held, issued, deadline>>
    BY <1>6 DEF PruneSecrets
  <2>2. HeldAsIssued'
    BY <2>1 DEF HeldAsIssued
  <2>3. ASSUME NEW v \in Versions, Top(v) PROVE Top(v)'
    <3>1. rows'[v] = rows[v]
      BY <2>1, <2>3 DEF Prunable, Top
    <3>2. ASSUME NEW w \in Versions, w < v PROVE Kept(w)'
      <4>1. Kept(w) /\ now \in Nat /\ deadline[w] \in Nat \cup {Null}
        BY <2>3, <3>2 DEF Top, TypeOK
      <4>2. issued[w] # 0 /\ now <= deadline[w] => ~Prunable(w)
        BY <4>1 DEF Kept, Prunable, Null
      <4> QED
        BY <2>1, <4>1, <4>2 DEF Kept
    <3>3. \A w \in Versions : w > v => ~rows'[w].in
      BY <2>1, <2>3 DEF Top, NoRow
    <3> QED
      BY <2>1, <2>3, <3>1, <3>2, <3>3 DEF Top
  <2>4. Fresh => Fresh'
    BY <2>1 DEF Fresh, Empty, NoRow
  <2> QED
    BY <2>2, <2>3, <2>4
<1>7. CASE Clock
  <2>1. now' = now + 1 /\ UNCHANGED <<rows, held, issued, deadline>>
    BY <1>7 DEF Clock
  <2>2. HeldAsIssued' /\ (Fresh => Fresh')
    BY <2>1 DEF HeldAsIssued, Fresh, Empty
  <2>3. ASSUME NEW v \in Versions, Top(v) PROVE Top(v)'
    <3>1. \A w \in Versions : Kept(w) => Kept(w)'
      BY <2>1 DEF Kept, TypeOK, Null
    <3> QED
      BY <2>1, <2>3, <3>1 DEF Top
  <2> QED
    BY <2>2, <2>3
<1>8. CASE UNCHANGED vars
  BY <1>2, <1>8 DEF vars
<1> HIDE DEF Goal
<1> QED
  BY <1>1, <1>3, <1>4, <1>5, <1>6, <1>7, <1>8 DEF Next

LEMMA Invariance == Spec => []Inv
<1>1. Inv /\ [Next]_vars => Inv'
  BY StepType, StepCandidates, StepTop DEF Inv
<1> QED
  BY <1>1, InitInv, PTL DEF Spec

(* Every reachable state is well typed: no stored value is empty.          *)
THEOREM TypeCorrect == Spec => []TypeOK
<1>1. Inv => TypeOK
  BY DEF Inv
<1> QED
  BY <1>1, Invariance, PTL

(* Nodes that hold the same version of a secret hold the same value.       *)
THEOREM NodesAgree == Spec => []Agreement
<1>1. Inv => Agreement
  BY DEF Inv, HeldAsIssued, Agreement
<1> QED
  BY <1>1, Invariance, PTL

(* The version GetSecret returns is never one that expires.                *)
THEOREM CurrentIsPermanent == Spec => []CurrentNeverExpires
<1>1. Inv => CurrentNeverExpires
  <2> SUFFICES ASSUME Inv, NEW v \in Versions, IsCurrent(v) PROVE rows[v].expires = Null
    BY DEF CurrentNeverExpires
  <2>1. PICK w \in Versions : Top(w)
    BY DEF Inv, Fresh, Empty, IsCurrent
  <2>2. w = v
    BY <2>1, CurrentIsTop DEF Inv
  <2> QED
    BY <2>1, <2>2 DEF Top
<1> QED
  BY <1>1, Invariance, PTL

(* A version stays stored as issued until the window it was given closes.  *)
THEOREM WindowIsKept == Spec => []WindowKept
<1>1. Inv => WindowKept
  <2> SUFFICES ASSUME Inv, NEW v \in Versions, issued[v] # 0,
                      deadline[v] = Null \/ now <= deadline[v]
               PROVE  rows[v].in /\ rows[v].value = issued[v]
    BY DEF WindowKept
  <2>1. PICK w \in Versions : Top(w)
    BY DEF Inv, Fresh
  <2>2. v = w \/ v < w \/ v > w
    BY OneIsVersion
  <2> QED
    BY <2>1, <2>2 DEF Top, Kept
<1> QED
  BY <1>1, Invariance, PTL
=============================================================================
