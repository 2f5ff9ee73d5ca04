-------------------------- MODULE SchedulerProofs --------------------------
(***************************************************************************)
(* Proofs about Scheduler for every set of nodes and tasks, every period,  *)
(* catch-up window, lock TTL and number of faults.                         *)
(*                                                                         *)
(* Mutual exclusion is not inductive as it stands: that two workers inside *)
(* a task cannot both be inside their leases follows from the lock row,    *)
(* which has one holder.  The inductive invariant therefore says that a    *)
(* worker inside its lease owns the row with exactly its own expiry        *)
(* (LeaseHeld) and that no captured time lies in the future (Past), so     *)
(* that a lease which an acquire finds expired really has expired.         *)
(***************************************************************************)
EXTENDS Scheduler, FiniteSetTheorems, TLAPS

(* No worker's captured time lies in the future.                           *)
Past == \A n \in Nodes, t \in Tasks : at[n][t] <= now

LeaseInv == TypeOK /\ Past /\ LeaseHeld

-----------------------------------------------------------------------------
(* schedule.Next returns a later instant, whatever the schedule.           *)
LEMMA NextIsLater ==
    ASSUME NEW t \in Tasks, NEW after \in Nat
    PROVE  Next(t, after) \in Nat /\ Next(t, after) > after
<1> DEFINE e == Every[t]
           q == after \div e
<1>1. e \in Nat \ {0}
  BY TimeAssumption
<1>2. q \in Nat /\ after < e * q + e
  <2>1. q \in Nat /\ after = e * q + (after % e) /\ after % e < e
    BY <1>1
  <2> QED
    BY <1>1, <2>1
<1>3. (q + 1) * e = e * q + e
  BY <1>1, <1>2
<1> QED
  BY <1>1, <1>2, <1>3 DEF Next

(* resumeNext returns a time, also for a row whose next_run_at is NULL.    *)
LEMMA ResumeNextType ==
    ASSUME NEW t \in Tasks, NEW row \in Rows, NEW start \in Nat
    PROVE  ResumeNext(t, row, start) \in Nat
BY NextIsLater DEF ResumeNext, Rows, Null

(* A worker's own step keeps the program counters well typed.              *)
LEMMA GotoType ==
    ASSUME TypeOK, NEW n \in Nodes, NEW t \in Tasks, NEW label \in Labels, Goto(n, t, label)
    PROVE  pc' \in [Nodes -> [Tasks -> Labels]]
BY DEF TypeOK, Goto

LEMMA LabelsType ==
    {"seed", "load", "persist", "idle", "begin", "lock", "exec", "wait", "exec2",
     "record", "release", "finish"} \subseteq Labels
BY DEF Labels, StartPC, Running, Executing

LEMMA InitType == Init => TypeOK
<1> SUFFICES ASSUME Init PROVE TypeOK
  OBVIOUS
<1>1. NoRow \in Rows /\ SwitchedOff \in Rows
  BY DEF NoRow, SwitchedOff, Rows, Null
<1>2. rows \in [Tasks -> Rows]
  BY <1>1 DEF Init
<1>3. locks \in [Tasks -> Locks]
  BY DEF Init, Locks
<1> QED
  BY <1>2, <1>3, LabelsType DEF Init, TypeOK

LEMMA StepType == TypeOK /\ [NextStep]_vars => TypeOK'
<1> SUFFICES ASSUME TypeOK, [NextStep]_vars PROVE TypeOK'
  OBVIOUS
<1> USE LabelsType DEF tables, memory, Fault
<1>1. CASE Clock
  BY <1>1 DEF Clock, TypeOK
<1>2. ASSUME NEW n \in Nodes, Start(n) PROVE TypeOK'
  BY <1>2 DEF Start, TypeOK
<1>3. ASSUME NEW n \in Nodes, StartLoop(n) PROVE TypeOK'
  BY <1>3 DEF StartLoop, TypeOK
<1>4. ASSUME NEW n \in Nodes, Tick(n) PROVE TypeOK'
  <2> DEFINE due == {t \in Tasks : DueEntry(n, t)}
  <2>1. Cardinality(due) \in Nat
    <3>1. IsFiniteSet(due)
      BY SetAssumption, FS_Subset
    <3> QED
      BY <3>1, FS_CardinalityType
  <2>2. wg' = [wg EXCEPT ![n] = @ + Cardinality(due)]
    BY <1>4 DEF Tick
  <2>3. wg' \in [Nodes -> Int]
    <3> HIDE DEF due
    <3> QED BY <2>1, <2>2 DEF TypeOK
  <2>4. pc' \in [Nodes -> [Tasks -> Labels]]
    BY <1>4 DEF Tick, TypeOK
  <2> QED
    BY <1>4, <2>3, <2>4 DEF Tick, TypeOK
<1>5. ASSUME NEW n \in Nodes, Stop(n) PROVE TypeOK'
  BY <1>5 DEF Stop, TypeOK
<1>6. ASSUME NEW n \in Nodes, LoopExit(n) PROVE TypeOK'
  BY <1>6 DEF LoopExit, TypeOK
<1>7. ASSUME NEW n \in Nodes, StopReturns(n) PROVE TypeOK'
  BY <1>7 DEF StopReturns, TypeOK
<1>8. ASSUME NEW n \in Nodes, Exit(n) PROVE TypeOK'
  BY <1>8 DEF Exit, TypeOK
<1>9. ASSUME NEW n \in Nodes, NEW t \in Tasks, Seed(n, t) PROVE TypeOK'
  BY <1>9, GotoType DEF Seed, TypeOK, Rows, Null
<1>10. ASSUME NEW n \in Nodes, NEW t \in Tasks, Load(n, t) PROVE TypeOK'
  <2>1. rows[t] \in Rows /\ startAt[n] \in Nat
    BY DEF TypeOK
  <2>2. ResumeNext(t, rows[t], startAt[n]) \in Nat
    BY <2>1, ResumeNextType
  <2>3. rows[t].enabled \in BOOLEAN
    BY <2>1 DEF Rows
  <2> QED
    BY <1>10, <2>2, <2>3, GotoType DEF Load, TypeOK
<1>11. ASSUME NEW n \in Nodes, NEW t \in Tasks, Persist(n, t) PROVE TypeOK'
  BY <1>11, GotoType DEF Persist, TypeOK, Rows, SetNextRun
<1>12. ASSUME NEW n \in Nodes, NEW t \in Tasks, Begin(n, t) PROVE TypeOK'
  BY <1>12, GotoType DEF Begin, TypeOK
<1>13. ASSUME NEW n \in Nodes, NEW t \in Tasks, Acquire(n, t) PROVE TypeOK'
  <2>1. Lock(n, at[n][t] + LockTTL) \in Locks
    BY TimeAssumption DEF TypeOK, Lock, Locks
  <2>2. locks' \in [Tasks -> Locks]
    BY <1>13, <2>1 DEF Acquire, TypeOK
  <2>3. pc' \in [Nodes -> [Tasks -> Labels]]
    BY <1>13, GotoType DEF Acquire
  <2> QED
    BY <1>13, <2>2, <2>3 DEF Acquire, TypeOK
<1>14. ASSUME NEW n \in Nodes, NEW t \in Tasks, AcquireError(n, t) PROVE TypeOK'
  BY <1>14, GotoType DEF AcquireError, TypeOK
<1>15. ASSUME NEW n \in Nodes, NEW t \in Tasks, Exec(n, t) PROVE TypeOK'
  <2>1. Run(n, t) \in Runs
    BY DEF TypeOK, Run, Runs
  <2>2. pc' \in [Nodes -> [Tasks -> Labels]]
    BY <1>15, GotoType DEF Exec
  <2> QED
    BY <1>15, <2>1, <2>2 DEF Exec, TypeOK
<1>16. ASSUME NEW n \in Nodes, NEW t \in Tasks, RetryFires(n, t) PROVE TypeOK'
  BY <1>16, GotoType DEF RetryFires, TypeOK
<1>17. ASSUME NEW n \in Nodes, NEW t \in Tasks, RetryStopped(n, t) PROVE TypeOK'
  BY <1>17, GotoType DEF RetryStopped, TypeOK
<1>18. ASSUME NEW n \in Nodes, NEW t \in Tasks, Exec2(n, t) PROVE TypeOK'
  BY <1>18, GotoType DEF Exec2, TypeOK
<1>19. ASSUME NEW n \in Nodes, NEW t \in Tasks, Record(n, t) PROVE TypeOK'
  <2>1. Run(n, t) \in Runs
    BY DEF TypeOK, Run, Runs
  <2> QED
    BY <1>19, <2>1, GotoType DEF Record, TypeOK
<1>20. ASSUME NEW n \in Nodes, NEW t \in Tasks, Release(n, t) PROVE TypeOK'
  <2>1. locks' \in [Tasks -> Locks]
    BY <1>20 DEF Release, TypeOK, Locks
  <2>2. pc' \in [Nodes -> [Tasks -> Labels]]
    BY <1>20, GotoType DEF Release
  <2>3. faults' \in Nat
    BY <1>20 DEF Release, TypeOK
  <2> QED
    BY <1>20, <2>1, <2>2, <2>3 DEF Release, TypeOK
<1>21. ASSUME NEW n \in Nodes, NEW t \in Tasks, Finish(n, t) PROVE TypeOK'
  <2>1. Next(t, at[n][t]) \in Nat
    BY NextIsLater DEF TypeOK
  <2>2. SetNextRun(rows[t], Next(t, at[n][t])) \in Rows
    BY <2>1 DEF TypeOK, Rows, SetNextRun
  <2>3. rows' \in [Tasks -> Rows]
    BY <1>21, <2>2 DEF Finish, TypeOK
  <2>4. next' \in [Nodes -> [Tasks -> Nat]] /\ wg' \in [Nodes -> Int]
    BY <1>21, <2>1 DEF Finish, TypeOK
  <2>5. faults' \in Nat
    BY <1>21 DEF Finish, TypeOK
  <2> QED
    BY <1>21, <2>3, <2>4, <2>5, GotoType DEF Finish, TypeOK
<1>22. CASE UNCHANGED vars
  BY <1>22 DEF vars, TypeOK
<1> QED
  BY <1>1, <1>2, <1>3, <1>4, <1>5, <1>6, <1>7, <1>8, <1>9, <1>10, <1>11, <1>12,
     <1>13, <1>14, <1>15, <1>16, <1>17, <1>18, <1>19, <1>20, <1>21, <1>22
  DEF NextStep, Boot, Work

(* Every reachable state is well typed.                                    *)
THEOREM TypeCorrect == Spec => []TypeOK
BY InitType, StepType, PTL DEF Spec

-----------------------------------------------------------------------------
LEMMA InitPast == Init => Past
BY DEF Init, Past

(* Time only grows, and runEntry captures the present.                     *)
LEMMA StepPast == TypeOK /\ Past /\ [NextStep]_vars => Past'
<1> SUFFICES ASSUME TypeOK, Past, [NextStep]_vars PROVE Past'
  OBVIOUS
<1> USE DEF memory, Past, TypeOK
<1>1. CASE Clock
  BY <1>1 DEF Clock
<1>2. ASSUME NEW n \in Nodes, Exit(n) PROVE Past'
  BY <1>2 DEF Exit
<1>3. ASSUME NEW n \in Nodes, NEW t \in Tasks, Begin(n, t) PROVE Past'
  BY <1>3 DEF Begin
<1>4. CASE UNCHANGED <<now, at>>
  BY <1>4
<1>5. ASSUME NEW n \in Nodes,
             \/ Start(n) \/ StartLoop(n) \/ Tick(n)
             \/ Stop(n) \/ LoopExit(n) \/ StopReturns(n)
      PROVE  UNCHANGED <<now, at>>
  BY <1>5 DEF Start, StartLoop, Tick, Stop, LoopExit, StopReturns
<1>6. ASSUME NEW n \in Nodes, NEW t \in Tasks, Boot(n, t) \/ AcquireError(n, t)
      PROVE  UNCHANGED <<now, at>>
  BY <1>6 DEF Boot, Seed, Load, Persist, AcquireError
<1>7. ASSUME NEW n \in Nodes, NEW t \in Tasks,
             \/ Acquire(n, t) \/ Exec(n, t) \/ RetryFires(n, t)
             \/ RetryStopped(n, t) \/ Exec2(n, t)
             \/ Record(n, t) \/ Release(n, t) \/ Finish(n, t)
      PROVE  UNCHANGED <<now, at>>
  BY <1>7 DEF Acquire, Exec, RetryFires, RetryStopped, Exec2, Record, Release, Finish
<1>8. CASE UNCHANGED vars
  BY <1>4, <1>8 DEF vars
<1> HIDE DEF Past, TypeOK
<1> QED
  BY <1>1, <1>2, <1>3, <1>4, <1>5, <1>6, <1>7, <1>8 DEF NextStep, Work

-----------------------------------------------------------------------------
(* A step that touches neither lock rows nor captured times, and takes no  *)
(* worker from outside to inside its task, cannot break a lease.           *)
LEMMA LeaseFrame ==
    ASSUME TypeOK, Past, LeaseHeld, now' \in Nat, now <= now',
           UNCHANGED <<locks, at>>,
           \A n \in Nodes, t \in ClusterTasks :
               pc'[n][t] \in Executing => pc[n][t] \in Executing
    PROVE  LeaseHeld'
<1> SUFFICES ASSUME NEW t \in ClusterTasks, NEW n \in Nodes,
                    Holds(n, t)', now' <= at'[n][t] + LockTTL
             PROVE  locks'[t] = Lock(n, at'[n][t] + LockTTL)
  BY DEF LeaseHeld, Holds, Lock
<1>1. Holds(n, t)
  BY DEF Holds
<1>2. at[n][t] \in Nat /\ now <= at[n][t] + LockTTL
  BY SetAssumption, TimeAssumption DEF TypeOK
<1> QED
  BY <1>1, <1>2 DEF LeaseHeld

LEMMA InitLease == Init => LeaseHeld
BY SetAssumption DEF Init, LeaseHeld, Holds, Executing

LEMMA StepLease == LeaseInv /\ [NextStep]_vars => LeaseHeld'
<1> SUFFICES ASSUME TypeOK, Past, LeaseHeld, [NextStep]_vars PROVE LeaseHeld'
  BY DEF LeaseInv
<1> USE DEF tables, memory, Executing
<1>a. now \in Nat /\ ClusterTasks \subseteq Tasks
  BY SetAssumption DEF TypeOK
<1>1. CASE Clock
  BY <1>1, <1>a, LeaseFrame DEF Clock
<1>2. ASSUME NEW n \in Nodes, Start(n) PROVE LeaseHeld'
  BY <1>2, <1>a, LeaseFrame DEF Start
<1>3. ASSUME NEW n \in Nodes, StartLoop(n) PROVE LeaseHeld'
  BY <1>3, <1>a, LeaseFrame DEF StartLoop
<1>4. ASSUME NEW n \in Nodes, Tick(n) PROVE LeaseHeld'
  <2>1. \A m \in Nodes, u \in ClusterTasks :
           pc'[m][u] \in Executing => pc[m][u] \in Executing
    BY <1>4, <1>a DEF Tick, TypeOK
  <2> QED
    BY <1>4, <1>a, <2>1, LeaseFrame DEF Tick
<1>5. ASSUME NEW n \in Nodes, Stop(n) PROVE LeaseHeld'
  BY <1>5, <1>a, LeaseFrame DEF Stop
<1>6. ASSUME NEW n \in Nodes, LoopExit(n) PROVE LeaseHeld'
  BY <1>6, <1>a, LeaseFrame DEF LoopExit
<1>7. ASSUME NEW n \in Nodes, StopReturns(n) PROVE LeaseHeld'
  BY <1>7, <1>a, LeaseFrame DEF StopReturns
<1>8. ASSUME NEW n \in Nodes, Exit(n) PROVE LeaseHeld'
  BY <1>8, <1>a DEF Exit, LeaseHeld, Holds, TypeOK, Lock
<1>9. ASSUME NEW n \in Nodes, NEW t \in Tasks, NEW label \in Labels \ Executing,
             Goto(n, t, label), UNCHANGED <<now, locks, at>>
      PROVE  LeaseHeld'
  <2>1. \A m \in Nodes, u \in ClusterTasks :
           pc'[m][u] \in Executing => pc[m][u] \in Executing
    BY <1>9, <1>a DEF Goto, TypeOK
  <2> QED
    BY <1>9, <1>a, <2>1, LeaseFrame
<1>10. ASSUME NEW n \in Nodes, NEW t \in Tasks, NEW label, pc[n][t] \in Executing,
              Goto(n, t, label), UNCHANGED <<now, locks, at>>
       PROVE  LeaseHeld'
  <2>1. \A m \in Nodes, u \in ClusterTasks :
           pc'[m][u] \in Executing => pc[m][u] \in Executing
    BY <1>10, <1>a DEF Goto, TypeOK
  <2> QED
    BY <1>10, <1>a, <2>1, LeaseFrame
<1>11. ASSUME NEW n \in Nodes, NEW t \in Tasks, Begin(n, t) PROVE LeaseHeld'
  BY <1>11, <1>a DEF Begin, Goto, LeaseHeld, Holds, TypeOK, Lock
<1>12. ASSUME NEW n \in Nodes, NEW t \in Tasks, Acquire(n, t) PROVE LeaseHeld'
  <2>1. CASE ~Takeable(t, n, at[n][t])
    BY <1>9, <1>12, <2>1, LabelsType DEF Acquire
  <2>2. CASE Takeable(t, n, at[n][t])
    <3> SUFFICES ASSUME NEW u \in ClusterTasks, NEW m \in Nodes,
                        Holds(m, u)', now' <= at'[m][u] + LockTTL
                 PROVE  locks'[u] = Lock(m, at'[m][u] + LockTTL)
      BY DEF LeaseHeld, Holds, Lock
    <3>1. /\ locks' = [locks EXCEPT ![t] = Lock(n, at[n][t] + LockTTL)]
          /\ pc' = [pc EXCEPT ![n][t] = "exec"]
          /\ at' = at /\ now' = now
      BY <1>12, <2>2 DEF Acquire, Goto
    <3>2. CASE m = n /\ u = t
      BY <3>1, <3>2, <1>a DEF TypeOK
    <3>3. CASE ~(m = n /\ u = t)
      <4>1. Holds(m, u)
        BY <3>1, <3>3, <1>a DEF Holds, TypeOK
      <4>2. locks[u] = Lock(m, at[m][u] + LockTTL)
        BY <3>1, <4>1 DEF LeaseHeld
      <4>3. u # t
        <5>1. SUFFICES ASSUME u = t PROVE FALSE
          OBVIOUS
        <5>2. m # n
          BY <3>3, <5>1
        <5>3. at[n][t] <= now /\ at[n][t] \in Nat /\ at[m][t] \in Nat
          BY DEF Past, TypeOK
        <5>4. locks[t].held /\ locks[t].holder = m /\ locks[t].expires = at[m][t] + LockTTL
          BY <4>2, <5>1 DEF Lock
        <5>5. ~(locks[t].expires < at[n][t])
          BY <3>1, <5>1, <5>3, <5>4, <1>a, TimeAssumption
        <5> QED
          BY <2>2, <5>2, <5>4, <5>5 DEF Takeable
      <4> QED
        BY <3>1, <4>2, <4>3, <1>a DEF TypeOK
    <3> QED
      BY <3>2, <3>3
  <2> QED
    BY <2>1, <2>2
<1>13. ASSUME NEW n \in Nodes, NEW t \in Tasks, Release(n, t) PROVE LeaseHeld'
  <2> SUFFICES ASSUME NEW u \in ClusterTasks, NEW m \in Nodes,
                      Holds(m, u)', now' <= at'[m][u] + LockTTL
               PROVE  locks'[u] = Lock(m, at'[m][u] + LockTTL)
    BY DEF LeaseHeld, Holds, Lock
  <2>1. pc' = [pc EXCEPT ![n][t] = "finish"] /\ at' = at /\ now' = now
    BY <1>13 DEF Release, Goto
  <2>2. ~(m = n /\ u = t) /\ Holds(m, u)
    BY <2>1, <1>a DEF Holds, TypeOK
  <2>3. locks[u] = Lock(m, at[m][u] + LockTTL)
    BY <2>1, <2>2 DEF LeaseHeld
  <2>4. locks[u].holder = m
    BY <2>3 DEF Lock
  <2>5. locks'[u] = locks[u]
    BY <1>13, <2>2, <2>4, <1>a DEF Release, TypeOK
  <2> QED
    BY <2>1, <2>3, <2>5
<1>14. CASE UNCHANGED vars
  BY <1>14, <1>a, LeaseFrame DEF vars
<1>15. ASSUME NEW n \in Nodes, NEW t \in Tasks, Boot(n, t) PROVE LeaseHeld'
  BY <1>15, <1>9, LabelsType DEF Boot, Seed, Load, Persist
<1>16. ASSUME NEW n \in Nodes, NEW t \in Tasks, AcquireError(n, t) PROVE LeaseHeld'
  BY <1>16, <1>9, LabelsType DEF AcquireError
<1>17. ASSUME NEW n \in Nodes, NEW t \in Tasks, Finish(n, t) PROVE LeaseHeld'
  BY <1>17, <1>9, LabelsType DEF Finish
<1>18. ASSUME NEW n \in Nodes, NEW t \in Tasks,
              Exec(n, t) \/ RetryFires(n, t) \/ RetryStopped(n, t) \/ Exec2(n, t) \/ Record(n, t)
       PROVE  LeaseHeld'
  BY <1>18, <1>10 DEF Exec, RetryFires, RetryStopped, Exec2, Record
<1> QED
  BY <1>1, <1>2, <1>3, <1>4, <1>5, <1>6, <1>7, <1>8, <1>11, <1>12, <1>13, <1>14,
     <1>15, <1>16, <1>17, <1>18
  DEF NextStep, Work

LEMMA LeaseInvariant == Spec => []LeaseInv
<1>1. Init => LeaseInv
  BY InitType, InitPast, InitLease DEF LeaseInv
<1>2. LeaseInv /\ [NextStep]_vars => LeaseInv'
  BY StepType, StepPast, StepLease DEF LeaseInv
<1> QED
  BY <1>1, <1>2, PTL DEF Spec

(* Inside its lease a worker owns its task's lock row: no other node's     *)
(* acquire, release or restart takes it away.                              *)
THEOREM LeaseIsKept == Spec => []LeaseHeld
<1>1. LeaseInv => LeaseHeld
  BY DEF LeaseInv
<1> QED
  BY <1>1, LeaseInvariant, PTL

(* Two nodes execute the same cluster-aware task at once only if one of    *)
(* them has outlived its lease.                                            *)
THEOREM MutualExclusion == Spec => []LeaseExclusion
<1>1. LeaseInv => LeaseExclusion
  <2> SUFFICES ASSUME LeaseInv, NEW t \in ClusterTasks, NEW m \in Nodes, NEW n \in Nodes,
                      m # n, Holds(m, t), Holds(n, t),
                      ~(at[m][t] + LockTTL < now), ~(at[n][t] + LockTTL < now)
               PROVE  FALSE
    BY DEF LeaseExclusion
  <2>1. now <= at[m][t] + LockTTL /\ now <= at[n][t] + LockTTL
    BY SetAssumption, TimeAssumption DEF LeaseInv, TypeOK
  <2>2. locks[t] = Lock(m, at[m][t] + LockTTL) /\ locks[t] = Lock(n, at[n][t] + LockTTL)
    BY <2>1 DEF LeaseInv, LeaseHeld
  <2>3. locks[t].holder = m /\ locks[t].holder = n
    BY <2>2 DEF Lock
  <2> QED
    BY <2>3
<1> QED
  BY <1>1, LeaseInvariant, PTL

-----------------------------------------------------------------------------
(* The refinement of TaskLease.  A node counts as inside a task while it   *)
(* holds it within its term; only Acquire adds a node, and it finds nobody *)
(* inside because whoever is owns an unexpired row (LeaseHeld).            *)
Within(n, t) == Holds(n, t) /\ now <= at[n][t] + LockTTL

(* A step that brings nobody inside is a lapse of the abstract lease.      *)
LEMMA LapseFrame ==
    ASSUME \A n \in Nodes, t \in ClusterTasks : Within(n, t)' => Within(n, t)
    PROVE  Lease!Lapse
BY DEF Lease!Lapse, Within

(* Neither does a step that captures no later time and takes no worker     *)
(* from outside to inside its task.                                        *)
LEMMA LapseByControl ==
    ASSUME TypeOK, now' \in Nat, now <= now', UNCHANGED at,
           \A n \in Nodes, t \in ClusterTasks :
               pc'[n][t] \in Executing => pc[n][t] \in Executing
    PROVE  Lease!Lapse
<1>1. ASSUME NEW n \in Nodes, NEW t \in ClusterTasks, Within(n, t)' PROVE Within(n, t)
  <2>1. Holds(n, t)
    BY <1>1 DEF Within, Holds
  <2>2. now' <= at[n][t] + LockTTL /\ at[n][t] \in Nat /\ now \in Nat
    BY <1>1, SetAssumption DEF Within, TypeOK
  <2> QED
    BY <2>1, <2>2, TimeAssumption DEF Within
<1> QED
  BY <1>1, LapseFrame

LEMMA InitRefines == Init => Lease!Init
<1> SUFFICES ASSUME Init PROVE Lease!Init
  OBVIOUS
<1>1. \A n \in Nodes, t \in ClusterTasks : ~Holds(n, t)
  BY SetAssumption DEF Init, Holds, Executing
<1> QED
  BY <1>1 DEF Lease!Init

LEMMA AcquireRefines ==
    ASSUME LeaseInv, NEW n \in Nodes, NEW t \in Tasks, Acquire(n, t)
    PROVE  Lease!Next
<1> USE DEF LeaseInv, Executing
<1>a. now \in Nat /\ ClusterTasks \subseteq Tasks /\ now' = now /\ at' = at
  BY SetAssumption DEF TypeOK, Acquire, memory
<1>b. ASSUME NEW m \in Nodes, NEW u \in ClusterTasks, m # n \/ u # t
      PROVE  Within(m, u)' <=> Within(m, u)
  <2>1. pc'[m][u] = pc[m][u]
    BY <1>a, <1>b DEF Acquire, Goto, TypeOK
  <2> QED
    BY <1>a, <2>1 DEF Within, Holds
<1>1. CASE t \in ClusterTasks /\ Within(n, t)'
  <2>1. Takeable(t, n, at[n][t]) /\ ~Holds(n, t)
    <3>1. pc[n][t] = "lock" /\ pc'[n][t] \in Executing
      BY <1>1, <1>a DEF Acquire, Within, Holds
    <3>2. CASE ~Takeable(t, n, at[n][t])
      BY <3>1, <3>2, <1>a DEF Acquire, Goto, TypeOK
    <3> QED
      BY <3>1, <3>2 DEF Holds
  <2>2. ASSUME NEW m \in Nodes, Within(m, t) PROVE FALSE
    <3>1. m # n
      BY <2>1, <2>2 DEF Within
    <3>2. locks[t] = Lock(m, at[m][t] + LockTTL)
      BY <1>1, <2>2 DEF Within, LeaseHeld
    <3>3. locks[t].held /\ locks[t].holder = m /\ locks[t].expires = at[m][t] + LockTTL
      BY <3>2 DEF Lock
    <3>4. at[n][t] <= now /\ at[n][t] \in Nat /\ at[m][t] \in Nat /\ now <= at[m][t] + LockTTL
      BY <2>2 DEF Past, TypeOK, Within
    <3>5. ~(locks[t].expires < at[n][t])
      BY <3>3, <3>4, <1>a, TimeAssumption
    <3> QED
      BY <2>1, <3>1, <3>3, <3>5 DEF Takeable
  <2> DEFINE In(u) == {m \in Nodes : Within(m, u)}
  <2>3. In(t) = {} /\ In(t)' = {n}
    BY <1>1, <1>b, <2>2
  <2>4. \A u \in ClusterTasks \ {t} : In(u)' = In(u)
    BY <1>b
  <2>5. /\ [u \in ClusterTasks |-> In(u)][t] = {}
        /\ [u \in ClusterTasks |-> In(u)'] = [[u \in ClusterTasks |-> In(u)] EXCEPT ![t] = {n}]
    <3> HIDE DEF In
    <3> QED
      BY <1>1, <2>3, <2>4
  <2>6. Lease!Enter(n, t)
    BY <2>5 DEF Lease!Enter, Within
  <2> QED
    BY <1>1, <2>6 DEF Lease!Next
<1>2. CASE ~(t \in ClusterTasks /\ Within(n, t)')
  <2>1. \A m \in Nodes, u \in ClusterTasks : Within(m, u)' => Within(m, u)
    BY <1>2, <1>b
  <2> QED
    BY <2>1, LapseFrame DEF Lease!Next
<1> QED
  BY <1>1, <1>2

LEMMA StepRefines == LeaseInv /\ [NextStep]_vars => Lease!Next
<1> SUFFICES ASSUME LeaseInv, TypeOK, [NextStep]_vars PROVE Lease!Next
  BY DEF LeaseInv
<1> USE DEF tables, memory, Executing
<1>a. now \in Nat /\ ClusterTasks \subseteq Tasks
  BY SetAssumption DEF TypeOK
<1>b. Lease!Lapse => Lease!Next
  BY DEF Lease!Next
<1>1. CASE Clock
  BY <1>1, <1>a, <1>b, LapseByControl DEF Clock
<1>2. ASSUME NEW n \in Nodes, Start(n) \/ StartLoop(n) \/ Stop(n) \/ LoopExit(n) \/ StopReturns(n)
      PROVE  Lease!Next
  <2>1. UNCHANGED <<now, pc, at>>
    BY <1>2 DEF Start, StartLoop, Stop, LoopExit, StopReturns
  <2> QED
    BY <2>1, <1>a, <1>b, LapseByControl
<1>3. ASSUME NEW n \in Nodes, Tick(n) PROVE Lease!Next
  <2>1. \A m \in Nodes, u \in ClusterTasks :
           pc'[m][u] \in Executing => pc[m][u] \in Executing
    BY <1>3, <1>a DEF Tick, TypeOK
  <2> QED
    BY <1>3, <1>a, <1>b, <2>1, LapseByControl DEF Tick
<1>4. ASSUME NEW n \in Nodes, Exit(n) PROVE Lease!Next
  <2>1. \A m \in Nodes, u \in ClusterTasks : Within(m, u)' => Within(m, u)
    BY <1>4, <1>a DEF Exit, Within, Holds, TypeOK
  <2> QED
    BY <2>1, <1>b, LapseFrame
<1>5. ASSUME NEW n \in Nodes, NEW t \in Tasks, Begin(n, t) PROVE Lease!Next
  <2>1. \A m \in Nodes, u \in ClusterTasks : Within(m, u)' => Within(m, u)
    BY <1>5, <1>a DEF Begin, Goto, Within, Holds, TypeOK
  <2> QED
    BY <2>1, <1>b, LapseFrame
<1>6. ASSUME NEW n \in Nodes, NEW t \in Tasks, NEW label,
             label \notin Executing \/ pc[n][t] \in Executing,
             Goto(n, t, label), UNCHANGED <<now, at>>
      PROVE  Lease!Next
  <2>1. \A m \in Nodes, u \in ClusterTasks :
           pc'[m][u] \in Executing => pc[m][u] \in Executing
    BY <1>6, <1>a DEF Goto, TypeOK
  <2> QED
    BY <1>6, <1>a, <1>b, <2>1, LapseByControl
<1>7. ASSUME NEW n \in Nodes, NEW t \in Tasks,
             Boot(n, t) \/ AcquireError(n, t) \/ Release(n, t) \/ Finish(n, t)
      PROVE  Lease!Next
  BY <1>6, <1>7 DEF Boot, Seed, Load, Persist, AcquireError, Release, Finish
<1>8. ASSUME NEW n \in Nodes, NEW t \in Tasks,
             Exec(n, t) \/ RetryFires(n, t) \/ RetryStopped(n, t) \/ Exec2(n, t) \/ Record(n, t)
      PROVE  Lease!Next
  BY <1>6, <1>8 DEF Exec, RetryFires, RetryStopped, Exec2, Record
<1>9. CASE UNCHANGED vars
  BY <1>9, <1>a, <1>b, LapseByControl DEF vars
<1> QED
  BY <1>1, <1>2, <1>3, <1>4, <1>5, <1>7, <1>8, <1>9, AcquireRefines
  DEF NextStep, Work

(* The cluster_locks protocol implements the abstract lease: every step of *)
(* every node is a step of TaskLease, in which a node enters a task only   *)
(* when nobody is inside it.                                               *)
THEOREM LeaseRefinement == Spec => ImplementsLease
<1> DEFINE inside == [t \in ClusterTasks |->
                       {n \in Nodes : Holds(n, t) /\ now <= at[n][t] + LockTTL}]
<1>1. LeaseInv /\ [NextStep]_vars => [Lease!Next]_inside
  BY StepRefines
<1> QED
  BY <1>1, InitRefines, LeaseInvariant, PTL DEF Spec, ImplementsLease, Lease!Spec

-----------------------------------------------------------------------------
(* That a disabled task never runs needs the whole way of the flag: a row, *)
(* once seeded, keeps its flag; past Load an entry agrees with its row;    *)
(* and only enabled entries are running.                                   *)
Seeded(n, t) == pc[n][t] # "seed" => rows[t].seeded
Agrees(n, t) == pc[n][t] \notin {"seed", "load"} => enabled[n][t] = rows[t].enabled
Allowed(n, t) == pc[n][t] \in Running => enabled[n][t]
RanAllowed == \A r \in ran : rows[r.task].seeded /\ rows[r.task].enabled
EnabledInv ==
    /\ \A n \in Nodes, t \in Tasks : Seeded(n, t) /\ Agrees(n, t) /\ Allowed(n, t)
    /\ RanAllowed

(* A step that keeps the flags of the seeded rows and the flags of the     *)
(* entries, brings no entry past "load" and starts no run.                 *)
LEMMA EnabledFrame ==
    ASSUME TypeOK, TypeOK', EnabledInv, UNCHANGED <<enabled, ran>>,
           \A t \in Tasks : rows[t].seeded =>
               rows'[t].seeded /\ rows'[t].enabled = rows[t].enabled,
           \A n \in Nodes, t \in Tasks :
               /\ pc'[n][t] # "seed" => pc[n][t] # "seed" \/ rows'[t].seeded
               /\ pc'[n][t] \notin {"seed", "load"} => pc[n][t] \notin {"seed", "load"}
               /\ pc'[n][t] \in Running => pc[n][t] \in Running \/ enabled[n][t]
    PROVE  EnabledInv'
<1>1. ASSUME NEW n \in Nodes, NEW t \in Tasks
      PROVE  (Seeded(n, t) /\ Agrees(n, t) /\ Allowed(n, t))'
  <2> USE DEF EnabledInv
  <2>1. Seeded(n, t)'
    BY DEF Seeded
  <2>2. Agrees(n, t)'
    BY DEF Agrees, Seeded
  <2>3. Allowed(n, t)'
    BY DEF Allowed
  <2> QED
    BY <2>1, <2>2, <2>3
<1>2. RanAllowed'
  BY DEF EnabledInv, RanAllowed, TypeOK, Runs
<1> QED
  BY <1>1, <1>2 DEF EnabledInv

LEMMA InitEnabled == Init => EnabledInv
BY DEF Init, EnabledInv, Seeded, Agrees, Allowed, RanAllowed, Running, Executing

LEMMA StepEnabled == TypeOK /\ TypeOK' /\ EnabledInv /\ [NextStep]_vars => EnabledInv'
<1> SUFFICES ASSUME TypeOK, TypeOK', EnabledInv, [NextStep]_vars PROVE EnabledInv'
  OBVIOUS
<1> USE DEF tables, memory
<1>1. ASSUME UNCHANGED <<rows, enabled, pc, ran>> PROVE EnabledInv'
  BY <1>1, EnabledFrame
<1>2. ASSUME NEW n \in Nodes, NEW t \in Tasks, NEW label \in Running \cup {"idle"},
             pc[n][t] \in Running, Goto(n, t, label),
             UNCHANGED <<enabled, ran>>,
             \A u \in Tasks : rows'[u].seeded = rows[u].seeded /\ rows'[u].enabled = rows[u].enabled
      PROVE  EnabledInv'
  <2>1. pc' = [pc EXCEPT ![n][t] = label]
    BY <1>2 DEF Goto
  <2>2. pc[n][t] \notin {"seed", "load"}
    BY <1>2 DEF Running, Executing
  <2> QED
    BY <1>2, <2>1, <2>2, EnabledFrame DEF TypeOK
<1>3. ASSUME NEW n \in Nodes, NEW t \in Tasks, Seed(n, t) PROVE EnabledInv'
  <2>1. /\ pc' = [pc EXCEPT ![n][t] = "load"]
        /\ rows'[t].seeded
        /\ UNCHANGED <<enabled, ran>>
    BY <1>3 DEF Seed, Goto, TypeOK
  <2>2. \A u \in Tasks : rows[u].seeded =>
               rows'[u].seeded /\ rows'[u].enabled = rows[u].enabled
    BY <1>3 DEF Seed, TypeOK
  <2>3. "load" \notin Running
    BY DEF Running, Executing
  <2> QED
    BY <2>1, <2>2, <2>3, EnabledFrame DEF TypeOK
<1>4. ASSUME NEW n \in Nodes, NEW t \in Tasks, Load(n, t) PROVE EnabledInv'
  <2>1. /\ pc' = [pc EXCEPT ![n][t] = "persist"]
        /\ enabled' = [enabled EXCEPT ![n][t] = rows[t].enabled]
        /\ UNCHANGED <<rows, ran>>
    BY <1>4 DEF Load, Goto
  <2>2. ASSUME NEW m \in Nodes, NEW u \in Tasks
        PROVE  (Seeded(m, u) /\ Agrees(m, u) /\ Allowed(m, u))'
    <3>1. pc[n][t] = "load" /\ "persist" \notin Running
      BY <1>4 DEF Load, Running, Executing
    <3>2. CASE m = n /\ u = t
      BY <2>1, <3>1, <3>2 DEF EnabledInv, Seeded, Agrees, Allowed, TypeOK
    <3>3. CASE ~(m = n /\ u = t)
      <4>1. pc'[m][u] = pc[m][u] /\ enabled'[m][u] = enabled[m][u]
        BY <2>1, <3>3 DEF TypeOK
      <4> QED
        BY <2>1, <4>1 DEF EnabledInv, Seeded, Agrees, Allowed
    <3> QED
      BY <3>2, <3>3
  <2> QED
    BY <2>1, <2>2 DEF EnabledInv, RanAllowed
<1>5. ASSUME NEW n \in Nodes, NEW t \in Tasks, Persist(n, t) PROVE EnabledInv'
  <2>1. /\ pc' = [pc EXCEPT ![n][t] = "idle"]
        /\ pc[n][t] = "persist"
        /\ UNCHANGED <<enabled, ran>>
    BY <1>5 DEF Persist, Goto
  <2>2. \A u \in Tasks : rows'[u].seeded = rows[u].seeded /\ rows'[u].enabled = rows[u].enabled
    BY <1>5 DEF Persist, SetNextRun, TypeOK
  <2>3. "idle" \notin Running
    BY DEF Running, Executing
  <2> QED
    BY <2>1, <2>2, <2>3, EnabledFrame DEF TypeOK
<1>6. ASSUME NEW n \in Nodes, Tick(n) PROVE EnabledInv'
  <2>1. \A m \in Nodes, u \in Tasks :
            pc'[m][u] = pc[m][u] \/ (pc[m][u] = "idle" /\ enabled[m][u])
    BY <1>6 DEF Tick, DueEntry, TypeOK
  <2>2. UNCHANGED <<rows, enabled, ran>>
    BY <1>6 DEF Tick
  <2> QED
    BY <2>1, <2>2, EnabledFrame DEF TypeOK
<1>7. ASSUME NEW n \in Nodes, Exit(n) PROVE EnabledInv'
  <2>1. "seed" \notin Running
    BY DEF Running, Executing
  <2>2. UNCHANGED <<rows, ran>>
    BY <1>7 DEF Exit
  <2>3. ASSUME NEW m \in Nodes, NEW u \in Tasks
        PROVE  (Seeded(m, u) /\ Agrees(m, u) /\ Allowed(m, u))'
    <3>1. pc'[m][u] = "seed" \/ (pc'[m][u] = pc[m][u] /\ enabled'[m][u] = enabled[m][u])
      <4>1. /\ pc' = [pc EXCEPT ![n] = [t \in Tasks |-> "seed"]]
            /\ enabled' = [enabled EXCEPT ![n] = [t \in Tasks |-> TRUE]]
        BY <1>7 DEF Exit
      <4>2. DOMAIN pc = Nodes /\ DOMAIN enabled = Nodes
        BY DEF TypeOK
      <4> QED
        BY <4>1, <4>2
    <3> QED
      BY <2>1, <2>2, <3>1 DEF EnabledInv, Seeded, Agrees, Allowed
  <2> QED
    BY <2>2, <2>3 DEF EnabledInv, RanAllowed
<1>8. ASSUME NEW n \in Nodes, NEW t \in Tasks, Exec(n, t) PROVE EnabledInv'
  <2>1. /\ pc[n][t] \in Running
        /\ ran' = ran \cup {Run(n, t)}
        /\ UNCHANGED <<rows, enabled>>
        /\ \E label \in Running : pc' = [pc EXCEPT ![n][t] = label]
    BY <1>8 DEF Exec, Goto, Running, Executing
  <2>2. rows[t].seeded /\ rows[t].enabled
    BY <1>8, <2>1 DEF Exec, EnabledInv, Seeded, Agrees, Allowed
  <2>3. Run(n, t).task = t
    BY DEF Run
  <2>4. RanAllowed'
    BY <2>1, <2>2, <2>3 DEF EnabledInv, RanAllowed
  <2>5. ASSUME NEW m \in Nodes, NEW u \in Tasks
        PROVE  (Seeded(m, u) /\ Agrees(m, u) /\ Allowed(m, u))'
    <3>1. pc'[m][u] = pc[m][u] \/ (pc[m][u] \in Running /\ pc[m][u] \notin {"seed", "load"})
      BY <1>8, <2>1 DEF Exec, TypeOK
    <3> QED
      BY <2>1, <3>1 DEF EnabledInv, Seeded, Agrees, Allowed
  <2> QED
    BY <2>4, <2>5 DEF EnabledInv
<1>9. ASSUME NEW n \in Nodes,
             Start(n) \/ StartLoop(n) \/ Stop(n) \/ LoopExit(n) \/ StopReturns(n)
      PROVE  EnabledInv'
  BY <1>1, <1>9 DEF Start, StartLoop, Stop, LoopExit, StopReturns
<1>10. CASE Clock
  BY <1>1, <1>10 DEF Clock
<1>11. CASE UNCHANGED vars
  BY <1>1, <1>11 DEF vars
<1>12. ASSUME NEW n \in Nodes, NEW t \in Tasks, AcquireError(n, t) PROVE EnabledInv'
  BY <1>2, <1>12 DEF AcquireError, Running, Executing
<1>13. ASSUME NEW n \in Nodes, NEW t \in Tasks, Begin(n, t) \/ Acquire(n, t)
       PROVE  EnabledInv'
  BY <1>2, <1>13 DEF Begin, Acquire, Running, Executing
<1>14. ASSUME NEW n \in Nodes, NEW t \in Tasks,
              RetryFires(n, t) \/ RetryStopped(n, t) \/ Exec2(n, t)
       PROVE  EnabledInv'
  BY <1>2, <1>14 DEF RetryFires, RetryStopped, Exec2, Running, Executing
<1>15. ASSUME NEW n \in Nodes, NEW t \in Tasks, Record(n, t) \/ Release(n, t)
       PROVE  EnabledInv'
  BY <1>2, <1>15 DEF Record, Release, Running, Executing
<1>16. ASSUME NEW n \in Nodes, NEW t \in Tasks, Finish(n, t) PROVE EnabledInv'
  <2> DEFINE following == Next(t, at[n][t])
  <2>1. \/ rows' = [rows EXCEPT ![t] = SetNextRun(@, following)]
        \/ rows' = rows
    BY <1>16 DEF Finish
  <2>2. /\ SetNextRun(rows[t], following).seeded = rows[t].seeded
        /\ SetNextRun(rows[t], following).enabled = rows[t].enabled
    BY DEF SetNextRun
  <2> HIDE DEF following
  <2>3. \A u \in Tasks : rows'[u].seeded = rows[u].seeded /\ rows'[u].enabled = rows[u].enabled
    BY <2>1, <2>2 DEF TypeOK
  <2> QED
    BY <1>2, <1>16, <2>3 DEF Finish, Running, Executing
<1> QED
  BY <1>3, <1>4, <1>5, <1>6, <1>7, <1>8, <1>9, <1>10, <1>11, <1>12, <1>13, <1>14,
     <1>15, <1>16
  DEF NextStep, Boot, Work

(* A task switched off in scheduler_tasks is never executed by any node.   *)
THEOREM OffStaysOff == Spec => []DisabledNeverRuns
<1>1. TypeOK /\ EnabledInv => DisabledNeverRuns
  BY DEF EnabledInv, RanAllowed, DisabledNeverRuns
<1> QED
  BY <1>1, InitEnabled, StepEnabled, TypeCorrect, PTL DEF Spec

-----------------------------------------------------------------------------
(* What the times of an entry mean to each other.  Past Load its next is   *)
(* inside the catch-up window of this start; while a worker runs, next is  *)
(* due; and once runEntry has captured its time, that time is neither      *)
(* before next nor before the start.                                       *)
Window(n, t) == pc[n][t] \notin {"seed", "load"} => next[n][t] >= startAt[n] - CatchUp
DueNow(n, t) == pc[n][t] \in Running => next[n][t] <= now
Captured(n, t) ==
    pc[n][t] \in Running \ {"begin"} => next[n][t] <= at[n][t] /\ startAt[n] <= at[n][t]
Timed(n, t) == Window(n, t) /\ DueNow(n, t) /\ Captured(n, t)
TimesInv ==
    /\ \A n \in Nodes : startAt[n] <= now
    /\ \A n \in Nodes : proc[n] = "down" => \A t \in Tasks : pc[n][t] = "seed"
    /\ \A n \in Nodes, t \in Tasks : Timed(n, t)

LEMMA InitTimes == Init => TimesInv
BY DEF Init, TimesInv, Timed, Window, DueNow, Captured, Running, Executing

(* One entry moves, possibly with its next and its captured time.          *)
LEMMA TimesMove ==
    ASSUME TypeOK, TypeOK', TimesInv, NEW n \in Nodes, NEW t \in Tasks,
           pc[n][t] # "seed" \/ proc[n] # "down", Timed(n, t)',
           UNCHANGED <<now, startAt, proc>>,
           \A m \in Nodes, u \in Tasks : ~(m = n /\ u = t) =>
             pc'[m][u] = pc[m][u] /\ next'[m][u] = next[m][u] /\ at'[m][u] = at[m][u]
    PROVE  TimesInv'
<1>1. \A m \in Nodes : startAt'[m] <= now'
  BY DEF TimesInv
<1>2. \A m \in Nodes : proc'[m] = "down" => \A u \in Tasks : pc'[m][u] = "seed"
  BY DEF TimesInv
<1>3. ASSUME NEW m \in Nodes, NEW u \in Tasks PROVE Timed(m, u)'
  <2>1. CASE m = n /\ u = t
    BY <2>1
  <2>2. CASE ~(m = n /\ u = t)
    BY <2>2 DEF TimesInv, Timed, Window, DueNow, Captured
  <2> QED
    BY <2>1, <2>2
<1> QED
  BY <1>1, <1>2, <1>3 DEF TimesInv

(* A worker or Start goes on without touching its times.                   *)
LEMMA TimesGoto ==
    ASSUME TypeOK, TypeOK', TimesInv, NEW n \in Nodes, NEW t \in Tasks, NEW label,
           Goto(n, t, label), pc[n][t] # "seed" \/ proc[n] # "down",
           UNCHANGED <<now, startAt, proc, next, at>>,
           label \in {"seed", "load"} \/ pc[n][t] \notin {"seed", "load"},
           label \in Running => pc[n][t] \in Running /\ label # "begin",
           label \in Running => pc[n][t] # "begin"
    PROVE  TimesInv'
<1>1. /\ pc'[n][t] = label
      /\ \A m \in Nodes, u \in Tasks : ~(m = n /\ u = t) => pc'[m][u] = pc[m][u]
  BY DEF Goto, TypeOK
<1>2. Timed(n, t)'
  BY <1>1 DEF TimesInv, Timed, Window, DueNow, Captured
<1> QED
  BY <1>1, <1>2, TimesMove

LEMMA StepTimes == TypeOK /\ TypeOK' /\ TimesInv /\ [NextStep]_vars => TimesInv'
<1> SUFFICES ASSUME TypeOK, TypeOK', TimesInv, [NextStep]_vars PROVE TimesInv'
  OBVIOUS
<1> USE DEF tables, memory
<1>a. /\ "begin" \in Running /\ "lock" \in Running /\ "exec" \in Running /\ "finish" \in Running
      /\ Executing \subseteq Running
      /\ {"seed", "load", "persist", "idle"} \cap Running = {}
  BY DEF Running, Executing
<1>1. CASE Clock
  BY <1>1 DEF Clock, TimesInv, Timed, Window, DueNow, Captured, TypeOK
<1>2. ASSUME NEW n \in Nodes, Start(n) PROVE TimesInv'
  <2>1. /\ \A t \in Tasks : pc[n][t] = "seed"
        /\ startAt'[n] = now /\ \A m \in Nodes : m # n => startAt'[m] = startAt[m]
        /\ proc'[n] = "starting" /\ \A m \in Nodes : m # n => proc'[m] = proc[m]
        /\ UNCHANGED <<now, pc, next, at>>
    BY <1>2 DEF Start, TimesInv, TypeOK
  <2>2. ASSUME NEW m \in Nodes, NEW u \in Tasks PROVE Timed(m, u)'
    <3>1. CASE m = n
      BY <1>a, <2>1, <3>1 DEF Timed, Window, DueNow, Captured
    <3>2. CASE m # n
      BY <2>1, <3>2 DEF TimesInv, Timed, Window, DueNow, Captured
    <3> QED
      BY <3>1, <3>2
  <2>3. ASSUME NEW m \in Nodes PROVE startAt'[m] <= now'
    <3>1. CASE m = n
      BY <2>1, <3>1 DEF TypeOK
    <3>2. CASE m # n
      BY <2>1, <3>2 DEF TimesInv
    <3> QED
      BY <3>1, <3>2
  <2> QED
    BY <2>1, <2>2, <2>3 DEF TimesInv
<1>3. ASSUME NEW n \in Nodes, StartLoop(n) \/ Stop(n) \/ LoopExit(n) \/ StopReturns(n) PROVE TimesInv'
  <2>1. /\ UNCHANGED <<now, startAt, pc, next, at>>
        /\ \A m \in Nodes : proc'[m] = "down" => proc[m] = "down"
    BY <1>3 DEF StartLoop, Stop, LoopExit, StopReturns, TypeOK
  <2> QED
    BY <2>1 DEF TimesInv, Timed, Window, DueNow, Captured
<1>4. ASSUME NEW n \in Nodes, Tick(n) PROVE TimesInv'
  <2>1. /\ UNCHANGED <<now, startAt, proc, next, at>> /\ proc[n] = "looping"
        /\ \A m \in Nodes, u \in Tasks :
             pc'[m][u] # pc[m][u] =>
               m = n /\ pc'[m][u] = "begin" /\ pc[m][u] = "idle" /\ next[m][u] <= now
    BY <1>4 DEF Tick, DueEntry, TypeOK
  <2>2. ASSUME NEW m \in Nodes, NEW u \in Tasks PROVE Timed(m, u)'
    BY <2>1 DEF TimesInv, Timed, Window, DueNow, Captured
  <2> QED
    BY <2>1, <2>2 DEF TimesInv
<1>5. ASSUME NEW n \in Nodes, Exit(n) PROVE TimesInv'
  <2>1. /\ now' = now /\ startAt'[n] = 0 /\ (\A t \in Tasks : pc'[n][t] = "seed")
        /\ \A m \in Nodes : m # n =>
             /\ proc'[m] = proc[m] /\ startAt'[m] = startAt[m] /\ pc'[m] = pc[m]
             /\ next'[m] = next[m] /\ at'[m] = at[m]
    BY <1>5 DEF Exit, TypeOK
  <2>2. ASSUME NEW m \in Nodes, NEW u \in Tasks PROVE Timed(m, u)'
    <3>1. CASE m = n
      BY <1>a, <2>1, <3>1 DEF Timed, Window, DueNow, Captured
    <3>2. CASE m # n
      BY <2>1, <3>2 DEF TimesInv, Timed, Window, DueNow, Captured
    <3> QED
      BY <3>1, <3>2
  <2>3. ASSUME NEW m \in Nodes PROVE startAt'[m] <= now'
    <3>1. CASE m = n
      BY <2>1, <3>1 DEF TypeOK
    <3>2. CASE m # n
      BY <2>1, <3>2 DEF TimesInv
    <3> QED
      BY <3>1, <3>2
  <2> QED
    BY <2>1, <2>2, <2>3 DEF TimesInv
<1>6. ASSUME NEW n \in Nodes, NEW t \in Tasks, Seed(n, t) PROVE TimesInv'
  BY <1>6, <1>a, TimesGoto DEF Seed
<1>7. ASSUME NEW n \in Nodes, NEW t \in Tasks, Load(n, t) PROVE TimesInv'
  <2> DEFINE time == ResumeNext(t, rows[t], startAt[n])
  <2>1. rows[t] \in Rows /\ startAt[n] \in Nat
    BY DEF TypeOK
  <2>2. time >= startAt[n] - CatchUp /\ time \in Nat
    BY <2>1, NextIsLater, ResumeNextType, TimeAssumption DEF ResumeNext, Rows
  <2>3. /\ next' = [next EXCEPT ![n][t] = time]
        /\ pc' = [pc EXCEPT ![n][t] = "persist"] /\ pc[n][t] = "load"
        /\ UNCHANGED <<now, startAt, proc, at>>
    BY <1>7 DEF Load, Goto
  <2> HIDE DEF time
  <2>4. /\ next'[n][t] = time /\ pc'[n][t] = "persist"
        /\ \A m \in Nodes, u \in Tasks : ~(m = n /\ u = t) =>
             pc'[m][u] = pc[m][u] /\ next'[m][u] = next[m][u] /\ at'[m][u] = at[m][u]
    BY <2>3 DEF TypeOK
  <2>5. Timed(n, t)'
    BY <1>a, <2>2, <2>3, <2>4 DEF Timed, Window, DueNow, Captured
  <2> QED
    BY <2>3, <2>4, <2>5, TimesMove
<1>8. ASSUME NEW n \in Nodes, NEW t \in Tasks, Persist(n, t) PROVE TimesInv'
  BY <1>8, <1>a, TimesGoto DEF Persist
<1>9. ASSUME NEW n \in Nodes, NEW t \in Tasks, Begin(n, t) PROVE TimesInv'
  <2>1. /\ at' = [at EXCEPT ![n][t] = now] /\ pc[n][t] = "begin"
        /\ \E label \in {"lock", "exec"} : pc' = [pc EXCEPT ![n][t] = label]
        /\ UNCHANGED <<now, startAt, proc, next>>
    BY <1>9 DEF Begin, Goto
  <2>2. /\ at'[n][t] = now /\ pc'[n][t] \in {"lock", "exec"}
        /\ \A m \in Nodes, u \in Tasks : ~(m = n /\ u = t) =>
             pc'[m][u] = pc[m][u] /\ next'[m][u] = next[m][u] /\ at'[m][u] = at[m][u]
    BY <2>1 DEF TypeOK
  <2>3. next[n][t] <= now /\ startAt[n] <= now /\ next[n][t] >= startAt[n] - CatchUp
    BY <1>a, <2>1 DEF TimesInv, Timed, DueNow, Window
  <2>4. Timed(n, t)'
    BY <2>1, <2>2, <2>3 DEF Timed, Window, DueNow, Captured
  <2> QED
    BY <2>1, <2>2, <2>4, TimesMove
<1>10. ASSUME NEW n \in Nodes, NEW t \in Tasks, NEW label \in Running \ {"begin"},
              Goto(n, t, label), pc[n][t] \in Running \ {"begin"}, UNCHANGED <<now, startAt, proc, next, at>>
       PROVE  TimesInv'
  BY <1>10, <1>a, TimesGoto
<1>11. ASSUME NEW n \in Nodes, NEW t \in Tasks, Acquire(n, t) \/ AcquireError(n, t) PROVE TimesInv'
  BY <1>10, <1>11 DEF Acquire, AcquireError, Running, Executing
<1>12. ASSUME NEW n \in Nodes, NEW t \in Tasks,
              Exec(n, t) \/ RetryFires(n, t) \/ RetryStopped(n, t) \/ Exec2(n, t)
       PROVE  TimesInv'
  BY <1>10, <1>12 DEF Exec, RetryFires, RetryStopped, Exec2, Running, Executing
<1>13. ASSUME NEW n \in Nodes, NEW t \in Tasks, Record(n, t) \/ Release(n, t) PROVE TimesInv'
  BY <1>10, <1>13 DEF Record, Release, Running, Executing
<1>14. ASSUME NEW n \in Nodes, NEW t \in Tasks, Finish(n, t) PROVE TimesInv'
  <2> DEFINE time == Next(t, at[n][t])
  <2>1. at[n][t] \in Nat /\ startAt[n] \in Nat /\ time \in Nat /\ time > at[n][t]
    BY NextIsLater DEF TypeOK
  <2>2. /\ next' = [next EXCEPT ![n][t] = time]
        /\ pc' = [pc EXCEPT ![n][t] = "idle"] /\ pc[n][t] = "finish"
        /\ UNCHANGED <<now, startAt, proc, at>>
    BY <1>14 DEF Finish, Goto
  <2> HIDE DEF time
  <2>3. /\ next'[n][t] = time /\ pc'[n][t] = "idle"
        /\ \A m \in Nodes, u \in Tasks : ~(m = n /\ u = t) =>
             pc'[m][u] = pc[m][u] /\ next'[m][u] = next[m][u] /\ at'[m][u] = at[m][u]
    BY <2>2 DEF TypeOK
  <2>4. startAt[n] <= at[n][t]
    BY <1>a, <2>2 DEF TimesInv, Timed, Captured
  <2>5. time >= startAt[n] - CatchUp
    BY <2>1, <2>4, TimeAssumption
  <2>6. Timed(n, t)'
    BY <1>a, <2>2, <2>3, <2>5 DEF Timed, Window, DueNow, Captured
  <2> QED
    BY <2>2, <2>3, <2>6, TimesMove
<1>15. CASE UNCHANGED vars
  BY <1>15 DEF vars, TimesInv, Timed, Window, DueNow, Captured
<1> QED
  BY <1>1, <1>2, <1>3, <1>4, <1>5, <1>6, <1>7, <1>8, <1>9, <1>11, <1>12, <1>13, <1>14, <1>15
  DEF NextStep, Boot, Work

LEMMA TimesInvariant == Spec => [](TypeOK /\ TimesInv)
BY InitTimes, StepTimes, TypeCorrect, PTL DEF Spec

(* No node starts anything older than its catch-up window, after any       *)
(* number of crashes and restarts of any number of nodes.                  *)
THEOREM NoStormEver == Spec => []NoStorm
<1>1. TimesInv => NoStorm
  BY DEF TimesInv, Timed, Window, NoStorm
<1> QED
  BY <1>1, TimesInvariant, PTL

-----------------------------------------------------------------------------
(* The WaitGroup counts what it should: the loop while it loops, and every *)
(* running entry.  Only a looping process starts workers, so none is left  *)
(* once the count is zero.                                                 *)
Workers(n) == {t \in Tasks : pc[n][t] \in Running}
Loops(n) == IF proc[n] = "looping" THEN 1 ELSE 0
CountInv ==
    \A n \in Nodes :
        /\ wg[n] = Loops(n) + Cardinality(Workers(n))
        /\ proc[n] \in {"down", "starting", "stopped"} => Workers(n) = {}

LEMMA WorkersFinite ==
    ASSUME NEW n PROVE IsFiniteSet(Workers(n)) /\ Cardinality(Workers(n)) \in Nat
<1>1. IsFiniteSet(Workers(n))
  BY SetAssumption, FS_Subset DEF Workers
<1> QED
  BY <1>1, FS_CardinalityType

LEMMA InitCount == Init => CountInv
<1> SUFFICES ASSUME Init, NEW n \in Nodes
             PROVE  wg[n] = Loops(n) + Cardinality(Workers(n)) /\ Workers(n) = {}
  BY DEF CountInv
<1>1. Workers(n) = {}
  BY DEF Init, Workers, Running, Executing
<1>2. Cardinality(Workers(n)) = 0
  BY <1>1, FS_EmptySet
<1>3. wg[n] = 0 /\ Loops(n) = 0
  BY DEF Init, Loops
<1> QED
  BY <1>1, <1>2, <1>3

(* Nobody starts or stops running.                                         *)
LEMMA CountFrame ==
    ASSUME CountInv, UNCHANGED <<wg, proc>>,
           \A n \in Nodes, t \in Tasks : pc'[n][t] \in Running <=> pc[n][t] \in Running
    PROVE  CountInv'
<1>1. \A n \in Nodes : Workers(n)' = Workers(n) /\ Loops(n)' = Loops(n)
  BY DEF Workers, Loops
<1> QED
  BY <1>1 DEF CountInv

LEMMA CountGoto ==
    ASSUME TypeOK, CountInv, NEW n \in Nodes, NEW t \in Tasks, NEW label, Goto(n, t, label),
           label \in Running <=> pc[n][t] \in Running, UNCHANGED <<wg, proc>>
    PROVE  CountInv'
<1>1. \A m \in Nodes, u \in Tasks : pc'[m][u] \in Running <=> pc[m][u] \in Running
  BY DEF Goto, TypeOK
<1> QED
  BY <1>1, CountFrame

(* One node changes; its new count is shown right.                         *)
LEMMA CountNode ==
    ASSUME TypeOK, CountInv, NEW n \in Nodes,
           \A m \in Nodes : m # n => wg'[m] = wg[m] /\ proc'[m] = proc[m] /\ pc'[m] = pc[m],
           wg'[n] = Loops(n)' + Cardinality(Workers(n)'),
           proc'[n] \in {"down", "starting", "stopped"} => Workers(n)' = {}
    PROVE  CountInv'
<1> SUFFICES ASSUME NEW m \in Nodes, m # n
             PROVE  /\ wg'[m] = Loops(m)' + Cardinality(Workers(m)')
                    /\ proc'[m] \in {"down", "starting", "stopped"} => Workers(m)' = {}
  BY DEF CountInv
<1>1. Workers(m)' = Workers(m) /\ Loops(m)' = Loops(m)
  BY DEF Workers, Loops
<1> QED
  BY <1>1 DEF CountInv

LEMMA TickCounts == ASSUME TypeOK, CountInv, NEW n \in Nodes, Tick(n) PROVE CountInv'
<1> DEFINE due == {t \in Tasks : DueEntry(n, t)}
<1>1. /\ proc' = proc /\ proc[n] = "looping"
      /\ wg'[n] = wg[n] + Cardinality(due)
      /\ \A m \in Nodes : m # n => wg'[m] = wg[m] /\ pc'[m] = pc[m]
      /\ \A t \in Tasks : pc'[n][t] = IF t \in due THEN "begin" ELSE pc[n][t]
  BY DEF Tick, TypeOK
<1>2. "begin" \in Running /\ "idle" \notin Running
  BY DEF Running, Executing
<1>3. Workers(n)' = Workers(n) \cup due /\ Workers(n) \cap due = {}
  BY <1>1, <1>2 DEF Workers, DueEntry
<1>4. IsFiniteSet(due)
  BY SetAssumption, FS_Subset
<1> HIDE DEF due
<1>5. Cardinality(Workers(n)') = Cardinality(Workers(n)) + Cardinality(due)
  <2>1. Cardinality(Workers(n) \cup due)
          = Cardinality(Workers(n)) + Cardinality(due) - Cardinality(Workers(n) \cap due)
    BY <1>4, WorkersFinite, FS_Union
  <2>2. Cardinality(Workers(n) \cap due) = 0
    BY <1>3, FS_EmptySet
  <2>3. Cardinality(due) \in Nat
    BY <1>4, FS_CardinalityType
  <2> QED
    BY <1>3, <2>1, <2>2, <2>3, WorkersFinite
<1>6. Cardinality(due) \in Nat
  BY <1>4, FS_CardinalityType
<1>7. wg[n] = 1 + Cardinality(Workers(n)) /\ Loops(n)' = 1
  BY <1>1 DEF CountInv, Loops
<1>8. wg'[n] = Loops(n)' + Cardinality(Workers(n)')
  BY <1>1, <1>5, <1>6, <1>7, WorkersFinite
<1> QED
  BY <1>1, <1>8, CountNode

LEMMA FinishCounts ==
    ASSUME TypeOK, CountInv, NEW n \in Nodes, NEW t \in Tasks, Finish(n, t) PROVE CountInv'
<1>1. /\ proc' = proc /\ pc[n][t] = "finish" /\ wg'[n] = wg[n] - 1
      /\ \A m \in Nodes : m # n => wg'[m] = wg[m] /\ pc'[m] = pc[m]
      /\ \A u \in Tasks : pc'[n][u] = IF u = t THEN "idle" ELSE pc[n][u]
  BY DEF Finish, Goto, TypeOK
<1>2. "finish" \in Running /\ "idle" \notin Running
  BY DEF Running, Executing
<1>3. t \in Workers(n) /\ Workers(n)' = Workers(n) \ {t}
  BY <1>1, <1>2 DEF Workers
<1>4. Cardinality(Workers(n)') = Cardinality(Workers(n)) - 1
  BY <1>3, WorkersFinite, FS_RemoveElement
<1>5. proc[n] \notin {"down", "starting", "stopped"}
  BY <1>3 DEF CountInv
<1>6. wg[n] = Loops(n) + Cardinality(Workers(n)) /\ Loops(n)' = Loops(n) /\ Loops(n) \in Nat
  BY <1>1 DEF CountInv, Loops
<1>7. wg'[n] = Loops(n)' + Cardinality(Workers(n)')
  BY <1>1, <1>4, <1>6, WorkersFinite
<1> QED
  BY <1>1, <1>5, <1>7, CountNode

LEMMA StepCount == TypeOK /\ CountInv /\ [NextStep]_vars => CountInv'
<1> SUFFICES ASSUME TypeOK, CountInv, [NextStep]_vars PROVE CountInv'
  OBVIOUS
<1> USE DEF tables, memory
<1>1. CASE Clock \/ UNCHANGED vars
  BY <1>1, CountFrame DEF Clock, vars
<1>2. ASSUME NEW n \in Nodes, Start(n) \/ StartLoop(n) \/ LoopExit(n) \/ StopReturns(n) PROVE CountInv'
  <2>1. /\ UNCHANGED pc
        /\ \A m \in Nodes : m # n => wg'[m] = wg[m] /\ proc'[m] = proc[m] /\ pc'[m] = pc[m]
    BY <1>2 DEF Start, StartLoop, LoopExit, StopReturns, TypeOK
  <2>2. Workers(n)' = Workers(n)
    BY <2>1 DEF Workers
  <2>3. wg[n] = Loops(n) + Cardinality(Workers(n)) /\ Cardinality(Workers(n)) \in Nat
    BY WorkersFinite DEF CountInv
  <2>4. CASE Start(n)
    <3>1. wg' = wg /\ Loops(n) = 0 /\ Loops(n)' = 0 /\ Workers(n) = {}
      BY <2>4 DEF Start, Loops, CountInv, TypeOK
    <3> QED
      BY <2>1, <2>2, <2>3, <3>1, CountNode
  <2>5. CASE StartLoop(n)
    <3>1. Workers(n) = {} /\ wg'[n] = 1 /\ Loops(n)' = 1 /\ proc'[n] = "looping"
      BY <2>5 DEF StartLoop, Loops, CountInv, TypeOK
    <3>2. Cardinality(Workers(n)) = 0
      BY <3>1, FS_EmptySet
    <3>3. wg'[n] = Loops(n)' + Cardinality(Workers(n)')
      BY <2>2, <3>1, <3>2
    <3> QED
      BY <2>1, <3>1, <3>3, CountNode
  <2>6. CASE LoopExit(n)
    <3>1. wg'[n] = wg[n] - 1 /\ Loops(n) = 1 /\ Loops(n)' = 0 /\ proc'[n] = "draining"
      BY <2>6 DEF LoopExit, Loops, TypeOK
    <3>2. wg'[n] = Loops(n)' + Cardinality(Workers(n)')
      BY <2>2, <2>3, <3>1
    <3> QED
      BY <2>1, <3>1, <3>2, CountNode
  <2>7. CASE StopReturns(n)
    <3>1. wg' = wg /\ wg[n] = 0 /\ Loops(n) \in {0, 1} /\ Loops(n)' = 0
      BY <2>7 DEF StopReturns, Loops, TypeOK
    <3>2. Cardinality(Workers(n)) = 0
      BY <2>3, <3>1
    <3>3. Workers(n) = {}
      BY <3>2, WorkersFinite, FS_EmptySet
    <3>4. wg'[n] = Loops(n)' + Cardinality(Workers(n)')
      BY <2>2, <3>1, <3>2
    <3> QED
      BY <2>1, <2>2, <3>3, <3>4, CountNode
  <2> QED
    BY <1>2, <2>4, <2>5, <2>6, <2>7
<1>3. ASSUME NEW n \in Nodes, Stop(n) PROVE CountInv'
  BY <1>3, CountFrame DEF Stop
<1>4. ASSUME NEW n \in Nodes, Exit(n) PROVE CountInv'
  <2>1. /\ wg'[n] = 0 /\ proc'[n] = "down" /\ (\A t \in Tasks : pc'[n][t] = "seed")
        /\ \A m \in Nodes : m # n => wg'[m] = wg[m] /\ proc'[m] = proc[m] /\ pc'[m] = pc[m]
    BY <1>4 DEF Exit, TypeOK
  <2>2. Workers(n)' = {} /\ Loops(n)' = 0
    BY <2>1 DEF Workers, Loops, Running, Executing
  <2>3. Cardinality(Workers(n)') = 0
    BY <2>2, FS_EmptySet
  <2>4. wg'[n] = Loops(n)' + Cardinality(Workers(n)')
    BY <2>1, <2>2, <2>3
  <2> QED
    BY <2>1, <2>2, <2>4, CountNode
<1>5. ASSUME NEW n \in Nodes, NEW t \in Tasks, Boot(n, t) \/ AcquireError(n, t) PROVE CountInv'
  BY <1>5, CountGoto DEF Boot, Seed, Load, Persist, AcquireError, Running, Executing
<1>6. ASSUME NEW n \in Nodes, NEW t \in Tasks, Begin(n, t) \/ Acquire(n, t) PROVE CountInv'
  BY <1>6, CountGoto DEF Begin, Acquire, Running, Executing
<1>7. ASSUME NEW n \in Nodes, NEW t \in Tasks,
             Exec(n, t) \/ RetryFires(n, t) \/ RetryStopped(n, t) \/ Exec2(n, t)
      PROVE  CountInv'
  BY <1>7, CountGoto DEF Exec, RetryFires, RetryStopped, Exec2, Running, Executing
<1>8. ASSUME NEW n \in Nodes, NEW t \in Tasks, Record(n, t) \/ Release(n, t) PROVE CountInv'
  BY <1>8, CountGoto DEF Record, Release, Running, Executing
<1> QED
  BY <1>1, <1>2, <1>3, <1>4, <1>5, <1>6, <1>7, <1>8, TickCounts, FinishCounts
  DEF NextStep, Work

(* Stop returns only when every worker goroutine is gone.                  *)
THEOREM StopIsDrained == Spec => []StopDrained
<1>1. CountInv => StopDrained
  BY DEF CountInv, Workers, StopDrained
<1> QED
  BY <1>1, InitCount, StepCount, TypeCorrect, PTL DEF Spec

-----------------------------------------------------------------------------
(* A run is recorded, or it is the one its worker is about to record.      *)
RecordedInv ==
    faults = 0 =>
        \A r \in ran : r.task \notin RetryTasks =>
            r \in history \/ (pc[r.node][r.task] = "record" /\ r = Run(r.node, r.task))

(* Only steps without a fault leave the count at zero.                     *)
LEMMA FaultsCount ==
    ASSUME TypeOK PROVE (Fault => faults' # 0) /\ (faults' = faults \/ Fault => (faults' = 0 => faults = 0))
BY DEF TypeOK, Fault

LEMMA RecordedFrame ==
    ASSUME TypeOK, RecordedInv, faults' = 0 => faults = 0, ran' = ran, history \subseteq history',
           faults' = 0 => \A n \in Nodes, t \in Tasks : pc[n][t] = "record" =>
             \/ pc'[n][t] = "record" /\ next'[n][t] = next[n][t] /\ at'[n][t] = at[n][t]
             \/ Run(n, t) \in history'
    PROVE  RecordedInv'
<1> SUFFICES ASSUME faults' = 0, NEW r \in ran, r.task \notin RetryTasks
             PROVE  r \in history' \/ (pc'[r.node][r.task] = "record" /\ r = Run(r.node, r.task)')
  BY DEF RecordedInv
<1>1. r.node \in Nodes /\ r.task \in Tasks
  BY DEF TypeOK, Runs
<1>2. r \in history \/ (pc[r.node][r.task] = "record" /\ r = Run(r.node, r.task))
  BY DEF RecordedInv
<1> QED
  BY <1>1, <1>2 DEF Run

(* A worker that is not about to record goes on.                           *)
LEMMA RecordedGoto ==
    ASSUME TypeOK, RecordedInv, NEW n \in Nodes, NEW t \in Tasks, NEW label, pc[n][t] # "record",
           Goto(n, t, label), faults' = faults \/ Fault, ran' = ran, history' = history,
           \A m \in Nodes, u \in Tasks : ~(m = n /\ u = t) =>
             next'[m][u] = next[m][u] /\ at'[m][u] = at[m][u]
    PROVE  RecordedInv'
<1>1. \A m \in Nodes, u \in Tasks : ~(m = n /\ u = t) => pc'[m][u] = pc[m][u]
  BY DEF Goto, TypeOK
<1> QED
  BY <1>1, FaultsCount, RecordedFrame

LEMMA StepRecorded == TypeOK /\ CountInv /\ RecordedInv /\ [NextStep]_vars => RecordedInv'
<1> SUFFICES ASSUME TypeOK, CountInv, RecordedInv, [NextStep]_vars PROVE RecordedInv'
  OBVIOUS
<1> USE DEF tables, memory
<1>1. CASE Clock \/ UNCHANGED vars
  BY <1>1, RecordedFrame DEF Clock, vars
<1>2. ASSUME NEW n \in Nodes, Start(n) \/ StartLoop(n) \/ Stop(n) \/ LoopExit(n) \/ StopReturns(n)
      PROVE  RecordedInv'
  BY <1>2, RecordedFrame DEF Start, StartLoop, Stop, LoopExit, StopReturns
<1>3. ASSUME NEW n \in Nodes, Tick(n) PROVE RecordedInv'
  <2>1. \A m \in Nodes, t \in Tasks : pc[m][t] = "record" => pc'[m][t] = "record"
    BY <1>3 DEF Tick, DueEntry, TypeOK
  <2> QED
    BY <1>3, <2>1, RecordedFrame DEF Tick
<1>4. ASSUME NEW n \in Nodes, Exit(n) PROVE RecordedInv'
  <2>1. ASSUME faults' = 0 PROVE \A t \in Tasks : pc[n][t] # "record"
    <3>1. proc[n] = "stopped"
      BY <1>4, <2>1, FaultsCount DEF Exit
    <3> QED
      BY <3>1 DEF CountInv, Workers, Running, Executing
  <2>2. \A m \in Nodes : m # n => pc'[m] = pc[m] /\ next'[m] = next[m] /\ at'[m] = at[m]
    BY <1>4 DEF Exit, TypeOK
  <2>3. (faults' = 0 => faults = 0) /\ ran' = ran /\ history' = history
    BY <1>4, FaultsCount DEF Exit
  <2> QED
    BY <2>1, <2>2, <2>3, RecordedFrame
<1>5. ASSUME NEW n \in Nodes, NEW t \in Tasks, Boot(n, t) PROVE RecordedInv'
  <2>1. /\ pc[n][t] # "record" /\ UNCHANGED <<faults, ran, history, at>>
        /\ \A m \in Nodes, u \in Tasks : ~(m = n /\ u = t) => next'[m][u] = next[m][u]
    BY <1>5 DEF Boot, Seed, Load, Persist, TypeOK
  <2>2. \E label : Goto(n, t, label)
    BY <1>5 DEF Boot, Seed, Load, Persist
  <2> QED
    BY <2>1, <2>2, RecordedGoto
<1>6. ASSUME NEW n \in Nodes, NEW t \in Tasks, Begin(n, t) \/ Acquire(n, t) \/ AcquireError(n, t)
      PROVE  RecordedInv'
  <2>1. /\ pc[n][t] # "record" /\ UNCHANGED <<ran, history, next>> /\ (faults' = faults \/ Fault)
        /\ \A m \in Nodes, u \in Tasks : ~(m = n /\ u = t) => at'[m][u] = at[m][u]
    BY <1>6 DEF Begin, Acquire, AcquireError, TypeOK
  <2>2. \E label : Goto(n, t, label)
    BY <1>6 DEF Begin, Acquire, AcquireError
  <2> QED
    BY <2>1, <2>2, RecordedGoto
<1>7. ASSUME NEW n \in Nodes, NEW t \in Tasks,
             RetryFires(n, t) \/ RetryStopped(n, t) \/ Exec2(n, t) \/ Release(n, t)
      PROVE  RecordedInv'
  <2>1. pc[n][t] # "record" /\ UNCHANGED <<ran, history, next, at>> /\ (faults' = faults \/ Fault)
    BY <1>7 DEF RetryFires, RetryStopped, Exec2, Release
  <2>2. \E label : Goto(n, t, label)
    BY <1>7 DEF RetryFires, RetryStopped, Exec2, Release
  <2> QED
    BY <2>1, <2>2, RecordedGoto
<1>8. ASSUME NEW n \in Nodes, NEW t \in Tasks, Finish(n, t) PROVE RecordedInv'
  <2>1. /\ pc[n][t] # "record" /\ UNCHANGED <<ran, history, at>> /\ (faults' = faults \/ Fault)
        /\ \A m \in Nodes, u \in Tasks : ~(m = n /\ u = t) => next'[m][u] = next[m][u]
    BY <1>8 DEF Finish, TypeOK
  <2>2. Goto(n, t, "idle")
    BY <1>8 DEF Finish
  <2> QED
    BY <2>1, <2>2, RecordedGoto
<1>9. ASSUME NEW n \in Nodes, NEW t \in Tasks, Exec(n, t) PROVE RecordedInv'
  <2>1. /\ pc[n][t] = "exec" /\ ran' = ran \cup {Run(n, t)} /\ UNCHANGED <<history, next, at, faults>>
        /\ \A m \in Nodes, u \in Tasks : ~(m = n /\ u = t) => pc'[m][u] = pc[m][u]
        /\ t \notin RetryTasks => pc'[n][t] = "record"
    BY <1>9 DEF Exec, Goto, TypeOK
  <2> SUFFICES ASSUME faults' = 0, NEW r \in ran', r.task \notin RetryTasks
               PROVE  r \in history' \/ (pc'[r.node][r.task] = "record" /\ r = Run(r.node, r.task)')
    BY DEF RecordedInv
  <2>2. CASE r \in ran
    <3>1. r.node \in Nodes /\ r.task \in Tasks
      BY <2>2 DEF TypeOK, Runs
    <3>2. r \in history \/ (pc[r.node][r.task] = "record" /\ r = Run(r.node, r.task))
      BY <2>1, <2>2 DEF RecordedInv
    <3> QED
      BY <2>1, <3>1, <3>2 DEF Run
  <2>3. CASE r = Run(n, t)
    <3>1. r.node = n /\ r.task = t
      BY <2>3 DEF Run
    <3> QED
      BY <2>1, <2>3, <3>1 DEF Run
  <2> QED
    BY <2>1, <2>2, <2>3
<1>10. ASSUME NEW n \in Nodes, NEW t \in Tasks, Record(n, t) PROVE RecordedInv'
  <2>1. /\ UNCHANGED <<ran, next, at>> /\ (faults' = 0 => faults = 0) /\ history \subseteq history'
        /\ faults' = 0 => Run(n, t) \in history'
        /\ \A m \in Nodes, u \in Tasks : ~(m = n /\ u = t) => pc'[m][u] = pc[m][u]
    BY <1>10, FaultsCount DEF Record, Goto, TypeOK
  <2> QED
    BY <2>1, RecordedFrame
<1> QED
  BY <1>1, <1>2, <1>3, <1>4, <1>5, <1>6, <1>7, <1>8, <1>9, <1>10 DEF NextStep, Work

(* As long as no statement failed and no process was cut short, every      *)
(* execution of a task without a retry is in scheduler_history or about to *)
(* be recorded; and no execution outlives a Stop that returned.            *)
THEOREM RunsAreAccounted == Spec => [](faults = 0 => RunsAccounted)
<1>1. Init => RecordedInv
  BY DEF Init, RecordedInv
<1>2. TypeOK /\ RecordedInv => (faults = 0 => EveryRunRecorded)
  <2> SUFFICES ASSUME TypeOK, RecordedInv, faults = 0, NEW r \in ran, r.task \notin RetryTasks
               PROVE  r \in history \/ (pc[r.node][r.task] \in Executing /\ at[r.node][r.task] = r.at)
    BY DEF EveryRunRecorded
  <2>1. r \in history \/ (pc[r.node][r.task] = "record" /\ r = Run(r.node, r.task))
    BY DEF RecordedInv
  <2> QED
    BY <2>1 DEF Run, Executing
<1>3. Spec => [](TypeOK /\ CountInv /\ RecordedInv)
  BY <1>1, InitCount, StepCount, StepRecorded, TypeCorrect, PTL DEF Spec
<1>4. StopDrained /\ EveryRunRecorded => RunsAccounted
  BY DEF RunsAccounted
<1> QED
  BY <1>2, <1>3, <1>4, StopIsDrained, PTL

-----------------------------------------------------------------------------
(* One node against its database.  Its entries are never behind the rows   *)
(* they were loaded from, so what it writes is never earlier than what is  *)
(* there; a row that was never seeded has no next_run_at.                  *)
AheadInv ==
    /\ \A n \in Nodes, t \in Tasks :
         pc[n][t] \notin {"seed", "load"} => rows[t].next <= next[n][t]
    /\ \A t \in Tasks : ~rows[t].seeded => rows[t].next = Null

LEMMA InitAhead == Init => AheadInv
BY DEF Init, AheadInv, NoRow, SwitchedOff

LEMMA ResumeNextNotBack ==
    ASSUME NEW t \in Tasks, NEW row \in Rows, NEW start \in Nat
    PROVE  ResumeNext(t, row, start) >= row.next
BY NextIsLater, TimeAssumption DEF ResumeNext, Rows, Null

(* The rows stay, and no entry gets past "load" or moves its next back.    *)
LEMMA AheadFrame ==
    ASSUME AheadInv, rows' = rows,
           \A n \in Nodes, t \in Tasks : pc'[n][t] \notin {"seed", "load"} =>
             pc[n][t] \notin {"seed", "load"} /\ next'[n][t] = next[n][t]
    PROVE  AheadInv'
BY DEF AheadInv

(* The only node writes the next of one of its entries to its row.         *)
LEMMA AheadWrite ==
    ASSUME TypeOK, AheadInv, NEW n \in Nodes, Nodes = {n}, NEW t \in Tasks, NEW time \in Nat,
           rows[t].seeded, rows' = [rows EXCEPT ![t] = SetNextRun(@, time)],
           next'[n][t] = time,
           \A u \in Tasks : u # t => pc'[n][u] = pc[n][u] /\ next'[n][u] = next[n][u]
    PROVE  AheadInv'
<1>1. /\ rows'[t].next = time /\ rows'[t].seeded
      /\ \A u \in Tasks : u # t => rows'[u] = rows[u]
  BY DEF SetNextRun, TypeOK
<1>2. \A u \in Tasks : ~rows'[u].seeded => rows'[u].next = Null
  BY <1>1 DEF AheadInv
<1>3. ASSUME NEW m \in Nodes, NEW u \in Tasks, pc'[m][u] \notin {"seed", "load"}
      PROVE  rows'[u].next <= next'[m][u]
  BY <1>1, <1>3 DEF AheadInv
<1> QED
  BY <1>2, <1>3 DEF AheadInv

LEMMA StepAhead ==
    ASSUME TypeOK, TypeOK', TimesInv, EnabledInv, AheadInv, NEW the, Nodes = {the}, [NextStep]_vars
    PROVE  AheadInv' /\ \A t \in Tasks : rows'[t].next >= rows[t].next
<1> DEFINE Goal == AheadInv' /\ \A t \in Tasks : rows'[t].next >= rows[t].next
<1> USE DEF tables, memory
<1>a. \A t \in Tasks : rows[t] \in Rows /\ rows[t].next \in Int
  BY DEF TypeOK, Rows, Null
<1>1. ASSUME rows' = rows,
             \A n \in Nodes, t \in Tasks : pc'[n][t] \notin {"seed", "load"} =>
               pc[n][t] \notin {"seed", "load"} /\ next'[n][t] = next[n][t]
      PROVE  Goal
  BY <1>a, <1>1, AheadFrame
<1>2. CASE Clock \/ UNCHANGED vars
  BY <1>1, <1>2 DEF Clock, vars
<1>3. ASSUME NEW n \in Nodes, Start(n) \/ StartLoop(n) \/ Stop(n) \/ LoopExit(n) \/ StopReturns(n)
      PROVE  Goal
  BY <1>1, <1>3 DEF Start, StartLoop, Stop, LoopExit, StopReturns
<1>4. ASSUME NEW n \in Nodes, Tick(n) PROVE Goal
  <2>1. \A m \in Nodes, t \in Tasks : pc'[m][t] = pc[m][t] \/ pc[m][t] = "idle"
    BY <1>4 DEF Tick, DueEntry, TypeOK
  <2> QED
    BY <1>1, <1>4, <2>1 DEF Tick
<1>5. ASSUME NEW n \in Nodes, Exit(n) PROVE Goal
  <2>1. /\ rows' = rows /\ (\A t \in Tasks : pc'[n][t] = "seed")
        /\ \A m \in Nodes : m # n => pc'[m] = pc[m] /\ next'[m] = next[m]
    BY <1>5 DEF Exit, TypeOK
  <2> QED
    BY <1>1, <2>1
<1>6. ASSUME NEW n \in Nodes, NEW t \in Tasks, Seed(n, t) PROVE Goal
  <2>1. /\ pc'[n][t] = "load" /\ next' = next
        /\ \A m \in Nodes, u \in Tasks : ~(m = n /\ u = t) => pc'[m][u] = pc[m][u]
        /\ \A u \in Tasks : u # t => rows'[u] = rows[u]
        /\ rows'[t] = IF rows[t].seeded THEN rows[t] ELSE [seeded |-> TRUE, enabled |-> TRUE, next |-> Null]
    BY <1>6 DEF Seed, Goto, TypeOK
  <2>2. rows'[t].seeded /\ rows'[t].next = rows[t].next
    BY <2>1 DEF AheadInv
  <2> QED
    BY <1>a, <2>1, <2>2 DEF AheadInv
<1>7. ASSUME NEW n \in Nodes, NEW t \in Tasks, Load(n, t) PROVE Goal
  <2> DEFINE time == ResumeNext(t, rows[t], startAt[n])
  <2>1. time >= rows[t].next
    BY <1>a, ResumeNextNotBack DEF TypeOK
  <2>2. /\ rows' = rows /\ next' = [next EXCEPT ![n][t] = time]
        /\ pc' = [pc EXCEPT ![n][t] = "persist"]
    BY <1>7 DEF Load, Goto
  <2> HIDE DEF time
  <2>3. /\ next'[n][t] = time
        /\ \A m \in Nodes, u \in Tasks : ~(m = n /\ u = t) =>
             pc'[m][u] = pc[m][u] /\ next'[m][u] = next[m][u]
    BY <2>2 DEF TypeOK
  <2>4. ASSUME NEW m \in Nodes, NEW u \in Tasks, pc'[m][u] \notin {"seed", "load"}
        PROVE  rows'[u].next <= next'[m][u]
    <3>1. CASE m = n /\ u = t
      BY <1>a, <2>1, <2>2, <2>3, <3>1 DEF TypeOK
    <3>2. CASE ~(m = n /\ u = t)
      BY <2>2, <2>3, <2>4, <3>2 DEF AheadInv
    <3> QED
      BY <3>1, <3>2
  <2> QED
    BY <1>a, <2>2, <2>4 DEF AheadInv
<1>8. ASSUME NEW n \in Nodes, NEW t \in Tasks, NEW time \in Nat, rows[t].seeded, time >= rows[t].next,
             rows' = [rows EXCEPT ![t] = SetNextRun(@, time)], next'[n][t] = time,
             \A u \in Tasks : u # t => pc'[n][u] = pc[n][u] /\ next'[n][u] = next[n][u]
      PROVE  Goal
  <2>1. rows'[t].next = time /\ \A u \in Tasks : u # t => rows'[u] = rows[u]
    BY <1>8 DEF SetNextRun, TypeOK
  <2>2. Nodes = {n}
    OBVIOUS
  <2>3. AheadInv'
    BY <1>8, <2>2, AheadWrite
  <2>4. ASSUME NEW u \in Tasks PROVE rows'[u].next >= rows[u].next
    BY <1>a, <1>8, <2>1
  <2> QED
    BY <2>3, <2>4
<1>9. ASSUME NEW n \in Nodes, NEW t \in Tasks, Persist(n, t) PROVE Goal
  <2>1. /\ pc[n][t] = "persist" /\ next' = next
        /\ rows' = [rows EXCEPT ![t] = SetNextRun(@, next[n][t])]
        /\ \A u \in Tasks : u # t => pc'[n][u] = pc[n][u]
    BY <1>9 DEF Persist, Goto, TypeOK
  <2>2. rows[t].seeded /\ next[n][t] \in Nat /\ next[n][t] >= rows[t].next
    BY <1>a, <2>1 DEF EnabledInv, Seeded, AheadInv, TypeOK
  <2> QED
    BY <1>8, <2>1, <2>2
<1>10. ASSUME NEW n \in Nodes, NEW t \in Tasks, NEW label, label \notin {"seed", "load"}, Goto(n, t, label),
              pc[n][t] \notin {"seed", "load"}, rows' = rows, next' = next
       PROVE  Goal
  <2>1. \A m \in Nodes, u \in Tasks : ~(m = n /\ u = t) => pc'[m][u] = pc[m][u]
    BY <1>10 DEF Goto, TypeOK
  <2> QED
    BY <1>1, <1>10, <2>1
<1>11. ASSUME NEW n \in Nodes, NEW t \in Tasks, Begin(n, t) \/ Acquire(n, t) \/ AcquireError(n, t) PROVE Goal
  BY <1>10, <1>11 DEF Begin, Acquire, AcquireError
<1>12. ASSUME NEW n \in Nodes, NEW t \in Tasks,
              Exec(n, t) \/ RetryFires(n, t) \/ RetryStopped(n, t) \/ Exec2(n, t)
       PROVE  Goal
  BY <1>10, <1>12 DEF Exec, RetryFires, RetryStopped, Exec2
<1>13. ASSUME NEW n \in Nodes, NEW t \in Tasks, Record(n, t) \/ Release(n, t) PROVE Goal
  BY <1>10, <1>13 DEF Record, Release
<1>14. ASSUME NEW n \in Nodes, NEW t \in Tasks, Finish(n, t) PROVE Goal
  <2> DEFINE time == Next(t, at[n][t])
  <2>1. /\ pc[n][t] = "finish" /\ next' = [next EXCEPT ![n][t] = time]
        /\ pc' = [pc EXCEPT ![n][t] = "idle"]
        /\ rows' = rows \/ rows' = [rows EXCEPT ![t] = SetNextRun(@, time)]
    BY <1>14 DEF Finish, Goto
  <2>2. at[n][t] \in Nat /\ next[n][t] \in Nat /\ time \in Nat /\ time > at[n][t]
    BY NextIsLater DEF TypeOK
  <2> HIDE DEF time
  <2>3. /\ next'[n][t] = time
        /\ \A m \in Nodes, u \in Tasks : ~(m = n /\ u = t) =>
             pc'[m][u] = pc[m][u] /\ next'[m][u] = next[m][u]
    BY <2>1 DEF TypeOK
  <2>4. rows[t].seeded /\ rows[t].next <= next[n][t] /\ next[n][t] <= at[n][t]
    BY <2>1 DEF EnabledInv, Seeded, AheadInv, TimesInv, Timed, Captured, Running
  <2>5. time >= rows[t].next
    BY <1>a, <2>2, <2>4
  <2>6. CASE rows' = rows
    <3>1. ASSUME NEW m \in Nodes, NEW u \in Tasks, pc'[m][u] \notin {"seed", "load"}
          PROVE  rows'[u].next <= next'[m][u]
      BY <1>a, <2>3, <2>5, <2>6, <2>2, <3>1 DEF AheadInv
    <3> QED
      BY <1>a, <2>6, <3>1 DEF AheadInv
  <2>7. CASE rows' = [rows EXCEPT ![t] = SetNextRun(@, time)]
    BY <1>8, <2>2, <2>3, <2>4, <2>5, <2>7
  <2> QED
    BY <2>1, <2>6, <2>7
<1> QED
  BY <1>2, <1>3, <1>4, <1>5, <1>6, <1>7, <1>9, <1>11, <1>12, <1>13, <1>14
  DEF NextStep, Boot, Work

LEMMA EnabledInvariant == Spec => [](TypeOK /\ EnabledInv)
BY InitEnabled, StepEnabled, TypeCorrect, PTL DEF Spec

LEMMA AheadInvariant ==
    ASSUME NEW CONSTANT the, Nodes = {the} PROVE Spec => [](TypeOK /\ TimesInv /\ EnabledInv /\ AheadInv)
<1>1. TypeOK /\ TypeOK' /\ TimesInv /\ EnabledInv /\ AheadInv /\ [NextStep]_vars => AheadInv'
  BY StepAhead
<1> QED
  BY <1>1, InitAhead, EnabledInvariant, TimesInvariant, PTL DEF Spec

(* On a single node the persisted next_run_at of a task never moves back,  *)
(* whatever fails and however often the process dies and restarts: a       *)
(* restart never repeats an occurrence that was left behind.               *)
THEOREM NextRunOnlyForward ==
    ASSUME NEW CONSTANT the, Nodes = {the} PROVE Spec => NextRunNeverBack
<1> DEFINE Act == \A t \in Tasks : rows'[t].next >= rows[t].next
<1>1. TypeOK /\ TypeOK' /\ TimesInv /\ EnabledInv /\ AheadInv /\ [NextStep]_vars => Act
  BY StepAhead
<1> QED
  BY <1>1, AheadInvariant, PTL DEF Spec, NextRunNeverBack

-----------------------------------------------------------------------------
(* A run is behind the row of its task, so that no start will load its     *)
(* occurrence again, or its worker has not moved next on yet.              *)
Spent == {"wait", "exec2", "record", "release", "finish"}
BehindInv ==
    faults = 0 =>
        \A r \in ran : \/ r.occ < rows[r.task].next
                       \/ pc[r.node][r.task] \in Spent /\ r = Run(r.node, r.task)
OnceInv == faults = 0 => OncePerOccurrence

LEMMA OnceFrame ==
    ASSUME TypeOK, TypeOK', BehindInv, OnceInv, faults' = 0 => faults = 0, ran' = ran,
           \A t \in Tasks : rows'[t].next >= rows[t].next,
           faults' = 0 => \A n \in Nodes, t \in Tasks : pc[n][t] \in Spent =>
             \/ pc'[n][t] \in Spent /\ next'[n][t] = next[n][t] /\ at'[n][t] = at[n][t]
             \/ next[n][t] < rows'[t].next
    PROVE  BehindInv' /\ OnceInv'
<1>1. OnceInv'
  BY DEF OnceInv, OncePerOccurrence
<1>2. ASSUME faults' = 0, NEW r \in ran
      PROVE  r.occ < rows'[r.task].next \/ (pc'[r.node][r.task] \in Spent /\ r = Run(r.node, r.task)')
  <2>1. r.node \in Nodes /\ r.task \in Tasks /\ r.occ \in Nat
    BY DEF TypeOK, Runs
  <2>2. rows[r.task].next \in Int /\ rows'[r.task].next \in Int
    BY <2>1 DEF TypeOK, Rows, Null
  <2>3. CASE r.occ < rows[r.task].next
    BY <2>1, <2>2, <2>3
  <2>4. CASE pc[r.node][r.task] \in Spent /\ r = Run(r.node, r.task)
    <3>1. r.occ = next[r.node][r.task]
      BY <2>4 DEF Run
    <3> QED
      BY <1>2, <2>1, <2>4, <3>1 DEF Run
  <2> QED
    BY <1>2, <2>3, <2>4 DEF BehindInv
<1> QED
  BY <1>1, <1>2 DEF BehindInv

(* The step of a worker that keeps its times.                              *)
LEMMA OnceGoto ==
    ASSUME TypeOK, TypeOK', BehindInv, OnceInv, NEW n \in Nodes, NEW t \in Tasks, NEW label,
           Goto(n, t, label), pc[n][t] \in Spent => label \in Spent /\ UNCHANGED <<next, at>>,
           \A m \in Nodes, u \in Tasks : ~(m = n /\ u = t) =>
             next'[m][u] = next[m][u] /\ at'[m][u] = at[m][u],
           faults' = faults \/ Fault, ran' = ran, \A u \in Tasks : rows'[u].next >= rows[u].next
    PROVE  BehindInv' /\ OnceInv'
<1>1. /\ pc'[n][t] = label
      /\ \A m \in Nodes, u \in Tasks : ~(m = n /\ u = t) => pc'[m][u] = pc[m][u]
  BY DEF Goto, TypeOK
<1> QED
  BY <1>1, FaultsCount, OnceFrame

LEMMA StepOnce ==
    ASSUME TypeOK, TypeOK', TimesInv, CountInv, AheadInv, BehindInv, OnceInv,
           NEW the, Nodes = {the}, [NextStep]_vars, \A t \in Tasks : rows'[t].next >= rows[t].next
    PROVE  BehindInv' /\ OnceInv'
<1> DEFINE Goal == BehindInv' /\ OnceInv'
<1> USE DEF tables, memory
<1>1. CASE Clock \/ UNCHANGED vars
  BY <1>1, OnceFrame DEF Clock, vars
<1>2. ASSUME NEW n \in Nodes, Start(n) \/ StartLoop(n) \/ Stop(n) \/ LoopExit(n) \/ StopReturns(n)
      PROVE  Goal
  BY <1>2, OnceFrame DEF Start, StartLoop, Stop, LoopExit, StopReturns
<1>3. ASSUME NEW n \in Nodes, Tick(n) PROVE Goal
  <2>1. \A m \in Nodes, t \in Tasks : pc[m][t] \in Spent => pc'[m][t] = pc[m][t]
    BY <1>3 DEF Tick, DueEntry, TypeOK, Spent
  <2> QED
    BY <1>3, <2>1, OnceFrame DEF Tick
<1>4. ASSUME NEW n \in Nodes, Exit(n) PROVE Goal
  <2>1. ASSUME faults' = 0 PROVE \A t \in Tasks : pc[n][t] \notin Spent
    <3>1. proc[n] = "stopped"
      BY <1>4, <2>1, FaultsCount DEF Exit
    <3> QED
      BY <3>1 DEF CountInv, Workers, Running, Executing, Spent
  <2>2. \A m \in Nodes : m = n
    OBVIOUS
  <2>3. (faults' = 0 => faults = 0) /\ ran' = ran
    BY <1>4, FaultsCount DEF Exit
  <2> QED
    BY <2>1, <2>2, <2>3, OnceFrame
<1>5. ASSUME NEW n \in Nodes, NEW t \in Tasks, Boot(n, t) PROVE Goal
  <2>1. /\ pc[n][t] \notin Spent /\ UNCHANGED <<faults, ran, at>>
        /\ \A m \in Nodes, u \in Tasks : ~(m = n /\ u = t) => next'[m][u] = next[m][u]
    BY <1>5 DEF Boot, Seed, Load, Persist, TypeOK, Spent
  <2>2. \E label : Goto(n, t, label)
    BY <1>5 DEF Boot, Seed, Load, Persist
  <2> QED
    BY <2>1, <2>2, OnceGoto
<1>6. ASSUME NEW n \in Nodes, NEW t \in Tasks, Begin(n, t) \/ Acquire(n, t) \/ AcquireError(n, t) PROVE Goal
  <2>1. /\ pc[n][t] \notin Spent /\ UNCHANGED <<ran, next>> /\ (faults' = faults \/ Fault)
        /\ \A m \in Nodes, u \in Tasks : ~(m = n /\ u = t) => at'[m][u] = at[m][u]
    BY <1>6 DEF Begin, Acquire, AcquireError, TypeOK, Spent
  <2>2. \E label : Goto(n, t, label)
    BY <1>6 DEF Begin, Acquire, AcquireError
  <2> QED
    BY <2>1, <2>2, OnceGoto
<1>7. ASSUME NEW n \in Nodes, NEW t \in Tasks,
             RetryFires(n, t) \/ RetryStopped(n, t) \/ Exec2(n, t) \/ Record(n, t) \/ Release(n, t)
      PROVE  Goal
  <2>1. UNCHANGED <<ran, next, at>> /\ (faults' = faults \/ Fault)
    BY <1>7 DEF RetryFires, RetryStopped, Exec2, Record, Release
  <2>2. \E label \in Spent : Goto(n, t, label)
    BY <1>7 DEF RetryFires, RetryStopped, Exec2, Record, Release, Spent
  <2> QED
    BY <2>1, <2>2, OnceGoto
<1>8. ASSUME NEW n \in Nodes, NEW t \in Tasks, Finish(n, t) PROVE Goal
  <2> DEFINE time == Next(t, at[n][t])
  <2>1. at[n][t] \in Nat /\ next[n][t] \in Nat /\ time \in Nat /\ time > at[n][t]
    BY NextIsLater DEF TypeOK
  <2>2. next[n][t] <= at[n][t]
    BY <1>8 DEF Finish, TimesInv, Timed, Captured, Running
  <2>3. ASSUME faults' = 0 PROVE rows'[t].next = time
    <3>1. rows' = [rows EXCEPT ![t] = SetNextRun(@, time)]
      BY <1>8, <2>3, FaultsCount DEF Finish
    <3> QED
      BY <3>1 DEF SetNextRun, TypeOK
  <2>4. faults' = 0 => next[n][t] < rows'[t].next
    <3> HIDE DEF time
    <3> QED
      BY <2>1, <2>2, <2>3
  <2>5. /\ UNCHANGED <<ran, at>> /\ (faults' = faults \/ Fault)
        /\ \A m \in Nodes, u \in Tasks : ~(m = n /\ u = t) =>
             next'[m][u] = next[m][u] /\ pc'[m][u] = pc[m][u]
    BY <1>8 DEF Finish, Goto, TypeOK
  <2> QED
    BY <2>4, <2>5, FaultsCount, OnceFrame
<1>9. ASSUME NEW n \in Nodes, NEW t \in Tasks, Exec(n, t) PROVE Goal
  <2>1. /\ pc[n][t] = "exec" /\ ran' = ran \cup {Run(n, t)} /\ UNCHANGED <<rows, next, at, faults>>
        /\ \A m \in Nodes, u \in Tasks : ~(m = n /\ u = t) => pc'[m][u] = pc[m][u]
        /\ pc'[n][t] \in Spent
    BY <1>9 DEF Exec, Goto, TypeOK, Spent
  <2>2. Run(n, t).node = n /\ Run(n, t).task = t /\ Run(n, t).occ = next[n][t]
    BY DEF Run
  <2>3. ASSUME NEW r \in ran PROVE r.node \in Nodes /\ r.task \in Tasks /\ r.occ \in Nat
    BY DEF TypeOK, Runs
  <2>4. ASSUME faults = 0, NEW r \in ran, r.task = t PROVE r.occ < next[n][t]
    <3>1. pc[r.node][r.task] \notin Spent
      BY <2>1, <2>3, <2>4 DEF Spent
    <3>2. r.occ < rows[t].next
      BY <2>4, <3>1 DEF BehindInv
    <3>3. rows[t].next <= next[n][t]
      BY <2>1 DEF AheadInv
    <3>4. rows[t].next \in Int /\ next[n][t] \in Nat
      BY DEF TypeOK, Rows, Null
    <3> QED
      BY <2>3, <3>2, <3>3, <3>4
  <2>5. BehindInv'
    <3> SUFFICES ASSUME faults' = 0, NEW r \in ran'
                 PROVE  \/ r.occ < rows'[r.task].next
                        \/ pc'[r.node][r.task] \in Spent /\ r = Run(r.node, r.task)'
      BY DEF BehindInv
    <3>1. CASE r \in ran
      <4>1. r.occ < rows[r.task].next \/ (pc[r.node][r.task] \in Spent /\ r = Run(r.node, r.task))
        BY <2>1, <3>1 DEF BehindInv
      <4>2. pc[r.node][r.task] \in Spent => ~(r.node = n /\ r.task = t)
        BY <2>1 DEF Spent
      <4> QED
        BY <2>1, <2>3, <3>1, <4>1, <4>2 DEF Run
    <3>2. CASE r = Run(n, t)
      BY <2>1, <2>2, <3>2 DEF Run
    <3> QED
      BY <2>1, <3>1, <3>2
  <2>6. OnceInv'
    <3> SUFFICES ASSUME faults' = 0, NEW q \in ran', NEW r \in ran', q.task = r.task, q.occ = r.occ
                 PROVE  q = r
      BY DEF OnceInv, OncePerOccurrence
    <3>1. \A s \in ran : s.task = t => s.occ # next[n][t]
      BY <2>1, <2>3, <2>4 DEF TypeOK
    <3>2. CASE q \in ran /\ r \in ran
      BY <2>1, <3>2 DEF OnceInv, OncePerOccurrence
    <3>3. CASE q = Run(n, t) \/ r = Run(n, t)
      BY <2>1, <2>2, <3>1, <3>3
    <3> QED
      BY <2>1, <3>2, <3>3
  <2> QED
    BY <2>5, <2>6
<1> QED
  BY <1>1, <1>2, <1>3, <1>4, <1>5, <1>6, <1>7, <1>8, <1>9 DEF NextStep, Work

(* On a single node, as long as no statement failed and no process was cut *)
(* short, no occurrence of a task is run twice, across any number of       *)
(* ordered restarts.  (Two nodes do run an occurrence twice, and so does a *)
(* node that dies between running and moving next on.)                     *)
THEOREM RunsOnce ==
    ASSUME NEW CONSTANT the, Nodes = {the} PROVE Spec => [](faults = 0 => OncePerOccurrence)
<1> DEFINE Back == \A t \in Tasks : rows'[t].next >= rows[t].next
           Inv == TypeOK /\ TimesInv /\ EnabledInv /\ AheadInv
<1>1. Init => BehindInv /\ OnceInv
  BY DEF Init, BehindInv, OnceInv, OncePerOccurrence
<1>2. Inv /\ Inv' /\ [NextStep]_vars => Back
  BY StepAhead
<1>3. Inv /\ Inv' /\ CountInv /\ BehindInv /\ OnceInv /\ [NextStep]_vars /\ Back => BehindInv' /\ OnceInv'
  BY StepOnce
<1>4. Spec => []Inv
  BY AheadInvariant
<1>5. OnceInv => (faults = 0 => OncePerOccurrence)
  BY DEF OnceInv
<1> HIDE DEF Inv, Back
<1>6. TypeOK /\ CountInv /\ [NextStep]_vars => CountInv'
  BY StepCount
<1> QED
  BY <1>1, <1>2, <1>3, <1>4, <1>5, <1>6, InitCount, TypeCorrect, PTL DEF Spec
=============================================================================
