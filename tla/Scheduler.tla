----------------------------- MODULE Scheduler -----------------------------
(***************************************************************************)
(* The internal task scheduler (src/scheduler): every process of a         *)
(* deployment runs one Scheduler against the shared server.db.             *)
(*                                                                         *)
(*   - Start seeds, loads and re-persists the scheduler_tasks row of each  *)
(*     registered task, one after the other, then starts the poll loop;    *)
(*   - tick marks the due entries and starts one goroutine for each;       *)
(*   - runEntry takes the cluster_locks row when the task is ClusterAware, *)
(*     executes the task (with at most one retry), records the run,        *)
(*     releases the row and advances next_run_at;                          *)
(*   - Stop closes the stop channel and waits for loop and workers.        *)
(*                                                                         *)
(* One action is one database statement, one critical section of s.mu or   *)
(* one channel operation; between two of them any other process, goroutine *)
(* or crash may come.  Every node reads the same clock (the lock protocol  *)
(* compares times taken on different nodes) and has a nodeID of its own.   *)
(***************************************************************************)
EXTENDS Integers, FiniteSets

CONSTANTS
    Nodes,        \* scheduler processes, named by their nodeID
    Tasks,        \* registered task names
    ClusterTasks, \* the tasks with ClusterAware
    RetryTasks,   \* the tasks with RetryOnFail
    CronTasks,    \* tasks on a wall-clock schedule; the others use "@every"
    Every,        \* Every[t]: the period of t
    CatchUp,      \* catchUpWindow
    LockTTL,      \* lockTTL
    MaxTime,      \* bound: the clock stops here
    MaxFaults     \* bound: crashes, aborted drains and failed statements

ASSUME SetAssumption ==
    /\ ClusterTasks \subseteq Tasks
    /\ RetryTasks \subseteq Tasks
    /\ CronTasks \subseteq Tasks
    /\ IsFiniteSet(Tasks)
ASSUME TimeAssumption ==
    /\ Every \in [Tasks -> Nat \ {0}]
    /\ CatchUp \in Nat
    /\ LockTTL \in Nat
    /\ MaxTime \in Nat
    /\ MaxFaults \in Nat

VARIABLES
    now,     \* the clock
    rows,    \* scheduler_tasks: what is persisted about each task
    locks,   \* cluster_locks: the row "scheduler:"+t of each task
    proc,    \* life of each process
    startAt, \* the `now` Start captured
    stop,    \* is the stop channel closed?
    wg,      \* the WaitGroup's counter
    next,    \* entry.next
    enabled, \* entry.task.Enabled
    pc,      \* where the start-up or the worker goroutine of an entry is
    at,      \* the `now` runEntry captured
    ran,     \* every handler call so far: what, for which occurrence, by whom
    history, \* scheduler_history: the runs recorded
    faults   \* faults so far

tables == <<rows, locks, history>>
memory == <<startAt, stop, wg, next, enabled, at>>
vars == <<now, rows, locks, proc, startAt, stop, wg, next, enabled, pc, at,
          ran, history, faults>>

-----------------------------------------------------------------------------
Null == -1                                    \* SQL NULL of a time column
NoRow == [seeded |-> FALSE, enabled |-> FALSE, next |-> Null]
SwitchedOff == [seeded |-> TRUE, enabled |-> FALSE, next |-> Null]
SetNextRun(row, time) == [seeded |-> row.seeded, enabled |-> row.enabled, next |-> time]
NoLock == [held |-> FALSE, holder |-> Null, expires |-> Null]
Lock(n, until) == [held |-> TRUE, holder |-> n, expires |-> until]

(* The program counter of an entry.  "seed".."persist" belong to Start;    *)
(* entry.running is true from "begin" to "finish".                         *)
StartPC == {"seed", "load", "persist"}
Executing == {"exec", "wait", "exec2", "record", "release"}
Running == {"begin", "lock", "finish"} \cup Executing
Labels == StartPC \cup Running \cup {"idle"}

(* Mutant: an instant that is itself on the boundary counts as the next.   *)
NextInclusive(t, after) ==
    IF t \in CronTasks THEN ((after + Every[t] - 1) \div Every[t]) * Every[t]
                       ELSE after + Every[t]

(* schedule.Next: strictly after `after`; a cron schedule lands on the     *)
(* wall-clock boundary, "@every" counts from `after` itself.               *)
Next(t, after) ==
    IF t \in CronTasks THEN ((after \div Every[t]) + 1) * Every[t]
                       ELSE after + Every[t]

(* Mutant: the catch-up window is not applied.                             *)
ResumeNextAlways(t, row, start) ==
    IF row.next # Null THEN row.next ELSE Next(t, start)

(* resumeNext: a persisted time inside the catch-up window is kept, any    *)
(* other is replaced by the next occurrence.                               *)
ResumeNext(t, row, start) ==
    IF row.next # Null /\ row.next >= start - CatchUp
    THEN row.next
    ELSE Next(t, start)

(* Mutant: a lease that expires right now counts as expired.               *)
TakeableEarly(t, n, when) ==
    ~locks[t].held \/ locks[t].holder = n \/ locks[t].expires <= when

(* The WHERE clause of acquireLock's upsert.                               *)
Takeable(t, n, when) ==
    \/ ~locks[t].held
    \/ locks[t].holder = n
    \/ locks[t].expires < when

Run(n, t) == [node |-> n, task |-> t, occ |-> next[n][t], at |-> at[n][t]]

-----------------------------------------------------------------------------
(* A database is either new or was left by an earlier deployment in which  *)
(* the operator switched a task off.                                       *)
Init ==
    /\ now = 0
    /\ rows \in [Tasks -> {NoRow, SwitchedOff}]
    /\ locks = [t \in Tasks |-> NoLock]
    /\ proc = [n \in Nodes |-> "down"]
    /\ startAt = [n \in Nodes |-> 0]
    /\ stop = [n \in Nodes |-> FALSE]
    /\ wg = [n \in Nodes |-> 0]
    /\ next = [n \in Nodes |-> [t \in Tasks |-> 0]]
    /\ enabled = [n \in Nodes |-> [t \in Tasks |-> TRUE]]
    /\ pc = [n \in Nodes |-> [t \in Tasks |-> "seed"]]
    /\ at = [n \in Nodes |-> [t \in Tasks |-> 0]]
    /\ ran = {}
    /\ history = {}
    /\ faults = 0

Goto(n, t, label) == pc' = [pc EXCEPT ![n][t] = label]
Fault == faults < MaxFaults /\ faults' = faults + 1

(* New and Register build fresh entries (see Exit); Start captures `now`.  *)
Start(n) ==
    /\ proc[n] = "down"
    /\ proc' = [proc EXCEPT ![n] = "starting"]
    /\ startAt' = [startAt EXCEPT ![n] = now]
    /\ UNCHANGED <<now, tables, stop, wg, next, enabled, pc, at, ran, faults>>

(* Mutant: ON CONFLICT DO UPDATE instead of DO NOTHING.                    *)
SeedOverwrites(n, t) ==
    /\ proc[n] = "starting"
    /\ pc[n][t] = "seed"
    /\ \A u \in Tasks : pc[n][u] \in {"seed", "idle"}
    /\ rows' = [rows EXCEPT ![t] = [seeded |-> TRUE, enabled |-> @.enabled, next |-> Null]]
    /\ Goto(n, t, "load")
    /\ UNCHANGED <<now, locks, proc, memory, ran, history, faults>>

(* seedTask: INSERT ... ON CONFLICT DO NOTHING.  Start handles one entry   *)
(* at a time, in the order of a map iteration.                             *)
Seed(n, t) ==
    /\ proc[n] = "starting"
    /\ pc[n][t] = "seed"
    /\ \A u \in Tasks : pc[n][u] \in {"seed", "idle"}
    /\ rows' = [rows EXCEPT ![t] =
                  IF @.seeded THEN @
                  ELSE [seeded |-> TRUE, enabled |-> TRUE, next |-> Null]]
    /\ Goto(n, t, "load")
    /\ UNCHANGED <<now, locks, proc, memory, ran, history, faults>>

(* Mutant: the built-in default of Enabled is kept.                        *)
LoadKeepsDefault(n, t) ==
    /\ pc[n][t] = "load"
    /\ next' = [next EXCEPT ![n][t] = ResumeNext(t, rows[t], startAt[n])]
    /\ Goto(n, t, "persist")
    /\ UNCHANGED <<now, tables, proc, startAt, stop, wg, enabled, at, ran, faults>>

(* loadTask and resumeNext: next and Enabled come from the row.            *)
Load(n, t) ==
    /\ pc[n][t] = "load"
    /\ next' = [next EXCEPT ![n][t] = ResumeNext(t, rows[t], startAt[n])]
    /\ enabled' = [enabled EXCEPT ![n][t] = rows[t].enabled]
    /\ Goto(n, t, "persist")
    /\ UNCHANGED <<now, tables, proc, startAt, stop, wg, at, ran, faults>>

(* setNextRun from Start: what another node wrote meanwhile is overwritten.*)
Persist(n, t) ==
    /\ pc[n][t] = "persist"
    /\ rows' = [rows EXCEPT ![t] = SetNextRun(@, next[n][t])]
    /\ Goto(n, t, "idle")
    /\ UNCHANGED <<now, locks, proc, memory, ran, history, faults>>

(* Start returns: the stop channel exists and the loop is counted in wg.   *)
StartLoop(n) ==
    /\ proc[n] = "starting"
    /\ \A t \in Tasks : pc[n][t] = "idle"
    /\ proc' = [proc EXCEPT ![n] = "looping"]
    /\ wg' = [wg EXCEPT ![n] = 1]
    /\ UNCHANGED <<now, tables, startAt, stop, next, enabled, pc, at, ran, faults>>

-----------------------------------------------------------------------------
DueEntry(n, t) ==
    enabled[n][t] /\ pc[n][t] = "idle" /\ next[n][t] <= now

(* tick: every due entry is marked running under s.mu and gets a goroutine,*)
(* counted in wg before it starts.  A closed stop channel does not prevent *)
(* a tick that is ready too: select picks either.                          *)
Tick(n) ==
    LET due == {t \in Tasks : DueEntry(n, t)} IN
    /\ proc[n] = "looping"
    /\ due # {}
    /\ pc' = [pc EXCEPT ![n] = [t \in Tasks |->
                IF t \in due THEN "begin" ELSE pc[n][t]]]
    /\ wg' = [wg EXCEPT ![n] = @ + Cardinality(due)]
    /\ UNCHANGED <<now, tables, proc, startAt, stop, next, enabled, at, ran, faults>>

(* runEntry captures `now`, later than the tick that started it.           *)
Begin(n, t) ==
    /\ pc[n][t] = "begin"
    /\ at' = [at EXCEPT ![n][t] = now]
    /\ Goto(n, t, IF t \in ClusterTasks THEN "lock" ELSE "exec")
    /\ UNCHANGED <<now, tables, proc, startAt, stop, wg, next, enabled, ran, faults>>

(* acquireLock: one atomic upsert, stamped with the captured `now`.        *)
Acquire(n, t) ==
    /\ pc[n][t] = "lock"
    /\ IF Takeable(t, n, at[n][t])
       THEN /\ locks' = [locks EXCEPT ![t] = Lock(n, at[n][t] + LockTTL)]
            /\ Goto(n, t, "exec")
       ELSE /\ Goto(n, t, "finish")
            /\ UNCHANGED locks
    /\ UNCHANGED <<now, rows, proc, memory, ran, history, faults>>

(* The statement fails: the occurrence is skipped.                         *)
AcquireError(n, t) ==
    /\ pc[n][t] = "lock"
    /\ Fault
    /\ Goto(n, t, "finish")
    /\ UNCHANGED <<now, tables, proc, memory, ran>>

(* Mutant: a failed run without retry returns before recordRun.            *)
ExecUnrecorded(n, t) ==
    /\ pc[n][t] = "exec"
    /\ ran' = ran \cup {Run(n, t)}
    /\ Goto(n, t, IF t \in RetryTasks THEN "wait" ELSE "release")
    /\ UNCHANGED <<now, tables, proc, memory, faults>>

(* execute: the first call of the handler, ...                             *)
Exec(n, t) ==
    /\ pc[n][t] = "exec"
    /\ ran' = ran \cup {Run(n, t)}
    /\ \/ Goto(n, t, "record")
       \/ t \in RetryTasks /\ Goto(n, t, "wait")
    /\ UNCHANGED <<now, tables, proc, memory, faults>>

(* ... the wait before the retry, which the stop channel cuts short by     *)
(* returning from execute, ...                                             *)
RetryFires(n, t) ==
    /\ pc[n][t] = "wait"
    /\ Goto(n, t, "exec2")
    /\ UNCHANGED <<now, tables, proc, memory, ran, faults>>

RetryStopped(n, t) ==
    /\ pc[n][t] = "wait"
    /\ stop[n]
    /\ Goto(n, t, "release")
    /\ UNCHANGED <<now, tables, proc, memory, ran, faults>>

(* ... the retry, whatever its outcome, ...                                *)
Exec2(n, t) ==
    /\ pc[n][t] = "exec2"
    /\ Goto(n, t, "record")
    /\ UNCHANGED <<now, tables, proc, memory, ran, faults>>

(* ... and recordRun, whose failure is only logged.                        *)
Record(n, t) ==
    /\ pc[n][t] = "record"
    /\ \/ history' = history \cup {Run(n, t)} /\ UNCHANGED faults
       \/ Fault /\ UNCHANGED history
    /\ Goto(n, t, "release")
    /\ UNCHANGED <<now, rows, locks, proc, memory, ran>>

(* Mutant: DELETE without the holder condition.                            *)
ReleaseAny(n, t) ==
    /\ pc[n][t] = "release"
    /\ locks' = IF t \in ClusterTasks THEN [locks EXCEPT ![t] = NoLock] ELSE locks
    /\ Goto(n, t, "finish")
    /\ UNCHANGED <<now, rows, proc, memory, ran, history, faults>>

(* The deferred releaseLock of a cluster task: DELETE ... WHERE holder = n.*)
(* A failed statement leaves the row to its TTL.                           *)
Release(n, t) ==
    /\ pc[n][t] = "release"
    /\ \/ /\ locks' = IF t \in ClusterTasks /\ locks[t].held /\ locks[t].holder = n
                      THEN [locks EXCEPT ![t] = NoLock] ELSE locks
          /\ UNCHANGED faults
       \/ t \in ClusterTasks /\ Fault /\ UNCHANGED locks
    /\ Goto(n, t, "finish")
    /\ UNCHANGED <<now, rows, proc, memory, ran, history>>

(* Mutant: the advanced next is not persisted.                             *)
FinishUnsaved(n, t) ==
    /\ pc[n][t] = "finish"
    /\ next' = [next EXCEPT ![n][t] = Next(t, at[n][t])]
    /\ wg' = [wg EXCEPT ![n] = @ - 1]
    /\ Goto(n, t, "idle")
    /\ UNCHANGED <<now, tables, proc, startAt, stop, enabled, at, ran, faults>>

(* runEntry's first defer: under s.mu the entry stops running and next     *)
(* moves on from the captured `now`; the row follows unless the statement  *)
(* fails.  Then the goroutine leaves wg.                                   *)
Finish(n, t) ==
    LET following == Next(t, at[n][t]) IN
    /\ pc[n][t] = "finish"
    /\ next' = [next EXCEPT ![n][t] = following]
    /\ \/ rows' = [rows EXCEPT ![t] = SetNextRun(@, following)] /\ UNCHANGED faults
       \/ Fault /\ UNCHANGED rows
    /\ wg' = [wg EXCEPT ![n] = @ - 1]
    /\ Goto(n, t, "idle")
    /\ UNCHANGED <<now, locks, proc, startAt, stop, enabled, at, ran, history>>

-----------------------------------------------------------------------------
(* Stop closes the channel; the loop leaves at its next select.            *)
Stop(n) ==
    /\ proc[n] = "looping"
    /\ ~stop[n]
    /\ stop' = [stop EXCEPT ![n] = TRUE]
    /\ UNCHANGED <<now, tables, proc, startAt, wg, next, enabled, pc, at, ran, faults>>

(* Mutant: the loop forgets wg.Done.                                       *)
LoopExitUncounted(n) ==
    /\ proc[n] = "looping"
    /\ stop[n]
    /\ proc' = [proc EXCEPT ![n] = "draining"]
    /\ UNCHANGED <<now, tables, memory, pc, ran, faults>>

LoopExit(n) ==
    /\ proc[n] = "looping"
    /\ stop[n]
    /\ proc' = [proc EXCEPT ![n] = "draining"]
    /\ wg' = [wg EXCEPT ![n] = @ - 1]
    /\ UNCHANGED <<now, tables, startAt, stop, next, enabled, pc, at, ran, faults>>

(* wg.Wait returns: the drain is complete and the process may exit.        *)
StopReturns(n) ==
    /\ stop[n]
    /\ proc[n] \in {"looping", "draining"}
    /\ wg[n] = 0
    /\ proc' = [proc EXCEPT ![n] = "stopped"]
    /\ UNCHANGED <<now, tables, memory, pc, ran, faults>>

(* The process ends: normally once Stop has returned, otherwise (a crash,  *)
(* a failed Start, or a Stop whose context expired) whatever it was doing. *)
(* Its memory is gone; what it had written to the database stays.          *)
Exit(n) ==
    /\ proc[n] # "down"
    /\ IF proc[n] = "stopped" THEN UNCHANGED faults ELSE Fault
    /\ proc' = [proc EXCEPT ![n] = "down"]
    /\ startAt' = [startAt EXCEPT ![n] = 0]
    /\ stop' = [stop EXCEPT ![n] = FALSE]
    /\ wg' = [wg EXCEPT ![n] = 0]
    /\ next' = [next EXCEPT ![n] = [t \in Tasks |-> 0]]
    /\ enabled' = [enabled EXCEPT ![n] = [t \in Tasks |-> TRUE]]
    /\ pc' = [pc EXCEPT ![n] = [t \in Tasks |-> "seed"]]
    /\ at' = [at EXCEPT ![n] = [t \in Tasks |-> 0]]
    /\ UNCHANGED <<now, tables, ran>>

Clock ==
    /\ now < MaxTime
    /\ now' = now + 1
    /\ UNCHANGED <<tables, proc, memory, pc, ran, faults>>

Work(n, t) ==
    \/ Begin(n, t) \/ Acquire(n, t) \/ Exec(n, t)
    \/ RetryFires(n, t) \/ RetryStopped(n, t) \/ Exec2(n, t)
    \/ Record(n, t) \/ Release(n, t) \/ Finish(n, t)

Boot(n, t) == Seed(n, t) \/ Load(n, t) \/ Persist(n, t)

NextStep ==
    \/ Clock
    \/ \E n \in Nodes :
          \/ Start(n) \/ StartLoop(n) \/ Tick(n)
          \/ Stop(n) \/ LoopExit(n) \/ StopReturns(n) \/ Exit(n)
          \/ \E t \in Tasks : Boot(n, t) \/ Work(n, t) \/ AcquireError(n, t)

Spec == Init /\ [][NextStep]_vars

(* The Go runtime schedules every runnable goroutine, the ticker and the   *)
(* retry timer fire, and handlers return; nothing forces a start, a stop,  *)
(* a fault or the clock.                                                   *)
Fairness ==
    /\ \A n \in Nodes :
          /\ WF_vars(Tick(n)) /\ WF_vars(LoopExit(n)) /\ WF_vars(StopReturns(n))
          /\ \A t \in Tasks : WF_vars(Work(n, t))

FairSpec == Spec /\ Fairness

-----------------------------------------------------------------------------
Rows == [seeded : BOOLEAN, enabled : BOOLEAN, next : Nat \cup {Null}]
Locks == {NoLock} \cup [held : {TRUE}, holder : Nodes, expires : Nat]
Runs == [node : Nodes, task : Tasks, occ : Nat, at : Nat]

(* Type invariant.                                                         *)
TypeOK ==
    /\ now \in Nat
    /\ rows \in [Tasks -> Rows]
    /\ locks \in [Tasks -> Locks]
    /\ proc \in [Nodes -> {"down", "starting", "looping", "draining", "stopped"}]
    /\ startAt \in [Nodes -> Nat]
    /\ stop \in [Nodes -> BOOLEAN]
    /\ wg \in [Nodes -> Int]
    /\ next \in [Nodes -> [Tasks -> Nat]]
    /\ enabled \in [Nodes -> [Tasks -> BOOLEAN]]
    /\ pc \in [Nodes -> [Tasks -> Labels]]
    /\ at \in [Nodes -> [Tasks -> Nat]]
    /\ ran \subseteq Runs
    /\ history \subseteq Runs
    /\ faults \in Nat

Holds(n, t) == t \in ClusterTasks /\ pc[n][t] \in Executing

(* Mutual exclusion of cluster-aware tasks (lock.go): two nodes are inside *)
(* the same task at once only if one of them has outlived its lease.       *)
LeaseExclusion ==
    \A t \in ClusterTasks : \A m, n \in Nodes :
        m # n /\ Holds(m, t) /\ Holds(n, t) =>
            \/ at[m][t] + LockTTL < now
            \/ at[n][t] + LockTTL < now

(* Inside its lease a worker's lock row stays its own: no acquire, release *)
(* or late finish of another node takes it away (releaseLock's comment).   *)
LeaseHeld ==
    \A t \in ClusterTasks : \A n \in Nodes :
        Holds(n, t) /\ now <= at[n][t] + LockTTL =>
            locks[t] = Lock(n, at[n][t] + LockTTL)

(* The scheduler implements the lease of TaskLease, a node being inside a  *)
(* task while it holds it within the term its acquireLock was granted.     *)
Lease == INSTANCE TaskLease WITH
    Tasks <- ClusterTasks,
    inside <- [t \in ClusterTasks |->
                 {n \in Nodes : Holds(n, t) /\ now <= at[n][t] + LockTTL}]
ImplementsLease == Lease!Spec

(* A drained Stop leaves no goroutine behind that could still use the      *)
(* database Shutdown closes next.                                          *)
StopDrained ==
    \A n \in Nodes : proc[n] = "stopped" =>
        \A t \in Tasks : pc[n][t] \notin Running

(* After a restart nothing older than the catch-up window is started: no   *)
(* storm of overdue tasks (resumeNext's comment).                          *)
NoStorm ==
    \A n \in Nodes : proc[n] \in {"looping", "draining"} =>
        \A t \in Tasks : pc[n][t] = "begin" => next[n][t] >= startAt[n] - CatchUp

(* The persisted row wins over the built-in default: a task switched off   *)
(* in scheduler_tasks is never executed, on any node, after any restart.   *)
DisabledNeverRuns ==
    \A r \in ran : rows[r.task].enabled

(* What ClusterAware promises (task.go:24-25): on a given occurrence only  *)
(* one node runs the task; here also, that node runs it once.              *)
OncePerOccurrence ==
    \A q, r \in ran : q.task = r.task /\ q.occ = r.occ => q = r

(* execute's comment: the outcome is recorded to scheduler_history "either *)
(* way".  What a worker executed it has recorded when it is done; a task   *)
(* with a retry is left out, since a stop during its wait skips recordRun. *)
EveryRunRecorded ==
    \A r \in ran : r.task \notin RetryTasks =>
        \/ r \in history
        \/ pc[r.node][r.task] \in Executing /\ at[r.node][r.task] = r.at

(* Every execution is accounted for, and none outlives a drained Stop.     *)
RunsAccounted == StopDrained /\ EveryRunRecorded

(* The persisted next_run_at of a task never moves back, so a restart does *)
(* not repeat an occurrence that had been left behind.                     *)
NextRunNeverBack ==
    [][\A t \in Tasks : rows'[t].next >= rows[t].next]_vars

(* A due occurrence does not stay due for ever: the loop picks it up and   *)
(* its worker moves next on, unless the process ends.                      *)
DueIsHandled ==
    \A n \in Nodes, t \in Tasks : \A k \in 0..MaxTime :
        (proc[n] = "looping" /\ enabled[n][t] /\ next[n][t] = k /\ k <= now)
            ~> (next[n][t] # k \/ proc[n] # "looping")

(* Stop returns: the loop sees the closed channel, no worker waits on it,  *)
(* and the WaitGroup reaches zero.                                         *)
StopTerminates ==
    \A n \in Nodes : stop[n] ~> (proc[n] \in {"stopped", "down"})
=============================================================================
