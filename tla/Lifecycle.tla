----------------------------- MODULE Lifecycle -----------------------------
(***************************************************************************)
(* The life of a server process (src/startup, src/pidfile, src/signals,    *)
(* src/server/server.go): the start sequence, which unwinds whatever it    *)
(* has brought up when a step fails, the serving state with its requests,  *)
(* scheduled tasks and background certificate order, the signal listener,  *)
(* and the ordered shutdown.  Processes of one installation share the PID  *)
(* file and the listening ports; any of them may be killed at any point.   *)
(***************************************************************************)
EXTENDS Naturals, FiniteSets

CONSTANTS Instances   \* processes of the installation; each may start again

VARIABLES
    stage,    \* the next step of each process; "off" when it is not running
    holding,     \* what each process has open
    pidFile,  \* the process the PID file names
    portOf,   \* the process that has the listening ports bound
    working,  \* what each process is doing on its stores: requests, tasks
    sigChan,  \* the listener's channel, of capacity one
    late,     \* processes a drain of which has timed out
    raced     \* a PID file of a live process was removed or overwritten

lifecycleVars == <<stage, holding, pidFile, portOf, working, sigChan, late, raced>>

Nobody == "nobody"
ASSUME LifecycleAssumption == Nobody \notin Instances
StoreHandles == {"serverDB", "usersDB"}
WorkKinds == {"request", "task", "acme"}
StartStages == {"log", "pidcheck", "pidstale", "pidwrite", "config", "databases",
                "http", "overlays", "scheduler", "token"}
StopStages == {"stopsched", "stopoverlays", "stophttp", "closestores", "removepid", "closelog"}
Alive(p) == stage[p] # "off"

Resources == StoreHandles \cup {"log", "pid", "geoip", "http", "overlays", "sched"}

LifecycleInit ==
    /\ stage = [p \in Instances |-> "off"]
    /\ holding = [p \in Instances |-> {}]
    /\ pidFile = Nobody
    /\ portOf = Nobody
    /\ working = [p \in Instances |-> {}]
    /\ sigChan = [p \in Instances |-> "empty"]
    /\ late = {}
    /\ raced = FALSE

GoTo(p, s) == stage' = [stage EXCEPT ![p] = s]
Acquire(p, res) == holding' = [holding EXCEPT ![p] = @ \cup res]
Release(p, res) == holding' = [holding EXCEPT ![p] = @ \ res]
NoWork == UNCHANGED <<working, late>>

-----------------------------------------------------------------------------
(* The start sequence.  Run parses the flags, detaches and calls Start,    *)
(* which has nothing to give back before the logger is open.               *)
RunServer(p) ==
    /\ stage[p] = "off"
    /\ GoTo(p, "log")
    /\ late' = late \ {p}
    /\ UNCHANGED <<holding, pidFile, portOf, working, sigChan, raced>>

OpenLog(p) ==
    /\ stage[p] = "log"
    /\ \/ Acquire(p, {"log"}) /\ GoTo(p, "pidcheck")
       \/ GoTo(p, "off") /\ UNCHANGED holding
    /\ UNCHANGED <<pidFile, portOf, sigChan, raced>> /\ NoWork

(* Check reads the file and asks whether the process it names is alive ... *)
CheckPID(p) ==
    /\ stage[p] = "pidcheck"
    /\ GoTo(p, CASE pidFile = Nobody -> "pidwrite"
               [] pidFile # Nobody /\ pidFile # p /\ Alive(pidFile) -> "stopsched"
               [] OTHER -> "pidstale")
    /\ UNCHANGED <<holding, pidFile, portOf, sigChan, raced>> /\ NoWork

(* ... removes a file that names nobody ...                                *)
RemoveStale(p) ==
    /\ stage[p] = "pidstale"
    /\ GoTo(p, "pidwrite")
    /\ pidFile' = Nobody
    /\ raced' = (raced \/ (pidFile # Nobody /\ pidFile # p /\ Alive(pidFile)))
    /\ UNCHANGED <<holding, portOf, sigChan>> /\ NoWork

(* ... and Write stores this process.  pidPath is set once it has.         *)
WritePID(p) ==
    /\ stage[p] = "pidwrite"
    /\ GoTo(p, "config")
    /\ pidFile' = p
    /\ raced' = (raced \/ (pidFile # Nobody /\ pidFile # p /\ Alive(pidFile)))
    /\ Acquire(p, {"pid"})
    /\ UNCHANGED <<portOf, sigChan>> /\ NoWork

(* config.Load, EnsureEncryptionKey and reconfigureLogging, which opens    *)
(* the replacement before it closes the bootstrap logger.                  *)
LoadConfig(p) ==
    /\ stage[p] = "config"
    /\ GoTo(p, "databases")
    /\ UNCHANGED <<holding, pidFile, portOf, sigChan, raced>> /\ NoWork

(* openDatabases keeps the handles it opened before the step that failed.  *)
OpenDatabases(p) ==
    /\ stage[p] = "databases"
    /\ \/ Acquire(p, StoreHandles \cup {"geoip"}) /\ GoTo(p, "http")
       \/ \E got \in {{"serverDB"}, StoreHandles} : Acquire(p, got) /\ GoTo(p, "stopsched")
    /\ UNCHANGED <<pidFile, portOf, sigChan, raced>> /\ NoWork

(* server.Start binds both listeners or neither, ...                       *)
BindListeners(p) == portOf = Nobody /\ portOf' = p /\ Acquire(p, {"http"})

(* ... and the first certificate may be ordered in the background.         *)
OrderCertificate(p) == \E order \in {{}, {"acme"}} : working' = [working EXCEPT ![p] = order]

StartHTTP(p) ==
    /\ stage[p] = "http"
    /\ \/ BindListeners(p) /\ OrderCertificate(p) /\ GoTo(p, "overlays")
       \/ portOf # Nobody /\ GoTo(p, "stopsched") /\ UNCHANGED <<holding, portOf, working>>
    /\ UNCHANGED <<pidFile, sigChan, late, raced>>

(* An overlay network that does not come up is logged and left out.        *)
StartOverlays(p) ==
    /\ stage[p] = "overlays"
    /\ \E nets \in SUBSET {"overlays"} : Acquire(p, nets)
    /\ GoTo(p, "scheduler")
    /\ UNCHANGED <<pidFile, portOf, sigChan, raced>> /\ NoWork

StartScheduler(p) ==
    /\ stage[p] = "scheduler"
    /\ Acquire(p, {"sched"})
    /\ GoTo(p, "token")
    /\ UNCHANGED <<pidFile, portOf, sigChan, raced>> /\ NoWork

(* ensureSetupToken, then signals.Listen: the process is up.               *)
Announce(p) ==
    /\ stage[p] = "token"
    /\ GoTo(p, "up")
    /\ UNCHANGED <<holding, pidFile, portOf, sigChan, raced>> /\ NoWork

(* Any step between the PID file and the listeners may fail on its own:    *)
(* Start unwinds.                                                          *)
StepFails(p) ==
    /\ stage[p] \in {"pidcheck", "pidwrite", "config", "databases", "http", "scheduler", "token"}
    /\ GoTo(p, "stopsched")
    /\ UNCHANGED <<holding, pidFile, portOf, sigChan, raced>> /\ NoWork

-----------------------------------------------------------------------------
(* What a running process does on its stores.                              *)
ServeRequest(p) ==
    /\ "http" \in holding[p]
    /\ portOf = p
    /\ working' = [working EXCEPT ![p] = @ \cup {"request"}]
    /\ UNCHANGED <<stage, holding, pidFile, portOf, sigChan, late, raced>>
RunTask(p) ==
    /\ "sched" \in holding[p]
    /\ stage[p] \notin StopStages
    /\ working' = [working EXCEPT ![p] = @ \cup {"task"}]
    /\ UNCHANGED <<stage, holding, pidFile, portOf, sigChan, late, raced>>
FinishWork(p, w) ==
    /\ w \in working[p]
    /\ working' = [working EXCEPT ![p] = @ \ {w}]
    /\ UNCHANGED <<stage, holding, pidFile, portOf, sigChan, late, raced>>

(* A signal of an installed handler is put in the channel, or dropped when *)
(* one is waiting there.                                                   *)
DeliverSignal(p, s) ==
    /\ stage[p] \in {"up"} \cup StopStages
    /\ sigChan[p] = "empty"
    /\ sigChan' = [sigChan EXCEPT ![p] = s]
    /\ UNCHANGED <<stage, holding, pidFile, portOf, raced>> /\ NoWork

(* dispatch: reopen the logs or dump the status, or run Shutdown once.     *)
DispatchSignal(p) ==
    /\ sigChan[p] # "empty"
    /\ sigChan' = [sigChan EXCEPT ![p] = "empty"]
    /\ GoTo(p, IF sigChan[p] = "term" /\ stage[p] = "up" THEN "stopsched" ELSE stage[p])
    /\ UNCHANGED <<holding, pidFile, portOf, raced>> /\ NoWork

-----------------------------------------------------------------------------
(* Shutdown.  A drain ends when the work it waits for has ended or when    *)
(* its 30 seconds are over; the certificate order is cancelled and waited  *)
(* for without a limit.                                                    *)
Drained(p, w) == late' = IF w \in working[p] THEN late \cup {p} ELSE late

StopScheduler(p) ==
    /\ stage[p] = "stopsched"
    /\ Drained(p, "task")
    /\ Release(p, {"sched"})
    /\ GoTo(p, "stopoverlays")
    /\ UNCHANGED <<pidFile, portOf, working, sigChan, raced>>

StopOverlays(p) ==
    /\ stage[p] = "stopoverlays"
    /\ Release(p, {"overlays"})
    /\ GoTo(p, "stophttp")
    /\ UNCHANGED <<pidFile, portOf, sigChan, raced>> /\ NoWork

(* Mutant: the drain has no time limit.                                    *)
StopHTTPWaits(p) ==
    /\ stage[p] = "stophttp"
    /\ "acme" \notin working[p]
    /\ IF portOf = p
       THEN portOf' = Nobody /\ UNCHANGED <<stage, holding>>
       ELSE "request" \notin working[p] /\ Release(p, {"http"}) /\ GoTo(p, "closestores") /\ UNCHANGED portOf
    /\ UNCHANGED <<pidFile, working, sigChan, late, raced>>

(* Shutdown closes the listeners, so no request begins while the drain is  *)
(* on; acmeWG is waited for first.                                         *)
StopHTTP(p) ==
    /\ stage[p] = "stophttp"
    /\ "acme" \notin working[p]
    /\ IF portOf = p
       THEN portOf' = Nobody /\ UNCHANGED <<stage, holding, late>>
       ELSE Drained(p, "request") /\ Release(p, {"http"}) /\ GoTo(p, "closestores") /\ UNCHANGED portOf
    /\ UNCHANGED <<pidFile, working, sigChan, raced>>

(* Mutant: the stores go down before the listeners do.                     *)
CloseStoresFirst(p) ==
    /\ stage[p] \in {"stopoverlays", "closestores"}
    /\ Release(p, StoreHandles \cup {"geoip"})
    /\ GoTo(p, IF stage[p] = "stopoverlays" THEN "stophttp" ELSE "removepid")
    /\ UNCHANGED <<pidFile, portOf, sigChan, raced>> /\ NoWork

CloseStores(p) ==
    /\ stage[p] = "closestores"
    /\ Release(p, StoreHandles \cup {"geoip"})
    /\ GoTo(p, "removepid")
    /\ UNCHANGED <<pidFile, portOf, sigChan, raced>> /\ NoWork

(* The file is removed when pidPath is set, whoever it names by now.       *)
RemovePID(p) ==
    /\ stage[p] = "removepid"
    /\ pidFile' = IF "pid" \in holding[p] THEN Nobody ELSE pidFile
    /\ raced' = (raced \/ ("pid" \in holding[p] /\ pidFile \notin {p, Nobody} /\ Alive(pidFile)))
    /\ Release(p, {"pid"})
    /\ GoTo(p, "closelog")
    /\ UNCHANGED <<portOf, sigChan>> /\ NoWork

(* The log goes last, and the process exits with the work that outlived    *)
(* its drain.                                                              *)
CloseLog(p) ==
    /\ stage[p] = "closelog"
    /\ Release(p, {"log"})
    /\ working' = [working EXCEPT ![p] = {}]
    /\ sigChan' = [sigChan EXCEPT ![p] = "empty"]
    /\ GoTo(p, "off")
    /\ UNCHANGED <<pidFile, portOf, late, raced>>

(* A kill, or any signal before the handlers are installed: the kernel     *)
(* takes everything back but the PID file.                                 *)
KillServer(p) ==
    /\ Alive(p)
    /\ GoTo(p, "off")
    /\ holding' = [holding EXCEPT ![p] = {}]
    /\ portOf' = IF portOf = p THEN Nobody ELSE portOf
    /\ working' = [working EXCEPT ![p] = {}]
    /\ sigChan' = [sigChan EXCEPT ![p] = "empty"]
    /\ UNCHANGED <<pidFile, late, raced>>

StartStep(p) ==
    \/ OpenLog(p) \/ CheckPID(p) \/ RemoveStale(p) \/ WritePID(p) \/ LoadConfig(p) \/ OpenDatabases(p)
    \/ StartHTTP(p) \/ StartOverlays(p) \/ StartScheduler(p) \/ Announce(p)
ShutdownStep(p) ==
    StopScheduler(p) \/ StopOverlays(p) \/ StopHTTP(p) \/ CloseStores(p) \/ RemovePID(p) \/ CloseLog(p)

LifecycleNext ==
    \E p \in Instances :
        \/ RunServer(p) \/ StartStep(p) \/ StepFails(p) \/ ServeRequest(p) \/ RunTask(p) \/ (\E w \in WorkKinds : FinishWork(p, w))
        \/ (\E s \in {"term", "usr1"} : DeliverSignal(p, s)) \/ DispatchSignal(p)
        \/ ShutdownStep(p) \/ KillServer(p)

(* The steps a live process takes by itself.  Handlers and tasks may run   *)
(* forever; the context of a cancelled certificate order ends it.          *)
LifecycleFairness ==
    \A p \in Instances :
        /\ WF_lifecycleVars(DispatchSignal(p))
        /\ WF_lifecycleVars(ShutdownStep(p))
        /\ WF_lifecycleVars(FinishWork(p, "acme"))

-----------------------------------------------------------------------------
LifecycleTypeOK ==
    /\ stage \in [Instances -> {"off", "up"} \cup StartStages \cup StopStages]
    /\ holding \in [Instances -> SUBSET Resources]
    /\ working \in [Instances -> SUBSET WorkKinds]
    /\ sigChan \in [Instances -> {"empty", "term", "usr1"}]

(* Shutdown and unwind take down, in this order, everything Start brought  *)
(* up: a process that is gone holds nothing, whichever step failed, and    *)
(* its ports can be bound again.                                           *)
NothingLeaks == \A p \in Instances : stage[p] = "off" => holding[p] = {} /\ portOf # p

(* A request or a task never runs on a closed store, unless the 30 seconds *)
(* its drain had were over.                                                *)
StoresOutliveWork ==
    \A p \in Instances : working[p] # {} => StoreHandles \subseteq holding[p] \/ p \in late

(* The PID file names the process that is up, whatever starts of others    *)
(* were refused, failed or were killed, unless two starts overlapped       *)
(* between the check of the file and the write.                            *)
PIDNamesServer ==
    \A p \in Instances : stage[p] = "up" => pidFile = p \/ raced

(* Starts, stops, failures and kills in any order keep a server's hold on  *)
(* its resources, its stores and its PID file in step with what it does.   *)
LifecycleSound == LifecycleTypeOK /\ NothingLeaks /\ StoresOutliveWork /\ PIDNamesServer

(* A termination signal the listener has accepted ends the process even    *)
(* when a request or a task never returns.                                 *)
TermStops == \A p \in Instances : sigChan[p] = "term" ~> stage[p] = "off"
=============================================================================
