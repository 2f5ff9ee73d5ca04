------------------------------ MODULE Overlay ------------------------------
(* One overlay network manager (src/overlay TorManager or I2PManager): the   *)
(* process it owns, the monitor that restarts it, the operations that        *)
(* restart it on request, and Close.  All of them share one mutex.           *)
(*                                                                           *)
(* The n-th start launches process n, which forwards to port n (a fresh      *)
(* loopback port per start).  The address follows from the persisted key.    *)
(* Restart, UpdateConfig, RegenerateAddress and ApplyKeys have no caller in  *)
(* the server yet: they are taken as calls made before Close.                *)
EXTENDS Integers, FiniteSets

CONSTANTS
  OverlayNets,   \* subset of {"tor", "i2p"}
  OvOps,         \* operations called: subset of {"restart", "regenerate", "apply", "disable"}
  I2PDSometimes, \* the i2pd binary comes and goes between starts
  MaxOvStarts,   \* bound: starts
  OvFaults       \* bound: processes that die and starts that fail

VARIABLES
  ovNet,         \* which network this manager runs
  ovProvider,    \* how its service is run: "tor", "i2pd" or "sam"
  ovService,     \* manager.service: its start, 0 for nil
  ovLive,        \* processes (or SAM sessions) that are alive
  ovStarts,      \* starts so far
  ovListener,    \* port the backend listener is bound to
  ovKey,         \* persisted key: which one, 0 for none, and who wrote it
  ovAddress,     \* address the service was last published under, as the key behind it
  ovRekeyed,     \* another key was asked for since the last successful start (history)
  ovLock,        \* holder of manager.mu
  monitor,       \* the monitor goroutine
  closing,       \* where Close is
  ovOp,          \* the operation being served
  ovFaults

overlayVars == <<ovNet, ovProvider, ovService, ovLive, ovStarts, ovListener, ovKey, ovAddress, ovRekeyed,
                 ovLock, monitor, closing, ovOp, ovFaults>>

---------------------------------------------------------------------------
(* The service.                                                              *)

Lock(who) == ovLock = "free" /\ ovLock' = who
Unlock(who) == ovLock = who /\ ovLock' = "free"

\* I2PService.Close: a SAM session is gone when it returns, i2pd is only sent
\* an interrupt.
CloseI2P == ovLive' = IF ovProvider = "i2pd" THEN ovLive ELSE ovLive \ {ovService}

CloseTor == ovLive' = ovLive \ {ovService}

CloseService == ovService' = 0 /\ IF ovNet = "tor" THEN CloseTor ELSE CloseI2P

\* Mutant: every start generates a key.
AlwaysGenerate(prov, fresh) == [id |-> fresh, by |-> prov]

\* The key a start runs with: the persisted one if the provider can read it
\* (an imported one by anybody), else a new one, persisted in its place.
LoadOrCreateKey(prov, fresh) ==
  IF ovKey.id # 0 /\ ovKey.by \in {prov, "import"} THEN ovKey ELSE [id |-> fresh, by |-> prov]

\* i2pd when its binary is found, else a SAM bridge.
ResolveProvider(prov) ==
  \/ ovNet = "tor" /\ prov = "tor"
  \/ ovNet = "i2p" /\ prov \in {"i2pd", "sam"} /\ (ovStarts = 0 \/ I2PDSometimes \/ prov = ovProvider)

NextStart == ovStarts < MaxOvStarts /\ ovStarts' = ovStarts + 1

StartProcess(prov) ==
  /\ NextStart /\ ResolveProvider(prov)
  /\ ovProvider' = prov
  /\ ovService' = ovStarts + 1
  /\ ovLive' = ovLive \union {ovStarts + 1}
  /\ ovKey' = LoadOrCreateKey(prov, ovStarts + 1)
  /\ ovAddress' = ovKey'.id
  /\ ovRekeyed' = FALSE
  /\ UNCHANGED ovFaults

StartTor == StartProcess("tor")
StartI2PD == StartProcess("i2pd")
StartSAMEepsite == StartProcess("sam")

StartService == StartTor \/ StartI2PD \/ StartSAMEepsite

\* A start that fails before a process or a session is up (no binary, no
\* directory, no torrc) leaves the key alone.  One that fails later (no
\* bootstrap, no address, no SAM session) may have persisted a new key; what
\* was started is closed again (i2pd, again, is only interrupted).
StartFails ==
  /\ ovFaults < OvFaults /\ NextStart
  /\ ovFaults' = ovFaults + 1
  /\ \E prov \in {"tor", "i2pd", "sam"} :
       /\ ResolveProvider(prov)
       /\ ovProvider' = prov
       /\ \/ UNCHANGED <<ovLive, ovKey>>
          \/ /\ ovLive' = IF prov = "i2pd" THEN ovLive \union {ovStarts + 1} ELSE ovLive
             /\ ovKey' \in {ovKey, LoadOrCreateKey(prov, ovStarts + 1)}
  /\ UNCHANGED <<ovService, ovAddress, ovRekeyed>>

\* An i2pd that exited still has a nil ProcessState, because nothing waits
\* for it, and the SAM connection stays set when the bridge goes away.
I2PHealthy(s) == TRUE

TorHealthy(s) == s \in ovLive

HealthCheck(s) == IF ovNet = "tor" THEN TorHealthy(s) ELSE I2PHealthy(s)

---------------------------------------------------------------------------
(* Start, from startTor or startI2P: no monitor without a service.  The      *)
(* backend listener is bound once, to this service's port.                   *)

StartManager ==
  /\ ovService = 0 /\ ovStarts = 0 /\ closing = "no" /\ monitor.at = "none"
  /\ \/ StartService /\ monitor' = [at |-> "wait", saw |-> 0] /\ ovListener' = ovService'
        /\ UNCHANGED closing
     \/ StartFails /\ closing' = "closed" /\ UNCHANGED <<monitor, ovListener>>
  /\ UNCHANGED <<ovNet, ovLock, ovOp>>

---------------------------------------------------------------------------
(* The monitor loop and checkHealth.                                         *)

MonitorAt(s) == monitor.at = s
MonitorGo(s) == monitor' = [monitor EXCEPT !.at = s]
ServiceKept ==
  UNCHANGED <<ovNet, ovProvider, ovService, ovLive, ovStarts, ovListener, ovKey, ovAddress, ovRekeyed, ovFaults>>

MonitorTicks ==
  /\ MonitorAt("wait") /\ MonitorGo("read")
  /\ ServiceKept /\ UNCHANGED <<ovLock, closing, ovOp>>

MonitorStops ==
  /\ MonitorAt("wait") /\ closing = "waiting" /\ MonitorGo("gone")
  /\ ServiceKept /\ UNCHANGED <<ovLock, closing, ovOp>>

\* The service is read under the lock and judged after it is released.
ReadService ==
  /\ MonitorAt("read") /\ ovLock = "free"
  /\ monitor' = IF ovService = 0 THEN [at |-> "wait", saw |-> 0]
                ELSE [at |-> "judge", saw |-> ovService]
  /\ ServiceKept /\ UNCHANGED <<ovLock, closing, ovOp>>

JudgeService ==
  /\ MonitorAt("judge")
  /\ monitor' = IF HealthCheck(monitor.saw) THEN [at |-> "wait", saw |-> 0]
                ELSE [at |-> "relock", saw |-> 0]
  /\ ServiceKept /\ UNCHANGED <<ovLock, closing, ovOp>>

CloseJudged ==
  /\ MonitorAt("relock") /\ Lock("monitor") /\ CloseService /\ MonitorGo("restart")
  /\ UNCHANGED <<ovNet, ovProvider, ovStarts, ovListener, ovKey, ovAddress, ovRekeyed, closing, ovOp, ovFaults>>

RestartJudged ==
  /\ MonitorAt("restart") /\ Unlock("monitor") /\ MonitorGo("wait")
  /\ StartService \/ StartFails
  /\ UNCHANGED <<ovNet, ovListener, closing, ovOp>>

---------------------------------------------------------------------------
(* Restart and UpdateConfig, RegenerateAddress, ApplyKeys.                   *)

\* Every operation takes the lock and closes the service ...
BeginOp(op) ==
  /\ op \in OvOps /\ ovOp = "none" /\ closing = "no" /\ ovStarts > 0
  /\ Lock("op") /\ CloseService /\ ovOp' = op
  /\ UNCHANGED <<ovNet, ovProvider, ovStarts, ovListener, ovAddress, monitor, closing, ovFaults>>

ReplaceKey(key) == ovKey' = key /\ ovRekeyed' = TRUE
KeepKey == UNCHANGED <<ovKey, ovRekeyed>>

RestartOp == BeginOp("restart") /\ KeepKey
RegenerateAddress == BeginOp("regenerate") /\ ReplaceKey([id |-> 0, by |-> "none"])
ApplyKeys == ovNet = "tor" /\ BeginOp("apply") /\ ReplaceKey([id |-> -1, by |-> "import"])
DisableI2P == ovNet = "i2p" /\ BeginOp("disable") /\ KeepKey

\* ... and starts it again, unless the new settings disable it.
EndOp ==
  /\ ovOp # "none" /\ Unlock("op") /\ ovOp' = "none"
  /\ IF ovOp = "disable"
     THEN UNCHANGED <<ovProvider, ovService, ovLive, ovStarts, ovKey, ovAddress, ovRekeyed, ovFaults>>
     ELSE StartService \/ StartFails
  /\ UNCHANGED <<ovNet, ovListener, monitor, closing>>

---------------------------------------------------------------------------
(* Close: cancel under the lock, wait for the monitor without it, then take  *)
(* the lock again and close the service.                                     *)

\* Mutant: Close keeps the lock while it waits for the monitor.
CloseCancelsHolding ==
  /\ closing = "no" /\ ovStarts > 0 /\ monitor.at # "none" /\ ovOp = "none"
  /\ Lock("close")
  /\ closing' = "waiting"
  /\ ServiceKept /\ UNCHANGED <<monitor, ovOp>>

CloseCancels ==
  /\ closing = "no" /\ ovStarts > 0 /\ monitor.at # "none" /\ ovOp = "none"
  /\ ovLock = "free"
  /\ closing' = "waiting"
  /\ ServiceKept /\ UNCHANGED <<ovLock, monitor, ovOp>>

EndClose ==
  /\ closing = "waiting" /\ MonitorAt("gone")
  /\ ovLock \in {"free", "close"} /\ ovLock' = "free"
  /\ CloseService /\ closing' = "closed"
  /\ UNCHANGED <<ovNet, ovProvider, ovStarts, ovListener, ovKey, ovAddress, ovRekeyed, monitor, ovOp, ovFaults>>

---------------------------------------------------------------------------
ProcessDies ==
  /\ ovFaults < OvFaults
  /\ \E p \in ovLive : ovLive' = ovLive \ {p}
  /\ ovFaults' = ovFaults + 1
  /\ UNCHANGED <<ovNet, ovProvider, ovService, ovStarts, ovListener, ovKey, ovAddress, ovRekeyed, ovLock, monitor,
                 closing, ovOp>>

\* An interrupted i2pd gets around to exiting.
InterruptedExits ==
  /\ ovNet = "i2p" /\ \E p \in ovLive \ {ovService} : ovLive' = ovLive \ {p}
  /\ UNCHANGED <<ovNet, ovProvider, ovService, ovStarts, ovListener, ovKey, ovAddress, ovRekeyed, ovLock, monitor,
                 closing, ovOp, ovFaults>>

OverlayInit ==
  /\ ovNet \in OverlayNets
  /\ ovService = 0 /\ ovLive = {} /\ ovStarts = 0 /\ ovListener = 0
  /\ ovProvider = "none" /\ ovKey = [id |-> 0, by |-> "none"] /\ ovAddress = 0
  /\ ovRekeyed = FALSE /\ ovLock = "free"
  /\ monitor = [at |-> "none", saw |-> 0]
  /\ closing = "no" /\ ovOp = "none" /\ ovFaults = 0

MonitorStep == ReadService \/ JudgeService \/ CloseJudged \/ RestartJudged

OverlayNext ==
  \/ StartManager \/ MonitorTicks \/ MonitorStops \/ MonitorStep
  \/ RestartOp \/ RegenerateAddress \/ ApplyKeys \/ DisableI2P \/ EndOp
  \/ CloseCancels \/ EndClose \/ ProcessDies \/ InterruptedExits

\* The ticker keeps firing and every call returns.  Once the context is done
\* the select cannot prefer the ticker for ever: it fires every 30 s only.
OverlayFairness ==
  /\ WF_overlayVars(MonitorTicks) /\ WF_overlayVars(MonitorStep) /\ SF_overlayVars(MonitorStops)
  /\ WF_overlayVars(EndOp) /\ WF_overlayVars(EndClose)

OverlayTypeOK ==
  /\ ovNet \in OverlayNets /\ ovService \in 0..MaxOvStarts /\ ovLive \subseteq 1..MaxOvStarts
  /\ ovListener \in 0..MaxOvStarts /\ ovKey.id \in -1..MaxOvStarts
  /\ ovLock \in {"free", "monitor", "op", "close"}
  /\ monitor.at \in {"none", "wait", "read", "judge", "relock", "restart", "gone"}
  /\ closing \in {"no", "waiting", "closed"} /\ ovOp \in OvOps \union {"none"}

---------------------------------------------------------------------------
\* The service is run the same way each time: always for Tor, for I2P where
\* i2pd does not come and go.  (One provider cannot read the other's key, so a
\* manager that changes provider changes its address.)
ProviderStays == ovNet = "tor" \/ ~I2PDSometimes

\* The manager "fully owns the process": with the lock free no tor process or
\* SAM session is alive but the one the manager knows, whatever health check
\* judged a service that an operation replaced meanwhile, whichever start
\* failed half way, and after Close there is none.  (An interrupted i2pd may
\* outlive both.)
OwnsItsProcess ==
  (ovProvider # "i2pd" /\ ProviderStays /\ ovLock = "free") =>
     ovLive \subseteq (IF closing = "closed" THEN {} ELSE {ovService})

\* The published address outlives restarts: whatever restarts of the monitor,
\* operations and starts that failed, early or late, lie between, the service
\* comes back under another address only if since it was last up a regenerated
\* address or an imported key was asked for (or the provider changed); and no
\* step ends with a process the manager does not own.
AddressPersists ==
  [][/\ (ProviderStays /\ ovAddress' # ovAddress /\ ovAddress # 0) => ovRekeyed
     /\ OwnsItsProcess']_overlayVars

\* Close returns: the monitor it waits for is never itself waiting for a lock
\* Close holds, not even in the middle of a restart.  A start the bound
\* forbids is not one the code would hang in.
CloseCompletes == (closing = "waiting" /\ ovStarts < MaxOvStarts) ~> (closing = "closed" \/ ovStarts = MaxOvStarts)

\* "The manager's own monitor restarts a dead process": a hidden service whose
\* process died is reachable again some day, unless the manager is closed.
DeadIsReplaced ==
  (ovService # 0 /\ ovService \notin ovLive)
     ~> (closing # "no" \/ ovStarts = MaxOvStarts \/ (ovService \in ovLive /\ ovService = ovListener))
=============================================================================
