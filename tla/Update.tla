------------------------------- MODULE Update -------------------------------
(* Self update (src/update): the scheduled check with its soak window and    *)
(* the operator's --update commands, each choosing a release, downloading    *)
(* and verifying it, replacing the binary and restarting the service.  The   *)
(* release server is external: it publishes releases over time and may fail  *)
(* or deliver a damaged file.                                                *)
EXTENDS Integers, FiniteSets

CONSTANTS
  Releases,      \* releases that exist or will exist
  RelKind,       \* release -> "stable", "beta" or "daily"
  RelAt,         \* release -> publication time, distinct, > 0
  RelAssets,     \* release -> subset of {"binary", "sha256"}
  FirstRelease,  \* the release installed to begin with
  DeferDays,     \* server.update.defer_days
  AutoInstall,   \* server.update.auto_install
  BuildLag,      \* time between building a release and publishing it
  MaxUpdTime,    \* bound: clock
  UpdFaults      \* bound: failed or damaged transfers and crashes

VARIABLES
  updClock,
  updBranch,     \* update.branch in server.yml
  srvBranch,     \* the branch the server loaded when it started
  running,       \* the release the server process runs
  binary,        \* the file at the binary's path
  updater,       \* the scheduled task and the operator's command
  updFaults

updateVars == <<updClock, updBranch, srvBranch, running, binary, updater, updFaults>>

Updaters == {"task", "cli"}
NoRelease == "none"
UpdaterIdle == [at |-> "idle", self |-> NoRelease, target |-> NoRelease, temp |-> "none"]

---------------------------------------------------------------------------
(* Choosing a release.                                                       *)

\* What the releases API lists: a rolling daily replaces the one before.
listReleases ==
  {r \in Releases : /\ RelAt[r] <= updClock
                    /\ RelKind[r] = "daily" =>
                         ~\E q \in Releases : /\ RelKind[q] = "daily"
                                              /\ RelAt[r] < RelAt[q] /\ RelAt[q] <= updClock}

matchesBranch(r, branch) ==
  \/ RelKind[r] = "stable"
  \/ RelKind[r] = "beta" /\ branch \in {"beta", "daily"}
  \/ RelKind[r] = "daily" /\ branch = "daily"

filterEligible(rels) == {r \in rels : updClock - RelAt[r] >= DeferDays}

BuildEpoch(r) == RelAt[r] - BuildLag

\* The release a process built as self takes from a list, NoRelease for none.
\* The daily tag never names the running version.
selectLatest(rels, self, branch) ==
  LET onBranch == {r \in rels : matchesBranch(r, branch)}
      newest   == CHOOSE r \in onBranch : \A q \in onBranch : RelAt[q] <= RelAt[r]
      listed   == self \in rels /\ RelKind[self] # "daily"
  IN CASE onBranch = {} -> NoRelease
       [] onBranch # {} /\ RelKind[newest] = "daily" ->
            IF RelAt[newest] <= BuildEpoch(self) THEN NoRelease ELSE newest
       [] OTHER -> IF newest = self \/ (listed /\ RelAt[newest] <= RelAt[self])
                   THEN NoRelease ELSE newest

CheckLatest(self) == selectLatest(listReleases, self, updBranch)

CheckEligible(self) == selectLatest(filterEligible(listReleases), self, srvBranch)

---------------------------------------------------------------------------
(* The update flow, one network or file step at a time.                      *)

UpdaterMove(u, s) == updater' = [updater EXCEPT ![u].at = s]
UpdaterStops(u) == updater' = [updater EXCEPT ![u] = UpdaterIdle]

Begin(u, self, target) ==
  updater' = [updater EXCEPT ![u] = [at |-> "download", self |-> self, target |-> target, temp |-> "none"]]

\* update_check: notifies, and installs only when told to.
CheckForUpdate ==
  /\ updater["task"].at = "idle"
  /\ AutoInstall /\ CheckEligible(running) # NoRelease
  /\ Begin("task", running, CheckEligible(running))
  /\ UNCHANGED <<updClock, updBranch, srvBranch, running, binary, updFaults>>

\* --update yes, in a process started from the binary on disk.
UpdateYes ==
  /\ updater["cli"].at = "idle"
  /\ CheckLatest(binary.release) # NoRelease
  /\ Begin("cli", binary.release, CheckLatest(binary.release))
  /\ UNCHANGED <<updClock, updBranch, srvBranch, running, binary, updFaults>>

SetBranch(branch) ==
  /\ updBranch' = branch /\ updBranch # branch
  /\ UNCHANGED <<updClock, srvBranch, running, binary, updater, updFaults>>

\* DoUpdate refuses a release without both assets before it downloads.
Download(u) ==
  /\ updater[u].at = "download"
  /\ IF RelAssets[updater[u].target] # {"binary", "sha256"}
     THEN UpdaterStops(u) /\ UNCHANGED updFaults
     ELSE \/ /\ updater' = [updater EXCEPT ![u].at = "verify", ![u].temp = "whole"]
             /\ UNCHANGED updFaults
          \/ /\ updFaults < UpdFaults
             /\ updFaults' = updFaults + 1
             /\ updater' = [updater EXCEPT ![u].at = "verify", ![u].temp = "damaged"]
  /\ UNCHANGED <<updClock, updBranch, srvBranch, running, binary>>

\* Mutant: a file that fails its checksum is installed all the same.
ChecksumIgnored(temp) == TRUE

verifyChecksum(temp) == temp = "whole"

Verify(u) ==
  /\ updater[u].at = "verify"
  /\ IF verifyChecksum(updater[u].temp) THEN UpdaterMove(u, "replace") ELSE UpdaterStops(u)
  /\ UNCHANGED <<updClock, updBranch, srvBranch, running, binary, updFaults>>

\* The rename over the running executable.
ReplaceBinary(u) ==
  /\ updater[u].at = "replace"
  /\ binary' = [release |-> updater[u].target, content |-> updater[u].temp]
  /\ UpdaterMove(u, "restart")
  /\ UNCHANGED <<updClock, updBranch, srvBranch, running, updFaults>>

\* restartService: the service manager restarts the server from disk, which
\* ends the task's process; failing that the caller re-executes itself, which
\* for the task comes to the same.
RestartService(u) ==
  /\ updater[u].at = "restart"
  /\ \/ /\ running' = binary.release /\ srvBranch' = updBranch
        /\ updater' = [updater EXCEPT !["task"] = UpdaterIdle, ![u] = UpdaterIdle]
     \/ /\ u = "cli"
        /\ UpdaterStops(u) /\ UNCHANGED <<running, srvBranch>>
  /\ UNCHANGED <<updClock, updBranch, binary, updFaults>>

\* A request fails or the process is stopped, and the temporary file is
\* removed; or the permissions of the new binary cannot be set, which ends the
\* update without a restart.
UpdateFails(u) ==
  /\ updater[u].at \in {"download", "verify", "replace", "restart"}
  /\ updFaults < UpdFaults
  /\ updFaults' = updFaults + 1
  /\ UpdaterStops(u)
  /\ UNCHANGED <<updClock, updBranch, srvBranch, running, binary>>

UpdTick ==
  /\ updClock < MaxUpdTime
  /\ updClock' = updClock + 1
  /\ UNCHANGED <<updBranch, srvBranch, running, binary, updater, updFaults>>

UpdateInit ==
  /\ updClock = RelAt[FirstRelease]
  /\ updBranch = "stable" /\ srvBranch = "stable"
  /\ running = FirstRelease
  /\ binary = [release |-> FirstRelease, content |-> "whole"]
  /\ updater = [u \in Updaters |-> UpdaterIdle]
  /\ updFaults = 0

UpdateNext ==
  \/ CheckForUpdate \/ UpdateYes \/ \E b \in {"stable", "beta", "daily"} : SetBranch(b)
  \/ \E u \in Updaters : Download(u) \/ Verify(u) \/ ReplaceBinary(u) \/ RestartService(u) \/ UpdateFails(u)
  \/ UpdTick

UpdateTypeOK ==
  /\ updClock \in 0..MaxUpdTime /\ {updBranch, srvBranch} \subseteq {"stable", "beta", "daily"}
  /\ running \in Releases /\ binary.release \in Releases /\ binary.content \in {"whole", "damaged"}
  /\ \A u \in Updaters : updater[u].at \in {"idle", "download", "verify", "replace", "restart"}
  /\ updFaults \in 0..UpdFaults

---------------------------------------------------------------------------
\* Whatever transfers are damaged or cut short and however the task and the
\* operator's command overlap, the binary is at all times the whole content
\* of a release that shipped its checksums: verification precedes the rename
\* and the rename is the only write.
BinaryVerified ==
  binary.content = "whole" /\ (binary.release = FirstRelease \/ "sha256" \in RelAssets[binary.release])

\* selectLatest "picks the newest release on branch that is actually newer
\* than the running version": no process installs a release older than the
\* one it was built from.
NeverDowngrades ==
  [][binary' # binary => \E u \in Updaters : /\ updater[u].target = binary'.release
                                             /\ updater[u].at = "replace"
                                             /\ RelAt[binary'.release] > RelAt[updater[u].self]]_updateVars
=============================================================================
