------------------------------- MODULE Backup -------------------------------
(***************************************************************************)
(* Backups (src/backup): the daily and hourly tasks and the command line   *)
(* each create an archive, verify what they wrote and sweep the directory  *)
(* by the retention policy; a restore verifies an archive and writes its   *)
(* files back one by one.  The databases are copied while they are in use, *)
(* so a copy may fail its integrity check; a write may fail half way, and  *)
(* the process may be killed.                                              *)
(***************************************************************************)
EXTENDS Integers, FiniteSets

CONSTANTS
    BackupDays,    \* days, as far as the model runs
    TierOf,        \* the tier classify gives each day
    KeepOf,        \* files kept of each tier: max_backups, keep_weekly, ...
    BackupSizes,   \* sizes an archive can have
    SizeCap,       \* max_total_size; 0 is no cap, as is a value that does not parse
    BackupRuns,    \* which of the daily and hourly tasks and the command run
    BackupFaults   \* bound: failed writes, kills and restores

ASSUME BackupAssumption ==
    /\ BackupDays \in Nat \ {0}
    /\ \A d \in 1..BackupDays : KeepOf[TierOf[d]] \in Nat
    /\ BackupSizes \subseteq Nat
    /\ SizeCap \in Nat
    /\ BackupRuns \subseteq {"daily", "hourly", "manual"}

VARIABLES
    bkFile,     \* each name in the backup directory: absent, partly written,
                \* torn (whole, with a damaged copy of a database) or valid
    bkSize,     \* the size of each dated file; the cap does not count incrementals
    bkDay,      \* today
    bkPc,       \* the next step of each task or command
    bkName,     \* the file it is creating
    bkOver,     \* it is writing over a valid file
    bkFailed,   \* a write or a verification of the daily run has failed
    installed,  \* the files of the installation: its own, of an archive, or mixed
    verifiedArchive,    \* the archive a restore has verified
    restoring,  \* what the restore in progress has extracted
    bkFaults,   \* failed writes, kills and restores so far
    backedUp,   \* the tiers a full backup was verified in (history)
    spoiled,    \* a valid file was written over, or a sweep has counted one that
                \* is not valid (history)
    oversized   \* a sweep found the latest file it keeps above the cap on its own
                \* (history)

backupVars == <<bkFile, bkSize, bkDay, bkPc, bkName, bkOver, bkFailed, installed, verifiedArchive, restoring, bkFaults,
                backedUp, spoiled, oversized>>

FullBackup(d) == <<"full", d>>
Incremental == {<<"daily", 0>>, <<"hourly", 0>>}
DatedBackups == {FullBackup(d) : d \in 1..BackupDays} \cup {<<"manual", d>> : d \in 1..BackupDays}
BackupNames == DatedBackups \cup Incremental

BackupInit ==
    /\ bkFile = [n \in BackupNames |-> "absent"]
    /\ bkSize = [n \in BackupNames |-> 0]
    /\ bkDay = 1
    /\ bkPc = [t \in BackupRuns |-> "idle"]
    /\ bkName = [t \in BackupRuns |-> FullBackup(1)]
    /\ bkOver = [t \in BackupRuns |-> FALSE]
    /\ bkFailed = FALSE
    /\ installed = "own"
    /\ verifiedArchive = "none"
    /\ restoring = "nothing"
    /\ bkFaults = 0
    /\ backedUp = {}
    /\ spoiled = FALSE
    /\ oversized = FALSE

BkTo(t, label) == bkPc' = [bkPc EXCEPT ![t] = label]
BkFault == bkFaults < BackupFaults /\ bkFaults' = bkFaults + 1
RestoreIdle == UNCHANGED <<installed, verifiedArchive, restoring>>

SizesOf(n) == IF n \in DatedBackups THEN BackupSizes ELSE {0}

-----------------------------------------------------------------------------
(* Verify passes a whole archive with intact databases.                    *)
VerifyPasses(n) == bkFile[n] = "valid"

(* ScanDir lists the names the application writes; of one day a manual     *)
(* backup has the later date.                                              *)
OnDisk(tier) == {n \in DatedBackups : bkFile[n] # "absent" /\ TierOf[n[2]] = tier}
LaterBackup(n, m) == n[2] > m[2] \/ (n[2] = m[2] /\ n[1] = "manual" /\ m[1] = "full")

(* SelectForDeletion: a dated file belongs to the tier of its date, and of *)
(* a tier the newest are kept; keep_weekly, keep_monthly and keep_yearly   *)
(* are 0 by default.  Incrementals are in no tier.                         *)
TierPrune(tier) ==
    {n \in OnDisk(tier) : Cardinality({m \in OnDisk(tier) : LaterBackup(m, n)}) >= KeepOf[tier]}
KeptBackups == UNION {OnDisk(TierOf[d]) \ TierPrune(TierOf[d]) : d \in 1..BackupDays}

(* What some files take up together, counted in units of size.             *)
TotalSize(files) == Cardinality(UNION {{n} \X (1..bkSize[n]) : n \in files})

AboveCap(n) == SizeCap > 0 /\ bkSize[n] > SizeCap

(* Mutant: what is deleted is not taken off the total.                     *)
SizeCapPruneUncounted == {n \in KeptBackups : SizeCap > 0 /\ TotalSize(KeptBackups) > SizeCap}

(* Of what is kept the oldest go first, whatever their tier, until the     *)
(* rest fits: a file goes when it and all later ones are above the cap,    *)
(* the last one too.                                                       *)
SizeCapPrune ==
    LET kept == KeptBackups
    IN {n \in kept : SizeCap > 0 /\ TotalSize({m \in kept : ~LaterBackup(n, m)}) > SizeCap}
SelectForDeletion == (UNION {TierPrune(TierOf[d]) : d \in 1..BackupDays}) \cup SizeCapPrune

(* The sweep of RunDaily's first step, and of the last step of every run.  *)
ApplyRetentionSweep(t, from, to) ==
    /\ bkPc[t] = from
    /\ LET deleted == SelectForDeletion
       IN /\ bkFile' = [n \in BackupNames |-> IF n \in deleted THEN "absent" ELSE bkFile[n]]
          /\ bkSize' = [n \in BackupNames |-> IF n \in deleted THEN 0 ELSE bkSize[n]]
    /\ spoiled' = (spoiled \/ \E n \in DatedBackups : bkFile[n] \in {"partial", "torn"})
    /\ oversized' = (oversized \/ \E n \in KeptBackups : AboveCap(n) /\ \A m \in KeptBackups : ~LaterBackup(m, n))
    /\ BkTo(t, to)
    /\ UNCHANGED <<bkDay, bkName, bkOver, bkFailed, bkFaults, backedUp>> /\ RestoreIdle

(* The task or the command starts; a daily run sweeps first.               *)
StartRun(t) ==
    /\ bkPc[t] = "idle"
    /\ BkTo(t, IF t = "daily" THEN "sweepfirst" ELSE "create")
    /\ bkName' = [bkName EXCEPT ![t] = CASE t = "daily" -> FullBackup(bkDay)
                                         [] t = "hourly" -> <<"hourly", 0>>
                                         [] OTHER -> <<"manual", bkDay>>]
    /\ bkFailed' = (bkFailed /\ t # "daily")
    /\ UNCHANGED <<bkFile, bkSize, bkDay, bkOver, bkFaults, backedUp, spoiled, oversized>> /\ RestoreIdle

(* checkDiskSpace ends the run when the volume is too full.                *)
CheckDiskSpace(t) ==
    /\ bkPc[t] = "disk"
    /\ \E ok \in BOOLEAN : BkTo(t, IF ok THEN "create" ELSE "idle")
    /\ UNCHANGED <<bkFile, bkSize, bkDay, bkName, bkOver, bkFailed, bkFaults, backedUp, spoiled, oversized>> /\ RestoreIdle

(* create collects and seals the archive, and WriteFile truncates whatever *)
(* had the name (bound: what is partly written has no size yet).           *)
CreateArchive(t) ==
    /\ bkPc[t] = "create"
    /\ bkFile' = [bkFile EXCEPT ![bkName[t]] = "partial"]
    /\ bkSize' = [bkSize EXCEPT ![bkName[t]] = 0]
    /\ spoiled' = (spoiled \/ bkFile[bkName[t]] = "valid")
    /\ BkTo(t, "write")
    /\ bkOver' = [bkOver EXCEPT ![t] = bkFile[bkName[t]] = "valid"]
    /\ UNCHANGED <<bkDay, bkName, bkFailed, bkFaults, backedUp, oversized>> /\ RestoreIdle

(* The write completes, with a copy of the databases that is whole or not; *)
(* or fails, and the run reports it.                                       *)
WriteArchive(t) ==
    /\ bkPc[t] = "write"
    /\ \E state \in {"torn", "valid"} : bkFile' = [bkFile EXCEPT ![bkName[t]] = state]
    /\ \E size \in SizesOf(bkName[t]) : bkSize' = [bkSize EXCEPT ![bkName[t]] = size]
    /\ BkTo(t, "verify")
    /\ UNCHANGED <<bkDay, bkName, bkOver, bkFailed, bkFaults, backedUp, spoiled, oversized>> /\ RestoreIdle
WriteFails(t) ==
    /\ bkPc[t] = "write"
    /\ BkFault
    /\ bkFailed' = (bkFailed \/ t = "daily")
    /\ bkOver' = [bkOver EXCEPT ![t] = FALSE]
    /\ BkTo(t, IF t = "daily" THEN "next" ELSE "idle")
    /\ UNCHANGED <<bkFile, bkSize, bkDay, bkName, backedUp, spoiled, oversized>> /\ RestoreIdle

AfterVerify(t) == IF t = "daily" THEN "next" ELSE "sweeplast"

(* createAndVerify removes a file that fails, and records one that passes. *)
VerifyCreated(t) ==
    /\ bkPc[t] = "verify"
    /\ bkFile' = [bkFile EXCEPT ![bkName[t]] = IF VerifyPasses(bkName[t]) THEN @ ELSE "absent"]
    /\ bkSize' = [bkSize EXCEPT ![bkName[t]] = IF VerifyPasses(bkName[t]) THEN @ ELSE 0]
    /\ backedUp' = IF VerifyPasses(bkName[t]) /\ bkName[t] \in DatedBackups
                   THEN backedUp \cup {TierOf[bkName[t][2]]} ELSE backedUp
    /\ bkFailed' = (bkFailed \/ (t = "daily" /\ ~VerifyPasses(bkName[t])))
    /\ BkTo(t, IF ~VerifyPasses(bkName[t]) /\ t # "daily" THEN "idle" ELSE AfterVerify(t))
    /\ bkOver' = [bkOver EXCEPT ![t] = FALSE]
    /\ UNCHANGED <<bkDay, bkName, bkFaults, spoiled, oversized>> /\ RestoreIdle

(* RunDaily goes on to the incremental whatever became of the full backup, *)
(* and sweeps only when both passed.                                       *)
NextOfDaily(t) ==
    /\ bkPc[t] = "next"
    /\ IF bkName[t] \in DatedBackups
       THEN bkName' = [bkName EXCEPT ![t] = <<"daily", 0>>] /\ BkTo(t, "create")
       ELSE BkTo(t, IF bkFailed THEN "idle" ELSE "sweeplast") /\ UNCHANGED bkName
    /\ UNCHANGED <<bkFile, bkSize, bkDay, bkOver, bkFailed, bkFaults, backedUp, spoiled, oversized>> /\ RestoreIdle

-----------------------------------------------------------------------------
(* AuthorizeRestore: an installation with no data yet, root, or the        *)
(* service account with an administrator's credentials.                    *)
AuthorizeRestore(empty, root, service, admin) == empty \/ root \/ (service /\ admin)

(* Restore, once authorized, verifies the archive, ... (bound: one restore *)
(* of an installation)                                                     *)
VerifyArchive(n) ==
    /\ installed = "own" /\ verifiedArchive = "none" /\ restoring = "nothing"
    /\ BkFault
    /\ \E empty, root, service, admin \in BOOLEAN : AuthorizeRestore(empty, root, service, admin)
    /\ VerifyPasses(n)
    /\ verifiedArchive' = n
    /\ UNCHANGED <<bkFile, bkSize, bkDay, bkPc, bkName, bkOver, bkFailed, installed, restoring, backedUp, spoiled, oversized>>

(* ... reads it a second time and extracts what it finds there by now, ... *)
ExtractArchive ==
    /\ verifiedArchive # "none" /\ restoring = "nothing"
    /\ verifiedArchive' = "none"
    /\ restoring' = IF bkFile[verifiedArchive] \in {"torn", "valid"} THEN bkFile[verifiedArchive] ELSE "nothing"
    /\ UNCHANGED <<bkFile, bkSize, bkDay, bkPc, bkName, bkOver, bkFailed, installed, bkFaults, backedUp, spoiled, oversized>>

(* ... then writes the entries to their places one after the other; until  *)
(* the last, the installation is of two origins.                           *)
RestoreEntries ==
    /\ restoring # "nothing"
    /\ \/ installed' = "mixed" /\ UNCHANGED restoring
       \/ installed = "mixed" /\ installed' = restoring /\ restoring' = "nothing"
    /\ UNCHANGED <<verifiedArchive, bkFile, bkSize, bkDay, bkPc, bkName, bkOver, bkFailed, bkFaults, backedUp, spoiled, oversized>>

(* The process is killed; a file it was writing stays as it is.            *)
KillBackup(t) ==
    /\ bkPc[t] # "idle"
    /\ BkFault
    /\ BkTo(t, "idle")
    /\ bkOver' = [bkOver EXCEPT ![t] = FALSE]
    /\ UNCHANGED <<bkFile, bkSize, bkDay, bkName, bkFailed, backedUp, spoiled, oversized>> /\ RestoreIdle

NextDay ==
    /\ bkDay < BackupDays
    /\ \A t \in BackupRuns : bkPc[t] = "idle"
    /\ bkDay' = bkDay + 1
    /\ UNCHANGED <<bkFile, bkSize, bkPc, bkName, bkOver, bkFailed, bkFaults, backedUp, spoiled, oversized>> /\ RestoreIdle

BackupNext ==
    \/ \E t \in BackupRuns :
           \/ StartRun(t) \/ ApplyRetentionSweep(t, "sweepfirst", "disk") \/ CheckDiskSpace(t)
           \/ CreateArchive(t) \/ WriteArchive(t) \/ WriteFails(t) \/ VerifyCreated(t) \/ NextOfDaily(t)
           \/ ApplyRetentionSweep(t, "sweeplast", "idle") \/ KillBackup(t)
    \/ (\E n \in BackupNames : VerifyArchive(n)) \/ ExtractArchive \/ RestoreEntries \/ NextDay

-----------------------------------------------------------------------------
ValidFull == {n \in DatedBackups : bkFile[n] = "valid"}

(* Once a backup was verified that the policy keeps, there is one to       *)
(* restore from: neither failed verifications nor the sweeps of runs take  *)
(* the last of them, whatever the counts of the tiers and the cap, as long *)
(* as no run writes over a valid file, no sweep counts a file that is      *)
(* being written or was left behind by a run cut short, and the latest     *)
(* kept file is not above the cap on its own.                              *)
ABackupSurvives ==
    (\E tier \in backedUp : KeepOf[tier] > 0) /\ ~spoiled /\ ~oversized => ValidFull # {}

(* "Keep existing valid backups", "Do NOT delete any existing backups",    *)
(* "Default: 2 files total (yesterday's full + today's incremental)", says *)
(* AI.md of a run that fails and of the defaults.  That a verified backup  *)
(* is always followed by one to restore from does not hold: the sweep of   *)
(* its own run deletes a file of a tier that keeps none, which with the    *)
(* default retention every Sunday's and every first of a month's is; the   *)
(* cap takes the only file when it is above the cap (10% of the volume by  *)
(* default); and a broken file a failed write left behind takes the place  *)
(* of the valid one in the next sweep.                                     *)
VerifiedStaysRestorable == backedUp # {} => ValidFull # {}

(* Creating and verifying a backup never leaves a broken file behind and   *)
(* never deletes a valid one as a side effect, as the comment on           *)
(* createAndVerify says (src/backup/service.go).                           *)
NoSideEffects ==
    [][\A t \in BackupRuns :
           (bkPc[t] = "verify" /\ bkOver[t] /\ bkPc'[t] # "verify") => bkFile'[bkName[t]] # "absent"]_backupVars
=============================================================================
