------------------------------ MODULE LogFile ------------------------------
(***************************************************************************)
(* One log file with its built-in rotation and retention                   *)
(* (src/logging/writer.go, rotate.go).  Every operation holds the file's   *)
(* mutex, so the concurrency is with the rest of the world: the process    *)
(* may be killed between any two system calls of a rotation, a call may    *)
(* fail, and an external rotator may move the live file aside and send     *)
(* SIGUSR1.  A record is its number; a file is the set of its records, and *)
(* an empty file is not told from a missing one.                           *)
(***************************************************************************)
EXTENDS Integers, FiniteSets

CONSTANTS
    MaxSize,     \* records a file may hold: the size component of rotate
    KeepRotated,        \* keep: the number of rotated files retained
    MaxRecords,  \* bound: records written
    MaxLogTime,  \* bound: the clock stops here; a tick is a second
    LogFaults    \* bound: kills and failed system calls

ASSUME LogFileAssumption ==
    MaxSize \in Nat \ {0} /\ {KeepRotated, MaxRecords, MaxLogTime, LogFaults} \subseteq Nat

VARIABLES
    logPc,     \* the next system call of the call that holds the mutex
    handle,    \* what the handle refers to: the live path, a moved file, nothing
    fsize,     \* the size the writer believes the file has
    liveRecs,      \* records in the file at the live path
    archived,  \* rotated files: stamp, compressed or not, records
    moved,     \* records in files an external rotator has taken over
    rotPath,   \* the name the rotation in progress has chosen
    logNow,    \* the clock
    recordCount,   \* records handed to Write so far
    acked,     \* records whose Write returned without an error
    pruned,    \* records of files the retention policy has removed
    faults     \* kills and failures so far

logFileVars == <<logPc, handle, fsize, liveRecs, archived, moved, rotPath, logNow, recordCount, acked, pruned, faults>>

RecordsOf(files) == UNION {f.recs : f \in files}
Stamps == {f.stamp : f \in archived}

LogFileInit ==
    /\ logPc = "idle"
    /\ handle = "live"
    /\ fsize = 0
    /\ liveRecs = {}
    /\ archived = {}
    /\ moved = {}
    /\ rotPath = 0
    /\ logNow = 0
    /\ recordCount = 0
    /\ acked = {}
    /\ pruned = {}
    /\ faults = 0

(* open appends to the file at the live path and takes its size.           *)
OpenAppend == handle' = "live" /\ fsize' = Cardinality(liveRecs)

Fault == faults < LogFaults /\ faults' = faults + 1

(* needsRotate: a calendar boundary was crossed since the file was opened, *)
(* or the record does not fit.                                             *)
NeedsRotate(crossed) == crossed \/ (fsize > 0 /\ fsize + 1 > MaxSize)

(* Mutant: a second rotation within one second takes the same name.        *)
RotatedPathNow == logNow

(* The rotated name is the first second from now on that is not in use.    *)
RotatedPath ==
    CHOOSE t \in logNow..(logNow + Cardinality(archived)) :
        t \notin Stamps /\ \A u \in logNow..(t - 1) : u \in Stamps

-----------------------------------------------------------------------------
(* Write takes the mutex and decides on a rotation before it appends.      *)
WriteRecord ==
    /\ logPc = "idle"
    /\ recordCount < MaxRecords
    /\ recordCount' = recordCount + 1
    /\ \E crossed \in BOOLEAN :
           IF NeedsRotate(crossed) THEN logPc' = "rename" /\ handle' = "none"
           ELSE logPc' = "append" /\ UNCHANGED handle
    /\ UNCHANGED <<fsize, liveRecs, archived, moved, rotPath, logNow, acked, pruned, faults>>

(* The append goes where the handle points; a nil handle refuses it.       *)
AppendRecord ==
    /\ logPc = "append"
    /\ liveRecs' = IF handle = "live" THEN liveRecs \cup {recordCount} ELSE liveRecs
    /\ moved' = IF handle = "moved" THEN moved \cup {recordCount} ELSE moved
    /\ acked' = IF handle = "none" THEN acked ELSE acked \cup {recordCount}
    /\ fsize' = IF handle = "none" THEN fsize ELSE fsize + 1
    /\ logPc' = "idle"
    /\ UNCHANGED <<handle, archived, rotPath, logNow, recordCount, pruned, faults>>

(* rotateLocked: rename, ...                                               *)
RenameLive ==
    /\ logPc = "rename"
    /\ archived' = {f \in archived : f.stamp # RotatedPath \/ f.gz}
                       \cup {[stamp |-> RotatedPath, gz |-> FALSE, recs |-> liveRecs]}
    /\ rotPath' = RotatedPath
    /\ liveRecs' = {}
    /\ logPc' = "open"
    /\ UNCHANGED <<handle, fsize, moved, logNow, recordCount, acked, pruned, faults>>

(* ... which may fail: the live file is opened again and Write reports the *)
(* error, its record unwritten.                                            *)
RenameFails ==
    /\ logPc = "rename"
    /\ Fault
    /\ OpenAppend
    /\ logPc' = "idle"
    /\ UNCHANGED <<liveRecs, archived, moved, rotPath, logNow, recordCount, acked, pruned>>

(* ... open a fresh live file, and go on as compress is set: ...           *)
OpenLive ==
    /\ logPc = "open"
    /\ \/ OpenAppend /\ logPc' \in {"compress", "prune"} /\ UNCHANGED faults
       \/ Fault /\ logPc' = "idle" /\ UNCHANGED <<handle, fsize>>
    /\ UNCHANGED <<liveRecs, archived, moved, rotPath, logNow, recordCount, acked, pruned>>

(* ... compress the rotated file into a copy that is empty at first ...    *)
Compress ==
    /\ logPc = "compress"
    /\ archived' = archived \cup {[stamp |-> rotPath, gz |-> TRUE, recs |-> {}]}
    /\ logPc' = "remove"
    /\ UNCHANGED <<handle, fsize, liveRecs, moved, rotPath, logNow, recordCount, acked, pruned, faults>>

(* ... and remove the original once the copy is closed; a copy that fails  *)
(* ends the rotation there.                                                *)
RemoveOriginal ==
    /\ logPc = "remove"
    /\ \E whole \in {f \in archived : f.stamp = rotPath /\ ~f.gz} :
           \/ /\ archived' = {f \in archived : f.stamp # rotPath}
                                 \cup {[stamp |-> rotPath, gz |-> TRUE, recs |-> whole.recs]}
              /\ logPc' = "prune"
              /\ UNCHANGED faults
           \/ Fault /\ logPc' = "idle" /\ UNCHANGED archived
    /\ UNCHANGED <<handle, fsize, liveRecs, moved, rotPath, logNow, recordCount, acked, pruned>>

(* pruneList keeps the newest names; of one stamp the compressed copy      *)
(* sorts before the original.                                              *)
Newer(f, g) == f.stamp > g.stamp \/ (f.stamp = g.stamp /\ f.gz /\ ~g.gz)
PruneList == {g \in archived : Cardinality({f \in archived : Newer(f, g)}) >= KeepRotated}
PruneRotated ==
    /\ logPc = "prune"
    /\ archived' = archived \ PruneList
    /\ pruned' = pruned \cup RecordsOf(PruneList)
    /\ logPc' = "append"
    /\ UNCHANGED <<handle, fsize, liveRecs, moved, rotPath, logNow, recordCount, acked, faults>>

-----------------------------------------------------------------------------
(* An external rotator moves the file; SIGUSR1 has it opened again.        *)
MoveAside ==
    /\ moved = {}
    /\ liveRecs # {}
    /\ moved' = liveRecs
    /\ liveRecs' = {}
    /\ handle' = IF handle = "live" THEN "moved" ELSE handle
    /\ UNCHANGED <<logPc, fsize, archived, rotPath, logNow, recordCount, acked, pruned, faults>>
ReopenFile ==
    /\ logPc = "idle"
    /\ \/ OpenAppend /\ UNCHANGED faults
       \/ Fault /\ handle' = "none" /\ UNCHANGED fsize
    /\ UNCHANGED <<logPc, liveRecs, archived, moved, rotPath, logNow, recordCount, acked, pruned>>

(* The process dies in the middle of a call and opens the file again.      *)
KillAndRestart ==
    /\ Fault
    /\ logPc # "idle"
    /\ logPc' = "idle"
    /\ OpenAppend
    /\ UNCHANGED <<liveRecs, archived, moved, rotPath, logNow, recordCount, acked, pruned>>

LogTick ==
    /\ logNow < MaxLogTime
    /\ logNow' = logNow + 1
    /\ UNCHANGED <<logPc, handle, fsize, liveRecs, archived, moved, rotPath, recordCount, acked, pruned, faults>>

LogFileNext ==
    \/ WriteRecord \/ AppendRecord \/ RenameLive \/ RenameFails \/ OpenLive \/ Compress \/ RemoveOriginal
    \/ PruneRotated \/ MoveAside \/ ReopenFile \/ KillAndRestart \/ LogTick

-----------------------------------------------------------------------------
(* A record whose write succeeded is in a file, or in one that retention   *)
(* removed: no rotation, failure of one, kill in the middle of one or      *)
(* external rotation loses it.                                             *)
AckedIsKept == acked \subseteq liveRecs \cup moved \cup RecordsOf(archived) \cup pruned

(* Rotated names sort chronologically, as the comment on rotatedPath says  *)
(* (src/logging/writer.go): of two rotated files the one with the later    *)
(* stamp holds the later records.                                          *)
NamesSortChronologically ==
    \A f, g \in archived : f.stamp < g.stamp => \A a \in f.recs, b \in g.recs : a < b
=============================================================================
