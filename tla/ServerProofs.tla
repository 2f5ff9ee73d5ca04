---------------------------- MODULE ServerProofs ----------------------------
(***************************************************************************)
(* Proofs about what a server keeps about itself: the binary it updates,   *)
(* the log it rotates and the lines it writes there, the backups it        *)
(* sweeps, the GeoIP databases it reloads, the names it answers to and the *)
(* settings it runs with, for any releases, records, days, databases,      *)
(* hosts and retention settings, and any number of faults.                 *)
(***************************************************************************)
EXTENDS Update, LogFile, LogLines, Backup, GeoIP, UrlVars, Config, FiniteSetTheorems,
        WellFoundedInduction, TLAPS

-----------------------------------------------------------------------------
(* Self update.                                                            *)
(*                                                                         *)
(* BinaryVerified speaks of the binary only, but what a rename puts there  *)
(* was downloaded steps ago while the other updater went its own way, so   *)
(* the invariant follows each download: past the download its release has  *)
(* both assets, and past the checksum its temporary file is whole.  Which  *)
(* release is chosen does not matter.                                      *)

UpdateSpec == UpdateInit /\ [][UpdateNext]_updateVars

UpdaterShape ==
    /\ DOMAIN updater = Updaters
    /\ updater = [u \in Updaters |-> updater[u]]
    /\ \A u \in Updaters :
           updater[u] = [at |-> updater[u].at, self |-> updater[u].self,
                         target |-> updater[u].target, temp |-> updater[u].temp]

DownloadsChecked ==
    \A u \in Updaters :
        /\ updater[u].at \in {"verify", "replace"} => "sha256" \in RelAssets[updater[u].target]
        /\ updater[u].at = "replace" => updater[u].temp = "whole"

UpdateInv == UpdaterShape /\ DownloadsChecked /\ BinaryVerified

LEMMA UpdateInvInit == UpdateInit => UpdateInv
BY DEF UpdateInit, UpdateInv, UpdaterShape, DownloadsChecked, BinaryVerified, UpdaterIdle

(* An updater that is put into a state keeps the invariant when that state *)
(* does; the other one is left alone.                                      *)
LEMMA UpdaterPut ==
    ASSUME UpdateInv, NEW u \in Updaters, NEW a, NEW s, NEW t, NEW m,
           updater' = [updater EXCEPT ![u] = [at |-> a, self |-> s, target |-> t, temp |-> m]],
           a \in {"verify", "replace"} => "sha256" \in RelAssets[t],
           a = "replace" => m = "whole"
    PROVE  UpdaterShape' /\ DownloadsChecked'
<1>1. DOMAIN updater' = Updaters /\ updater' = [w \in Updaters |-> updater'[w]]
  BY DEF UpdateInv, UpdaterShape
<1>2. updater'[u] = [at |-> a, self |-> s, target |-> t, temp |-> m]
  BY DEF UpdateInv, UpdaterShape
<1>3. ASSUME NEW w \in Updaters, w # u PROVE updater'[w] = updater[w]
  BY <1>3 DEF UpdateInv, UpdaterShape
<1>4. UpdaterShape'
  BY <1>1, <1>2, <1>3 DEF UpdateInv, UpdaterShape
<1>5. DownloadsChecked'
  BY <1>2, <1>3 DEF UpdateInv, DownloadsChecked
<1> QED
  BY <1>4, <1>5

LEMMA UpdaterIdles ==
    ASSUME UpdateInv, NEW u \in Updaters, UpdaterStops(u)
    PROVE  UpdaterShape' /\ DownloadsChecked'
<1>1. updater' = [updater EXCEPT ![u] = [at |-> "idle", self |-> NoRelease,
                                         target |-> NoRelease, temp |-> "none"]]
  BY DEF UpdaterStops, UpdaterIdle
<1>2. "idle" \notin {"verify", "replace"} /\ "idle" # "replace"
  OBVIOUS
<1> QED
  BY <1>1, <1>2, UpdaterPut, Zenon

(* Changing the step alone, or the step and the temporary file, is putting *)
(* a state.                                                                *)
LEMMA UpdaterStep ==
    ASSUME UpdateInv, NEW u \in Updaters, NEW a, NEW m
    PROVE  /\ [updater EXCEPT ![u].at = a]
                = [updater EXCEPT ![u] = [at |-> a, self |-> updater[u].self,
                                          target |-> updater[u].target, temp |-> updater[u].temp]]
           /\ [updater EXCEPT ![u].at = a, ![u].temp = m]
                = [updater EXCEPT ![u] = [at |-> a, self |-> updater[u].self,
                                          target |-> updater[u].target, temp |-> m]]
<1>1. updater[u] = [at |-> updater[u].at, self |-> updater[u].self,
                    target |-> updater[u].target, temp |-> updater[u].temp]
  BY DEF UpdateInv, UpdaterShape
<1>2. u \in DOMAIN updater
  BY DEF UpdateInv, UpdaterShape
<1>3. [updater[u] EXCEPT !.at = a] = [at |-> a, self |-> updater[u].self,
                                      target |-> updater[u].target, temp |-> updater[u].temp]
  BY <1>1
<1>4. [updater EXCEPT ![u].at = a, ![u].temp = m]
        = [updater EXCEPT ![u] = [[updater[u] EXCEPT !.at = a] EXCEPT !.temp = m]]
  BY <1>2
<1>5. [[updater[u] EXCEPT !.at = a] EXCEPT !.temp = m]
        = [at |-> a, self |-> updater[u].self, target |-> updater[u].target, temp |-> m]
  <2>1. PICK r : r = [updater[u] EXCEPT !.at = a]
    OBVIOUS
  <2>2. r = [at |-> a, self |-> updater[u].self, target |-> updater[u].target,
             temp |-> updater[u].temp]
    BY <1>3, <2>1
  <2>3. [r EXCEPT !.temp = m]
          = [at |-> a, self |-> updater[u].self, target |-> updater[u].target, temp |-> m]
    BY <2>2
  <2> QED
    BY <2>1, <2>3
<1> QED
  BY <1>3, <1>4, <1>5

LEMMA DownloadKeeps ==
    ASSUME UpdateInv, NEW u \in Updaters, Download(u)
    PROVE  UpdateInv'
<1>1. BinaryVerified'
  BY DEF Download, UpdateInv, BinaryVerified
<1>2. CASE RelAssets[updater[u].target] # {"binary", "sha256"}
  BY <1>1, <1>2, UpdaterIdles DEF Download, UpdateInv
<1>3. CASE RelAssets[updater[u].target] = {"binary", "sha256"}
  <2>1. PICK m : updater' = [updater EXCEPT ![u].at = "verify", ![u].temp = m]
    BY <1>3 DEF Download
  <2>2. updater' = [updater EXCEPT ![u] = [at |-> "verify", self |-> updater[u].self,
                                           target |-> updater[u].target, temp |-> m]]
    BY <2>1, UpdaterStep
  <2> QED
    BY <1>1, <1>3, <2>2, UpdaterPut DEF UpdateInv
<1> QED
  BY <1>2, <1>3

LEMMA VerifyKeeps ==
    ASSUME UpdateInv, NEW u \in Updaters, Verify(u)
    PROVE  UpdateInv'
<1>1. BinaryVerified'
  BY DEF Verify, UpdateInv, BinaryVerified
<1>2. CASE ~verifyChecksum(updater[u].temp)
  BY <1>1, <1>2, UpdaterIdles DEF Verify, UpdateInv
<1>3. CASE verifyChecksum(updater[u].temp)
  <2>1. updater' = [updater EXCEPT ![u].at = "replace"]
    BY <1>3 DEF Verify, UpdaterMove
  <2>2. updater' = [updater EXCEPT ![u] = [at |-> "replace", self |-> updater[u].self,
                                           target |-> updater[u].target, temp |-> updater[u].temp]]
    BY <2>1, UpdaterStep
  <2>3. updater[u].temp = "whole" /\ "sha256" \in RelAssets[updater[u].target]
    BY <1>3 DEF Verify, verifyChecksum, UpdateInv, DownloadsChecked
  <2> QED
    BY <1>1, <2>2, <2>3, UpdaterPut DEF UpdateInv
<1> QED
  BY <1>2, <1>3

(* The rename: what it installs was verified.                              *)
LEMMA ReplaceBinaryKeeps ==
    ASSUME UpdateInv, NEW u \in Updaters, ReplaceBinary(u)
    PROVE  UpdateInv'
<1>1. BinaryVerified'
  BY DEF ReplaceBinary, UpdateInv, DownloadsChecked, BinaryVerified
<1>2. updater' = [updater EXCEPT ![u] = [at |-> "restart", self |-> updater[u].self,
                                         target |-> updater[u].target, temp |-> updater[u].temp]]
  BY UpdaterStep DEF ReplaceBinary, UpdaterMove
<1>3. "restart" \notin {"verify", "replace"} /\ "restart" # "replace"
  OBVIOUS
<1>4. UpdaterShape' /\ DownloadsChecked'
  BY <1>2, <1>3, UpdaterPut, Zenon
<1> QED
  BY <1>1, <1>4 DEF UpdateInv

LEMMA RestartServiceKeeps ==
    ASSUME UpdateInv, NEW u \in Updaters, RestartService(u)
    PROVE  UpdateInv'
<1>1. BinaryVerified'
  BY DEF RestartService, UpdateInv, BinaryVerified
<1>2. CASE UpdaterStops(u)
  BY <1>1, <1>2, UpdaterIdles DEF UpdateInv
<1>3. CASE updater' = [updater EXCEPT !["task"] = UpdaterIdle, ![u] = UpdaterIdle]
  <2>1. DOMAIN updater' = Updaters /\ updater' = [w \in Updaters |-> updater'[w]]
    BY <1>3 DEF UpdateInv, UpdaterShape
  <2>2. ASSUME NEW w \in Updaters PROVE updater'[w] \in {updater[w], UpdaterIdle}
    BY <1>3 DEF UpdateInv, UpdaterShape
  <2>3. UpdaterShape'
    BY <2>1, <2>2 DEF UpdateInv, UpdaterShape, UpdaterIdle
  <2>4. DownloadsChecked'
    BY <2>2 DEF UpdateInv, DownloadsChecked, UpdaterIdle
  <2> QED
    BY <1>1, <2>3, <2>4 DEF UpdateInv
<1> QED
  BY <1>2, <1>3 DEF RestartService

LEMMA UpdateInvStep == UpdateInv /\ [UpdateNext]_updateVars => UpdateInv'
<1> SUFFICES ASSUME UpdateInv, [UpdateNext]_updateVars PROVE UpdateInv'
  OBVIOUS
<1> "task" \in Updaters /\ "cli" \in Updaters
  BY DEF Updaters
<1>1. CASE CheckForUpdate \/ UpdateYes
  <2>a. PICK u \in Updaters : \E s, t : Begin(u, s, t)
    BY <1>1 DEF CheckForUpdate, UpdateYes
  <2>1. PICK s, t : Begin(u, s, t)
    BY <2>a
  <2>2. BinaryVerified'
    BY <1>1 DEF CheckForUpdate, UpdateYes, UpdateInv, BinaryVerified
  <2>3. "download" \notin {"verify", "replace"} /\ "download" # "replace"
    OBVIOUS
  <2>4. updater' = [updater EXCEPT ![u] = [at |-> "download", self |-> s, target |-> t, temp |-> "none"]]
    BY <2>1 DEF Begin
  <2>5. UpdaterShape' /\ DownloadsChecked'
    BY <2>3, <2>4, UpdaterPut, Zenon
  <2> QED
    BY <2>2, <2>5 DEF UpdateInv
<1>2. ASSUME NEW u \in Updaters, UpdateFails(u) PROVE UpdateInv'
  BY <1>2, UpdaterIdles DEF UpdateFails, UpdateInv, BinaryVerified
<1>3. CASE UNCHANGED <<updater, binary>>
  BY <1>3 DEF UpdateInv, UpdaterShape, DownloadsChecked, BinaryVerified
<1>4. (UpdTick \/ (\E b \in {"stable", "beta", "daily"} : SetBranch(b)) \/ UNCHANGED updateVars)
        => UNCHANGED <<updater, binary>>
  BY DEF UpdTick, SetBranch, updateVars
<1> QED
  BY <1>1, <1>2, <1>3, <1>4, DownloadKeeps, VerifyKeeps, ReplaceBinaryKeeps, RestartServiceKeeps
     DEF UpdateNext

(* The file at the binary's path is at all times the whole content of a    *)
(* release that ships its checksums, whatever transfers fail, whichever    *)
(* releases are chosen and however the update_check task and an operator's *)
(* --update overlap: DoUpdate verifies before it renames, and what it      *)
(* renames is what it verified.                                            *)
THEOREM BinaryIsVerified == UpdateSpec => []BinaryVerified
<1>1. UpdateInv => BinaryVerified
  BY DEF UpdateInv
<1> QED
  BY <1>1, UpdateInvInit, UpdateInvStep, PTL DEF UpdateSpec

-----------------------------------------------------------------------------
(* Log files.                                                              *)
(*                                                                         *)
(* A record can only be lost where archived files are dropped: by a rename *)
(* onto a name in use, by the removal of an original whose copy is not     *)
(* whole, or by the removal of another file with it.  The first is ruled   *)
(* out by the search of rotatedPath, the others by what the rotation in    *)
(* progress knows about the name it has taken: it is alone there until it  *)
(* compresses, and then shares the name with copies that hold nothing.     *)

LogFileSpec == LogFileInit /\ [][LogFileNext]_logFileVars

RotatedFile == [stamp : Nat, gz : BOOLEAN, recs : SUBSET Nat]

LogShape ==
    /\ logPc \in {"idle", "append", "rename", "open", "compress", "remove", "prune"}
    /\ handle \in {"live", "moved", "none"}
    /\ liveRecs \in SUBSET Nat
    /\ archived \in SUBSET RotatedFile /\ IsFiniteSet(archived)
    /\ logNow \in Nat /\ recordCount \in Nat /\ rotPath \in Nat

NameIsOurs ==
    /\ logPc \in {"open", "compress"} =>
           \A f, g \in archived : f.stamp = rotPath /\ g.stamp = rotPath => f = g /\ ~f.gz
    /\ logPc = "remove" =>
           \A f, g \in archived : f.stamp = rotPath /\ g.stamp = rotPath =>
               /\ f.gz => f.recs = {}
               /\ ~f.gz /\ ~g.gz => f = g

LogFileInv == LogShape /\ NameIsOurs /\ AckedIsKept

LEMMA LeastExists ==
    ASSUME NEW S \in SUBSET Nat, S # {}
    PROVE  \E x \in S : \A y \in S : x <= y
<1> DEFINE R == {ss \in Nat \X Nat : ss[1] < ss[2]}
<1>1. \E x \in S : \A y \in S : ~(<<y, x>> \in R)
  <2>1. IsWellFoundedOn(R, Nat)
    BY NatLessThanWellFounded DEF OpToRel
  <2> HIDE DEF R
  <2> QED
    BY <2>1, WFMin
<1>2. ASSUME NEW x \in S, NEW y \in S, ~(<<y, x>> \in R) PROVE x <= y
  BY <1>2
<1> QED
  BY <1>1, <1>2

(* rotatedPath ends its search: of one more seconds than there are rotated *)
(* files one is not in use, and the first of these is taken.               *)
LEMMA RotatedPathIsFree ==
    ASSUME LogShape
    PROVE  RotatedPath \in Nat /\ RotatedPath \notin Stamps
<1> DEFINE n == Cardinality(archived)
           window == logNow..(logNow + n)
           free == {t \in window : t \notin Stamps}
<1>1. n \in Nat
  BY FS_CardinalityType DEF LogShape
<1>2. IsFiniteSet(Stamps) /\ Cardinality(Stamps) <= n
  <2>1. IsFiniteSet(archived)
    BY DEF LogShape
  <2>2. PICK stampOf : stampOf = [f \in archived |-> f.stamp]
    OBVIOUS
  <2>3. stampOf \in Surjection(archived, Stamps)
    BY <2>2 DEF Surjection, Stamps
  <2> QED
    BY <2>1, <2>3, FS_Surjection
<1>3. Cardinality(window) = n + 1
  BY <1>1, FS_Interval DEF LogShape
<1>4. free # {}
  <2> SUFFICES ASSUME window \subseteq Stamps PROVE FALSE
    OBVIOUS
  <2>1. Cardinality(window) <= Cardinality(Stamps)
    BY <1>2, FS_Subset
  <2>2. Cardinality(Stamps) \in Nat
    BY <1>2, FS_CardinalityType
  <2> QED
    BY <1>1, <1>2, <1>3, <2>1, <2>2
<1>5. free \in SUBSET Nat
  BY <1>1 DEF LogShape
<1>6. PICK t \in free : \A u \in free : t <= u
  BY <1>4, <1>5, LeastExists
<1>7. \A u \in logNow..(t - 1) : u \in Stamps
  BY <1>1, <1>5, <1>6 DEF LogShape
<1>8. t \in window /\ t \notin Stamps
  BY <1>6
<1>9. RotatedPath \in window /\ RotatedPath \notin Stamps
  BY <1>7, <1>8 DEF RotatedPath
<1> QED
  BY <1>1, <1>9 DEF LogShape

LEMMA LogFileInvInit == LogFileInit => LogFileInv
BY FS_EmptySet DEF LogFileInit, LogFileInv, LogShape, NameIsOurs, AckedIsKept, RecordsOf

LEMMA RenameLiveKeeps ==
    ASSUME LogFileInv, RenameLive
    PROVE  LogFileInv'
<1> DEFINE fresh == [stamp |-> RotatedPath, gz |-> FALSE, recs |-> liveRecs]
<1>1. RotatedPath \in Nat /\ RotatedPath \notin Stamps
  BY RotatedPathIsFree DEF LogFileInv
<1>2. ASSUME NEW f \in archived PROVE f.stamp # RotatedPath
  BY <1>1 DEF Stamps
<1>3. archived' = archived \cup {fresh}
  BY <1>2 DEF RenameLive
<1>4. fresh \in RotatedFile
  BY <1>1 DEF RotatedFile, LogFileInv, LogShape
<1>5. IsFiniteSet(archived')
  BY <1>3, FS_AddElement DEF LogFileInv, LogShape
<1>6. rotPath' = RotatedPath /\ logPc' = "open"
  BY DEF RenameLive
<1>7. LogShape'
  BY <1>1, <1>3, <1>4, <1>5, <1>6 DEF RenameLive, LogFileInv, LogShape
<1>8. NameIsOurs'
  <2>1. ASSUME NEW f \in archived', f.stamp = rotPath' PROVE f = fresh
    BY <1>2, <1>3, <1>6, <2>1
  <2>2. ~fresh.gz
    OBVIOUS
  <2> HIDE DEF fresh
  <2> QED
    BY <1>6, <2>1, <2>2 DEF NameIsOurs
<1>9. liveRecs \subseteq RecordsOf(archived') /\ RecordsOf(archived) \subseteq RecordsOf(archived')
  <2>1. fresh \in archived' /\ fresh.recs = liveRecs
    BY <1>3
  <2> HIDE DEF fresh
  <2> QED
    BY <1>3, <2>1 DEF RecordsOf
<1>10. AckedIsKept'
  BY <1>9 DEF RenameLive, LogFileInv, AckedIsKept
<1> QED
  BY <1>7, <1>8, <1>10 DEF LogFileInv

LEMMA CompressKeeps ==
    ASSUME LogFileInv, Compress
    PROVE  LogFileInv'
<1> DEFINE copy == [stamp |-> rotPath, gz |-> TRUE, recs |-> {}]
<1>1. archived' = archived \cup {copy} /\ logPc = "compress" /\ logPc' = "remove" /\ rotPath' = rotPath
  BY DEF Compress
<1>2. copy \in RotatedFile
  BY DEF RotatedFile, LogFileInv, LogShape
<1>3. IsFiniteSet(archived')
  BY <1>1, FS_AddElement DEF LogFileInv, LogShape
<1>4. LogShape'
  BY <1>1, <1>2, <1>3 DEF Compress, LogFileInv, LogShape
<1>5. NameIsOurs'
  BY <1>1 DEF LogFileInv, NameIsOurs
<1>6. RecordsOf(archived) \subseteq RecordsOf(archived')
  BY <1>1 DEF RecordsOf
<1>7. AckedIsKept'
  BY <1>6 DEF Compress, LogFileInv, AckedIsKept
<1> QED
  BY <1>4, <1>5, <1>7 DEF LogFileInv

LEMMA RemoveOriginalKeeps ==
    ASSUME LogFileInv, RemoveOriginal
    PROVE  LogFileInv'
<1>1. PICK whole \in archived :
        /\ whole.stamp = rotPath /\ ~whole.gz
        /\ \/ /\ archived' = {f \in archived : f.stamp # rotPath}
                                 \cup {[stamp |-> rotPath, gz |-> TRUE, recs |-> whole.recs]}
              /\ logPc' = "prune"
           \/ logPc' = "idle" /\ archived' = archived
  BY DEF RemoveOriginal, Fault
<1>2. CASE logPc' = "idle" /\ archived' = archived
  BY <1>2 DEF RemoveOriginal, LogFileInv, LogShape, NameIsOurs, AckedIsKept
<1>3. CASE /\ archived' = {f \in archived : f.stamp # rotPath}
                             \cup {[stamp |-> rotPath, gz |-> TRUE, recs |-> whole.recs]}
           /\ logPc' = "prune"
  <2> DEFINE copy == [stamp |-> rotPath, gz |-> TRUE, recs |-> whole.recs]
             rest == {f \in archived : f.stamp # rotPath}
  <2>1. copy \in RotatedFile
    BY DEF RotatedFile, LogFileInv, LogShape
  <2>2. IsFiniteSet(rest)
    BY FS_Subset DEF LogFileInv, LogShape
  <2>3. IsFiniteSet(archived')
    BY <1>3, <2>2, FS_AddElement
  <2>4. LogShape'
    BY <1>3, <2>1, <2>3 DEF RemoveOriginal, LogFileInv, LogShape
  <2>5. NameIsOurs'
    BY <1>3 DEF NameIsOurs
  <2>6. ASSUME NEW f \in archived, f.stamp = rotPath PROVE f.recs \subseteq whole.recs
    <3>1. f \in RotatedFile /\ logPc = "remove"
      BY DEF RemoveOriginal, LogFileInv, LogShape
    <3>2. f.gz \in BOOLEAN
      BY <3>1 DEF RotatedFile
    <3> QED
      BY <1>1, <2>6, <3>1, <3>2 DEF LogFileInv, NameIsOurs
  <2>7. copy \in archived' /\ copy.recs = whole.recs
    BY <1>3
  <2>8. ASSUME NEW f \in archived PROVE \E g \in archived' : f.recs \subseteq g.recs
    <3>1. CASE f.stamp = rotPath
      BY <2>6, <2>7, <3>1
    <3>2. CASE f.stamp # rotPath
      BY <1>3, <3>2
    <3> QED
      BY <3>1, <3>2
  <2>9. RecordsOf(archived) \subseteq RecordsOf(archived')
    BY <2>8 DEF RecordsOf
  <2>10. AckedIsKept'
    BY <2>9 DEF RemoveOriginal, LogFileInv, AckedIsKept
  <2> QED
    BY <2>4, <2>5, <2>10 DEF LogFileInv
<1> QED
  BY <1>1, <1>2, <1>3

LEMMA PruneRotatedKeeps ==
    ASSUME LogFileInv, PruneRotated
    PROVE  LogFileInv'
<1>1. archived' = archived \ PruneList /\ pruned' = pruned \cup RecordsOf(PruneList) /\ logPc' = "append"
  BY DEF PruneRotated
<1>2. IsFiniteSet(archived')
  BY <1>1, FS_Subset DEF LogFileInv, LogShape
<1>3. LogShape'
  BY <1>1, <1>2 DEF PruneRotated, LogFileInv, LogShape
<1>4. NameIsOurs'
  BY <1>1 DEF NameIsOurs
<1>5. RecordsOf(archived) \subseteq RecordsOf(archived') \cup RecordsOf(PruneList)
  BY <1>1 DEF RecordsOf
<1>6. AckedIsKept'
  BY <1>1, <1>5 DEF PruneRotated, LogFileInv, AckedIsKept
<1> QED
  BY <1>3, <1>4, <1>6 DEF LogFileInv

(* The steps that leave the rotated files alone do not start a rotation's  *)
(* critical part.                                                          *)
LEMMA ArchiveAloneKeeps ==
    ASSUME LogFileInv, UNCHANGED <<archived, rotPath, pruned>>,
           logPc' \in {logPc, "idle", "append", "rename", "prune"}
                \/ (logPc = "open" /\ logPc' = "compress"),
           handle' \in {"live", "moved", "none"},
           recordCount' \in Nat, logNow' \in Nat, liveRecs' \in SUBSET Nat,
           acked' \subseteq liveRecs' \cup moved' \cup RecordsOf(archived) \cup pruned
    PROVE  LogFileInv'
<1>1. LogShape'
  BY DEF LogFileInv, LogShape
<1>2. NameIsOurs'
  BY DEF LogFileInv, NameIsOurs
<1>3. AckedIsKept'
  BY DEF AckedIsKept
<1> QED
  BY <1>1, <1>2, <1>3 DEF LogFileInv

LEMMA LogFileInvStep == LogFileInv /\ [LogFileNext]_logFileVars => LogFileInv'
<1> SUFFICES ASSUME LogFileInv, [LogFileNext]_logFileVars PROVE LogFileInv'
  OBVIOUS
<1>1. CASE WriteRecord
  BY <1>1, ArchiveAloneKeeps DEF WriteRecord, LogFileInv, LogShape, AckedIsKept
<1>2. CASE AppendRecord
  <2>1. liveRecs' \in SUBSET Nat
    BY <1>2 DEF AppendRecord, LogFileInv, LogShape
  <2>2. acked' \subseteq liveRecs' \cup moved' \cup RecordsOf(archived) \cup pruned
    BY <1>2 DEF AppendRecord, LogFileInv, LogShape, AckedIsKept
  <2> QED
    BY <1>2, <2>1, <2>2, ArchiveAloneKeeps DEF AppendRecord, LogFileInv, LogShape
<1>3. CASE RenameFails \/ ReopenFile \/ KillAndRestart \/ OpenLive
  BY <1>3, ArchiveAloneKeeps
     DEF RenameFails, ReopenFile, KillAndRestart, OpenLive, OpenAppend, Fault, LogFileInv, LogShape, AckedIsKept
<1>4. CASE MoveAside
  <2>1. acked' \subseteq liveRecs' \cup moved' \cup RecordsOf(archived) \cup pruned
    BY <1>4 DEF MoveAside, LogFileInv, AckedIsKept
  <2> QED
    BY <1>4, <2>1, ArchiveAloneKeeps DEF MoveAside, LogFileInv, LogShape
<1>5. CASE LogTick
  BY <1>5, ArchiveAloneKeeps DEF LogTick, LogFileInv, LogShape, AckedIsKept
<1>6. CASE UNCHANGED logFileVars
  BY <1>6, ArchiveAloneKeeps DEF logFileVars, LogFileInv, LogShape, AckedIsKept
<1> QED
  BY <1>1, <1>2, <1>3, <1>4, <1>5, <1>6, RenameLiveKeeps, CompressKeeps, RemoveOriginalKeeps, PruneRotatedKeeps
     DEF LogFileNext

(* A record whose Write succeeded is in the live file, in a file an        *)
(* external rotator took, in a rotated file or in one that retention has   *)
(* removed, for any sizes, clocks, kills and failed system calls: neither  *)
(* rotatedPath's choice of a name nor the removal of an original after its *)
(* compression loses one.                                                  *)
THEOREM AckedStaysKept == LogFileSpec => []AckedIsKept
<1>1. LogFileInv => AckedIsKept
  BY DEF LogFileInv
<1> QED
  BY <1>1, LogFileInvInit, LogFileInvStep, PTL DEF LogFileSpec


-----------------------------------------------------------------------------
(* Log records.                                                            *)
(*                                                                         *)
(* sanitize walks a message from left to right and skips a whole escape    *)
(* sequence at once.  That the walk is defined for every message, and that *)
(* all it keeps is printable, is an induction from the message's end: the  *)
(* index past a sequence lies behind the one it starts at and no further   *)
(* than one past the end.                                                  *)
LogLinesSpec == LogLinesInit /\ [][LogLinesNext]_logLinesVars

LEMMA MinIsLeast ==
    ASSUME NEW S \in SUBSET Nat, S # {} PROVE Min(S) \in S
<1>1. \E x \in S : \A y \in S : x <= y
  BY LeastExists
<1> QED
  BY <1>1 DEF Min

LEMMA SkipEscapeAdvances ==
    ASSUME NEW s, Len(s) \in Nat, NEW i \in 1..Len(s)
    PROVE  SkipEscape(s, i) \in (i + 1)..(Len(s) + 1)
<1> DEFINE n == Len(s)
           Found(stop) == {j \in (i + 2)..n : s[j] \in stop}
           past(j) == IF s[j] = "bel" THEN j + 1
                      ELSE IF j < n /\ s[j + 1] = "bs" THEN j + 2 ELSE j
<1>1. ASSUME NEW stop, Found(stop) # {} PROVE Min(Found(stop)) \in (i + 2)..n
  <2>1. Found(stop) \in SUBSET Nat /\ Found(stop) \subseteq (i + 2)..n
    OBVIOUS
  <2> HIDE DEF Found
  <2> QED
    BY <1>1, <2>1, MinIsLeast
<1>2. CASE i = n
  BY <1>2 DEF SkipEscape
<1>3. CASE i < n /\ s[i + 1] = "["
  <2>1. SkipEscape(s, i) = IF Found(FinalByte) = {} THEN n + 1 ELSE Min(Found(FinalByte)) + 1
    BY <1>3 DEF SkipEscape
  <2> HIDE DEF Found
  <2> QED
    BY <1>1, <1>3, <2>1
<1>4. CASE i < n /\ s[i + 1] = "]"
  <2>1. SkipEscape(s, i) = IF Found({"bel", "esc"}) = {} THEN n + 1 ELSE past(Min(Found({"bel", "esc"})))
    BY <1>4 DEF SkipEscape
  <2>2. ASSUME NEW j \in (i + 2)..n PROVE past(j) \in (i + 1)..(n + 1)
    OBVIOUS
  <2> HIDE DEF Found, past
  <2> QED
    BY <1>1, <1>4, <2>1, <2>2
<1>5. CASE i < n /\ s[i + 1] \notin {"[", "]"}
  BY <1>5 DEF SkipEscape
<1> QED
  BY <1>2, <1>3, <1>4, <1>5

(* One step of the walk, given what the rest of the message comes to.      *)
Walk(s, f, i) ==
    IF i > Len(s) THEN <<>>
    ELSE IF s[i] = "esc" THEN f[SkipEscape(s, i)]
    ELSE IF s[i] \in Printable THEN <<s[i]>> \o f[i + 1] ELSE f[i + 1]

LEMMA WalkPrintable ==
    ASSUME NEW s, Len(s) \in Nat, NEW f, NEW i \in 1..(Len(s) + 1),
           \A j \in (i + 1)..(Len(s) + 1) : f[j] \in Seq(Printable)
    PROVE  Walk(s, f, i) \in Seq(Printable)
<1>1. CASE i > Len(s)
  BY <1>1 DEF Walk
<1>2. CASE i \in 1..Len(s)
  <2>1. f[i + 1] \in Seq(Printable)
    BY <1>2
  <2>2. f[SkipEscape(s, i)] \in Seq(Printable)
    BY <1>2, SkipEscapeAdvances
  <2>3. s[i] \in Printable => <<s[i]>> \o f[i + 1] \in Seq(Printable)
    BY <2>1
  <2> QED
    BY <1>2, <2>1, <2>2, <2>3 DEF Walk
<1> QED
  BY <1>1, <1>2

(* A step looks ahead only.                                                *)
LEMMA WalkLooksAhead ==
    ASSUME NEW s, Len(s) \in Nat, NEW f, NEW g, NEW i \in 1..(Len(s) + 1),
           \A j \in (i + 1)..(Len(s) + 1) : f[j] = g[j]
    PROVE  Walk(s, f, i) = Walk(s, g, i)
<1>1. CASE i > Len(s)
  BY <1>1 DEF Walk
<1>2. CASE i \in 1..Len(s)
  <2>1. f[i + 1] = g[i + 1]
    BY <1>2
  <2>2. f[SkipEscape(s, i)] = g[SkipEscape(s, i)]
    BY <1>2, SkipEscapeAdvances
  <2> QED
    BY <1>2, <2>1, <2>2 DEF Walk
<1> QED
  BY <1>1, <1>2

(* The walk of the last m characters.                                      *)
WalkedFrom(s, f, k) ==
    /\ DOMAIN f = k..(Len(s) + 1)
    /\ f = [i \in k..(Len(s) + 1) |-> f[i]]
    /\ \A i \in k..(Len(s) + 1) : f[i] = Walk(s, f, i)

LEMMA WalkExtends ==
    ASSUME NEW s, Len(s) \in Nat, NEW k \in 1..Len(s), NEW f, WalkedFrom(s, f, k + 1)
    PROVE  \E g : WalkedFrom(s, g, k)
<1> DEFINE n == Len(s)
           g == [i \in k..(n + 1) |-> IF i = k THEN Walk(s, f, k) ELSE f[i]]
<1>1. DOMAIN g = k..(n + 1) /\ g = [i \in k..(n + 1) |-> g[i]]
  OBVIOUS
<1>2. \A j \in (k + 1)..(n + 1) : g[j] = f[j]
  OBVIOUS
<1>3. g[k] = Walk(s, f, k)
  OBVIOUS
<1> HIDE DEF g
<1>4. ASSUME NEW i \in k..(n + 1) PROVE g[i] = Walk(s, g, i)
  <2>1. \A j \in (i + 1)..(n + 1) : f[j] = g[j]
    BY <1>2
  <2>2. i \in 1..(Len(s) + 1)
    OBVIOUS
  <2>3. Walk(s, f, i) = Walk(s, g, i)
    BY <2>1, <2>2, WalkLooksAhead
  <2>4. g[i] = Walk(s, f, i)
    BY <1>2, <1>3 DEF WalkedFrom
  <2> QED
    BY <2>3, <2>4
<1> QED
  BY <1>1, <1>4 DEF WalkedFrom

LEMMA WalkExists ==
    ASSUME NEW s, Len(s) \in Nat PROVE \E f : WalkedFrom(s, f, 1)
<1> DEFINE n == Len(s)
           stuck == {m \in 0..n : ~\E f : WalkedFrom(s, f, n + 1 - m)}
<1>1. 0 \notin stuck
  <2> DEFINE e == [i \in (n + 1)..(n + 1) |-> <<>>]
  <2>1. WalkedFrom(s, e, n + 1)
    <3>1. DOMAIN e = (n + 1)..(n + 1) /\ e = [i \in (n + 1)..(n + 1) |-> e[i]]
      OBVIOUS
    <3>2. ASSUME NEW i \in (n + 1)..(n + 1) PROVE e[i] = Walk(s, e, i)
      BY DEF Walk
    <3> QED
      BY <3>1, <3>2 DEF WalkedFrom
  <2>2. n + 1 - 0 = n + 1
    OBVIOUS
  <2> QED
    BY <2>1, <2>2
<1>2. ASSUME stuck # {} PROVE FALSE
  <2>1. stuck \in SUBSET Nat
    OBVIOUS
  <2>2. PICK m \in stuck : \A x \in stuck : m <= x
    <3> HIDE DEF stuck
    <3> QED
      BY <1>2, <2>1, LeastExists
  <2>3. m \in 1..n
    BY <1>1
  <2>4. (m - 1) \in 0..n /\ (m - 1) \notin stuck
    BY <2>2, <2>3
  <2>5. PICK f : WalkedFrom(s, f, n + 1 - (m - 1))
    BY <2>4
  <2>6. n + 1 - (m - 1) = (n + 1 - m) + 1 /\ (n + 1 - m) \in 1..Len(s)
    BY <2>3
  <2>7. \E g : WalkedFrom(s, g, n + 1 - m)
    BY <2>5, <2>6, WalkExtends
  <2> QED
    BY <2>7
<1>3. n \notin stuck /\ n \in 0..n
  BY <1>2
<1>4. PICK f : WalkedFrom(s, f, n + 1 - n)
  BY <1>3
<1>5. n + 1 - n = 1
  OBVIOUS
<1> QED
  BY <1>4, <1>5

LEMMA WalkedIsPrintable ==
    ASSUME NEW s, Len(s) \in Nat, NEW f, WalkedFrom(s, f, 1)
    PROVE  f[1] \in Seq(Printable)
<1> DEFINE n == Len(s)
           odd == {m \in 0..n : f[n + 1 - m] \notin Seq(Printable)}
<1>1. ASSUME odd # {} PROVE FALSE
  <2>1. odd \in SUBSET Nat
    OBVIOUS
  <2>2. PICK m \in odd : \A x \in odd : m <= x
    <3> HIDE DEF odd
    <3> QED
      BY <1>1, <2>1, LeastExists
  <2>3. n + 1 - m \in 1..(n + 1) /\ m \in 0..n
    OBVIOUS
  <2>4. ASSUME NEW j \in (n + 1 - m + 1)..(n + 1) PROVE f[j] \in Seq(Printable)
    <3>1. (n + 1 - j) \in 0..n /\ n + 1 - j < m /\ n + 1 - (n + 1 - j) = j
      BY <2>3
    <3>2. (n + 1 - j) \notin odd
      BY <2>2, <3>1
    <3> QED
      BY <3>1, <3>2
  <2>5. Walk(s, f, n + 1 - m) \in Seq(Printable)
    BY <2>3, <2>4, WalkPrintable
  <2> QED
    BY <2>3, <2>5 DEF WalkedFrom
<1>2. n \notin odd /\ n \in 0..n /\ n + 1 - n = 1
  BY <1>1
<1> QED
  BY <1>2

LEMMA SanitizePlain ==
    ASSUME NEW s, Len(s) \in Nat PROVE Sanitize(s) \in Seq(Printable)
<1> DEFINE rest == CHOOSE f : f = [i \in 1..(Len(s) + 1) |-> Walk(s, f, i)]
<1>1. Sanitize(s) = rest[1]
  BY DEF Sanitize, Walk
<1>2. PICK g : WalkedFrom(s, g, 1)
  BY WalkExists
<1>3. g = [i \in 1..(Len(s) + 1) |-> Walk(s, g, i)]
  BY <1>2 DEF WalkedFrom
<1>4. rest = [i \in 1..(Len(s) + 1) |-> Walk(s, rest, i)]
  BY <1>3
<1> HIDE DEF rest
<1>5. WalkedFrom(s, rest, 1)
  <2>1. DOMAIN rest = 1..(Len(s) + 1) /\ \A i \in 1..(Len(s) + 1) : rest[i] = Walk(s, rest, i)
    BY <1>4
  <2>2. rest = [i \in 1..(Len(s) + 1) |-> rest[i]]
    BY <1>4
  <2> QED
    BY <2>1, <2>2 DEF WalkedFrom
<1> QED
  BY <1>1, <1>5, WalkedIsPrintable

(* What a step may emit.                                                   *)
LogLinesInv == LinesPlainRedactedRouted /\ logCfg.level \in LogLevels

LEMMA EmittedLine ==
    ASSUME NEW cfg, cfg.level \in LogLevels, NEW rec, Len(rec.msg) \in Nat, EmitRecord(cfg, rec),
           rec.kind \in LogKinds
    PROVE  LogLinesInv'
<1>1. logCfg' = cfg /\ logRec' = rec /\ logOut' = Routes(cfg, rec) \X {RenderLine(rec)}
  BY DEF EmitRecord
<1>2. ASSUME NEW o \in logOut'
      PROVE  /\ \A i \in 1..Len(o[2].text) : o[2].text[i] \in Printable
             /\ \A f \in o[2].fields : (\E i \in 1..Len(f.path) : f.path[i] = "secret") => f.value = "xxxxx"
  <2>1. o[2] = RenderLine(rec)
    BY <1>1
  <2>2. o[2].text = Sanitize(rec.msg)
    BY <2>1 DEF RenderLine
  <2>3. \A i \in 1..Len(o[2].text) : o[2].text[i] \in Printable
    BY <2>2, SanitizePlain
  <2>4. \A f \in o[2].fields : \E p : f = RedactMap(p)
    BY <2>1 DEF RenderLine
  <2>5. \A f \in o[2].fields : (\E i \in 1..Len(f.path) : f.path[i] = "secret") => f.value = "xxxxx"
    BY <2>4 DEF RedactMap, RedactedAt
  <2> QED
    BY <2>3, <2>5
<1>3. "error" \in Routes(cfg, rec) => \E o \in logOut' : o[1] = "error"
  <2>1. "error" \in Routes(cfg, rec) => <<"error", RenderLine(rec)>> \in logOut'
    BY <1>1
  <2> QED
    BY <2>1
<1>4. ASSUME rec.kind = "log", rec.level >= WarnLevel, rec.level >= cfg.level PROVE "error" \in Routes(cfg, rec)
  BY <1>4 DEF Routes, LogRoutes
<1>5. ASSUME rec.kind = "audit", cfg.audit, ~rec.writes PROVE "error" \in Routes(cfg, rec)
  BY <1>5 DEF Routes, LogRoutes, LogLevels, WarnLevel
<1> QED
  BY <1>1, <1>2, <1>3, <1>4, <1>5 DEF LogLinesInv, LinesPlainRedactedRouted

LEMMA StepLogLines == LogLinesInv /\ [LogLinesNext]_logLinesVars => LogLinesInv'
<1> SUFFICES ASSUME LogLinesInv, [LogLinesNext]_logLinesVars PROVE LogLinesInv'
  OBVIOUS
<1>1. ASSUME NEW msg \in LogMessages,
             EmitRecord(logCfg, NewRecord("log", WarnLevel, msg, FieldPaths, FALSE, TRUE, TRUE))
      PROVE  LogLinesInv'
  <2> DEFINE rec == NewRecord("log", WarnLevel, msg, FieldPaths, FALSE, TRUE, TRUE)
  <2>1. rec.msg = msg /\ rec.kind \in LogKinds
    BY DEF NewRecord, LogKinds
  <2>2. Len(msg) \in Nat
    BY DEF LogMessages
  <2> HIDE DEF rec
  <2> QED
    BY <1>1, <2>1, <2>2, EmittedLine DEF LogLinesInv, rec
<1>2. ASSUME NEW cfg \in LogCfgs, NEW kind \in LogKinds, NEW level \in LogLevels,
             NEW health \in BOOLEAN, NEW ok \in BOOLEAN, NEW writes \in BOOLEAN,
             EmitRecord(cfg, NewRecord(kind, level, <<"a">>, FieldPaths, health, ok, writes))
      PROVE  LogLinesInv'
  <2> DEFINE rec == NewRecord(kind, level, <<"a">>, FieldPaths, health, ok, writes)
  <2>1. Len(rec.msg) \in Nat /\ rec.kind \in LogKinds
    BY DEF NewRecord
  <2>2. cfg.level \in LogLevels
    <3>1. CASE cfg \in [level : LogLevels, debugLog : BOOLEAN, debug : {FALSE},
                        logHealthChecks : {FALSE}, audit : {TRUE}]
      BY <3>1
    <3>2. CASE \E h \in BOOLEAN : cfg = [level |-> 1, debugLog |-> TRUE, debug |-> TRUE,
                                        logHealthChecks |-> h, audit |-> FALSE]
      <4>1. cfg.level = 1
        BY <3>2
      <4> QED
        BY <4>1 DEF LogLevels
    <3> QED
      BY <3>1, <3>2 DEF LogCfgs
  <2> HIDE DEF rec
  <2> QED
    BY <1>2, <2>1, <2>2, EmittedLine DEF rec
<1>3. CASE UNCHANGED logLinesVars
  BY <1>3 DEF logLinesVars, LogLinesInv, LinesPlainRedactedRouted
<1> QED
  BY <1>1, <1>2, <1>3 DEF LogLinesNext

(* Messages of any length: no escape sequence, complete or cut off, leaves *)
(* a control character in a line, no sensitive field shows its value, and  *)
(* what went wrong is in error.log.                                        *)
THEOREM LinesArePlain == LogLinesSpec => []LinesPlainRedactedRouted
<1>1. LogLinesInit => LogLinesInv
  BY DEF LogLinesInit, LogLinesInv, LinesPlainRedactedRouted, NoRecord, LogLevels, WarnLevel
<1>2. LogLinesInv => LinesPlainRedactedRouted
  BY DEF LogLinesInv
<1> QED
  BY <1>1, <1>2, StepLogLines, PTL DEF LogLinesSpec
-----------------------------------------------------------------------------
(* Backups.                                                                *)
(*                                                                         *)
(* Of the dated files in tiers that keep any, a sweep selects the latest   *)
(* only when it is above the cap on its own: nothing of its tier is later, *)
(* so it is within the count, and nothing that is kept is later, so what   *)
(* the cap is compared with is its own size.  With nothing spoiled that    *)
(* file is a valid one.  Between sweeps the runs work on names of their    *)
(* own, and a run that is writing has made its file invalid before.        *)

BackupSpec == BackupInit /\ [][BackupNext]_backupVars

(* The valid files of the tiers that keep any.                             *)
KeptTier(n) == KeepOf[TierOf[n[2]]] > 0
KeptFull == {n \in ValidFull : KeptTier(n)}
AKeptSurvives ==
    (\E tier \in backedUp : KeepOf[tier] > 0) /\ ~spoiled /\ ~oversized => KeptFull # {}

NamesOf(t) ==
    CASE t = "daily"  -> {FullBackup(d) : d \in 1..BackupDays} \cup {<<"daily", 0>>}
      [] t = "hourly" -> {<<"hourly", 0>>}
      [] OTHER        -> {<<"manual", d>> : d \in 1..BackupDays}

BackupShape ==
    /\ bkFile \in [BackupNames -> {"absent", "partial", "torn", "valid"}]
    /\ bkSize \in [BackupNames -> Nat]
    /\ bkDay \in 1..BackupDays
    /\ bkPc \in [BackupRuns -> {"idle", "sweepfirst", "disk", "create", "write", "verify", "next", "sweeplast"}]
    /\ bkName \in [BackupRuns -> BackupNames]
    /\ spoiled \in BOOLEAN /\ oversized \in BOOLEAN

OwnNames ==
    \A t \in BackupRuns :
        /\ bkPc[t] # "idle" => bkName[t] \in NamesOf(t)
        /\ bkPc[t] = "next" => t = "daily"

WritesInvalid == \A t \in BackupRuns : bkPc[t] = "write" => bkFile[bkName[t]] # "valid"

BackupInv == BackupShape /\ OwnNames /\ WritesInvalid /\ AKeptSurvives

LEMMA DatedBackup ==
    ASSUME NEW n \in DatedBackups
    PROVE  /\ n[2] \in 1..BackupDays
           /\ n[1] \in {"full", "manual"}
           /\ n = <<n[1], n[2]>>
           /\ n \in BackupNames
BY DEF DatedBackups, FullBackup, BackupNames

LEMMA NamesOfRuns ==
    ASSUME NEW t \in {"daily", "hourly", "manual"}
    PROVE  /\ NamesOf(t) \subseteq BackupNames
           /\ \A u \in {"daily", "hourly", "manual"} : u # t => NamesOf(t) \cap NamesOf(u) = {}
<1>1. NamesOf("daily") = {FullBackup(d) : d \in 1..BackupDays} \cup {<<"daily", 0>>}
  BY DEF NamesOf
<1>2. NamesOf("hourly") = {<<"hourly", 0>>}
  BY DEF NamesOf
<1>3. NamesOf("manual") = {<<"manual", d>> : d \in 1..BackupDays}
  BY DEF NamesOf
<1>4. NamesOf(t) \subseteq BackupNames
  BY <1>1, <1>2, <1>3 DEF BackupNames, DatedBackups, Incremental
<1>5. /\ NamesOf("daily") \cap NamesOf("hourly") = {}
      /\ NamesOf("daily") \cap NamesOf("manual") = {}
      /\ NamesOf("hourly") \cap NamesOf("manual") = {}
  BY <1>1, <1>2, <1>3 DEF FullBackup
<1> QED
  BY <1>4, <1>5

(* Of dated files some are on disk, one is the latest.                     *)
LEMMA LatestExists ==
    ASSUME NEW S \in SUBSET DatedBackups, S # {}
    PROVE  \E n \in S : \A m \in S : ~LaterBackup(m, n)
<1> DEFINE rank(n) == 2 * (BackupDays - n[2]) + (IF n[1] = "manual" THEN 0 ELSE 1)
           ranks == {rank(n) : n \in S}
<1>1. ASSUME NEW n \in S PROVE rank(n) \in Nat
  BY DatedBackup, BackupAssumption
<1>2. PICK n \in S : \A m \in S : rank(n) <= rank(m)
  <2>1. ranks \in SUBSET Nat /\ ranks # {}
    BY <1>1
  <2>2. PICK r \in ranks : \A s \in ranks : r <= s
    BY <2>1, LeastExists
  <2> QED
    BY <2>2
<1>3. ASSUME NEW m \in S, LaterBackup(m, n) PROVE FALSE
  <2>1. rank(n) <= rank(m)
    BY <1>2
  <2>2. n[2] \in 1..BackupDays /\ m[2] \in 1..BackupDays
    BY DatedBackup
  <2> QED
    BY <1>3, <2>1, <2>2, BackupAssumption DEF LaterBackup
<1> QED
  BY <1>2, <1>3

LEMMA DatedFinite == IsFiniteSet(DatedBackups)
<1> DEFINE days == 1..BackupDays
           kinds == {"full"} \cup {"manual"}
<1>1. IsFiniteSet(days)
  BY FS_Interval, BackupAssumption
<1>2. IsFiniteSet(kinds)
  BY FS_Singleton, FS_Union
<1>3. IsFiniteSet(kinds \X days)
  <2> HIDE DEF days, kinds
  <2> QED
    BY <1>1, <1>2, FS_Product
<1>4. DatedBackups = kinds \X days
  BY DEF DatedBackups, FullBackup
<1> QED
  BY <1>3, <1>4

(* What one file takes up is its size.                                     *)
LEMMA SizeOfOne ==
    ASSUME NEW n, bkSize[n] \in Nat
    PROVE  TotalSize({n}) = bkSize[n]
<1> DEFINE units == 1..bkSize[n]
<1>1. IsFiniteSet(units) /\ Cardinality(units) = bkSize[n]
  BY FS_Interval
<1>2. IsFiniteSet({n}) /\ Cardinality({n}) = 1
  BY FS_Singleton
<1>3. Cardinality({n} \X units) = 1 * bkSize[n]
  BY <1>1, <1>2, FS_Product
<1>4. UNION {{m} \X (1..bkSize[m]) : m \in {n}} = {n} \X units
  OBVIOUS
<1>5. TotalSize({n}) = Cardinality({n} \X units)
  BY <1>4 DEF TotalSize
<1> HIDE DEF units
<1> QED
  BY <1>3, <1>5

(* Of the dated files in tiers that keep any, the latest is kept, is the   *)
(* latest of what is kept, and goes only when it is above the cap alone.   *)
LEMMA SweepSparesLatest ==
    ASSUME BackupShape, NEW n \in DatedBackups, bkFile[n] # "absent", KeptTier(n),
           \A m \in DatedBackups : bkFile[m] # "absent" /\ KeptTier(m) => ~LaterBackup(m, n)
    PROVE  n \in SelectForDeletion =>
               /\ n \in SizeCapPrune
               /\ \A m \in KeptBackups : ~LaterBackup(m, n)
<1>1. ASSUME NEW d \in 1..BackupDays PROVE n \notin TierPrune(TierOf[d])
  <2> SUFFICES ASSUME n \in OnDisk(TierOf[d]),
                      Cardinality({m \in OnDisk(TierOf[d]) : LaterBackup(m, n)}) >= KeepOf[TierOf[d]]
               PROVE  FALSE
    BY DEF TierPrune
  <2>1. TierOf[n[2]] = TierOf[d]
    BY DEF OnDisk
  <2>2. {m \in OnDisk(TierOf[d]) : LaterBackup(m, n)} = {}
    BY <2>1 DEF OnDisk, KeptTier
  <2>3. Cardinality({m \in OnDisk(TierOf[d]) : LaterBackup(m, n)}) = 0
    BY <2>2, FS_EmptySet
  <2> QED
    BY <2>1, <2>3, BackupAssumption DEF KeptTier
<1> DEFINE overCount == UNION {TierPrune(TierOf[d]) : d \in 1..BackupDays}
<1>2. n \notin overCount
  BY <1>1
<1>3. SelectForDeletion = overCount \cup SizeCapPrune
  BY DEF SelectForDeletion
<1>4. ASSUME NEW m \in KeptBackups PROVE ~LaterBackup(m, n)
  <2>1. PICK d \in 1..BackupDays : m \in OnDisk(TierOf[d]) \ TierPrune(TierOf[d])
    BY DEF KeptBackups
  <2>2. m \in DatedBackups /\ bkFile[m] # "absent" /\ TierOf[m[2]] = TierOf[d]
    BY <2>1 DEF OnDisk
  <2>3. ~(Cardinality({k \in OnDisk(TierOf[d]) : LaterBackup(k, m)}) >= KeepOf[TierOf[d]])
    BY <2>1 DEF TierPrune
  <2> DEFINE later == {k \in OnDisk(TierOf[d]) : LaterBackup(k, m)}
  <2>4. later \subseteq DatedBackups
    BY DEF OnDisk
  <2>5. Cardinality(later) \in Nat
    BY <2>4, DatedFinite, FS_Subset, FS_CardinalityType
  <2> HIDE DEF later
  <2>6. Cardinality(later) < KeepOf[TierOf[d]]
    BY <2>3, <2>5, BackupAssumption DEF later
  <2>7. KeptTier(m)
    BY <2>2, <2>5, <2>6, BackupAssumption DEF KeptTier
  <2> QED
    BY <2>2, <2>7
<1> HIDE DEF overCount
<1> QED
  BY <1>2, <1>3, <1>4

(* A sweep that takes the latest kept file has found it above the cap.     *)
LEMMA AloneAboveCap ==
    ASSUME BackupShape, NEW n \in SizeCapPrune, \A m \in KeptBackups : ~LaterBackup(m, n)
    PROVE  n \in KeptBackups /\ AboveCap(n)
<1>1. n \in DatedBackups /\ n \in KeptBackups
  BY DEF SizeCapPrune, KeptBackups, OnDisk
<1>2. {m \in KeptBackups : ~LaterBackup(n, m)} = {n}
  <2>1. ASSUME NEW m \in KeptBackups, ~LaterBackup(n, m) PROVE m = n
    <3>1. ~LaterBackup(m, n) /\ m \in DatedBackups
      BY DEF KeptBackups, OnDisk
    <3>2. /\ n[2] \in 1..BackupDays /\ m[2] \in 1..BackupDays
          /\ n[1] \in {"full", "manual"} /\ m[1] \in {"full", "manual"}
          /\ n = <<n[1], n[2]>> /\ m = <<m[1], m[2]>>
      BY <1>1, <3>1, DatedBackup
    <3>3. n[2] = m[2]
      BY <2>1, <3>1, <3>2, BackupAssumption DEF LaterBackup
    <3>4. n[1] = m[1]
      BY <2>1, <3>1, <3>2, <3>3 DEF LaterBackup
    <3> QED
      BY <3>2, <3>3, <3>4
  <2>2. ~LaterBackup(n, n)
    BY <1>1
  <2> QED
    BY <1>1, <2>1, <2>2
<1>3. bkSize[n] \in Nat
  BY <1>1, DatedBackup DEF BackupShape
<1>4. SizeCap > 0 /\ TotalSize({n}) > SizeCap
  BY <1>2 DEF SizeCapPrune
<1> QED
  BY <1>1, <1>3, <1>4, SizeOfOne DEF AboveCap

LEMMA BackupInvInit == BackupInit => BackupInv
<1> SUFFICES ASSUME BackupInit PROVE BackupInv
  OBVIOUS
<1>1. FullBackup(1) \in BackupNames /\ 1 \in 1..BackupDays
  BY BackupAssumption DEF BackupNames, DatedBackups
<1>2. BackupShape
  BY <1>1 DEF BackupInit, BackupShape
<1>3. OwnNames /\ WritesInvalid /\ AKeptSurvives
  BY DEF BackupInit, OwnNames, WritesInvalid, AKeptSurvives
<1> QED
  BY <1>2, <1>3 DEF BackupInv

(* A sweep deletes files and leaves the latest.                            *)
LEMMA SweepKeeps ==
    ASSUME BackupInv, NEW t \in BackupRuns, NEW from \in {"sweepfirst", "sweeplast"},
           NEW to \in {"disk", "idle"}, ApplyRetentionSweep(t, from, to)
    PROVE  BackupInv'
<1>1. BackupShape'
  BY DEF ApplyRetentionSweep, BkTo, BackupInv, BackupShape
<1>2. OwnNames'
  BY DEF ApplyRetentionSweep, BkTo, BackupInv, BackupShape, OwnNames
<1>3. WritesInvalid'
  BY DEF ApplyRetentionSweep, BkTo, BackupInv, BackupShape, WritesInvalid
<1>4. AKeptSurvives'
  <2> SUFFICES ASSUME \E tier \in backedUp' : KeepOf[tier] > 0, ~spoiled', ~oversized' PROVE KeptFull' # {}
    BY DEF AKeptSurvives
  <2>1. /\ \E tier \in backedUp : KeepOf[tier] > 0
        /\ ~spoiled /\ ~oversized
        /\ \A n \in DatedBackups : bkFile[n] \notin {"partial", "torn"}
        /\ ~\E n \in KeptBackups : AboveCap(n) /\ \A m \in KeptBackups : ~LaterBackup(m, n)
    BY DEF ApplyRetentionSweep, BackupInv, BackupShape
  <2>2. \A n \in DatedBackups : bkFile[n] # "absent" => bkFile[n] = "valid"
    BY <2>1, DatedBackup DEF BackupInv, BackupShape
  <2> DEFINE S == {n \in DatedBackups : bkFile[n] # "absent" /\ KeptTier(n)}
  <2>3. S # {}
    <3>1. KeptFull # {}
      BY <2>1 DEF BackupInv, AKeptSurvives
    <3> QED
      BY <3>1 DEF KeptFull, ValidFull
  <2>4. PICK n \in S : \A m \in S : ~LaterBackup(m, n)
    BY <2>3, LatestExists
  <2>5. n \notin SelectForDeletion
    <3>1. n \in SelectForDeletion =>
            n \in SizeCapPrune /\ \A m \in KeptBackups : ~LaterBackup(m, n)
      BY <2>4, SweepSparesLatest DEF BackupInv
    <3> QED
      BY <2>1, <3>1, AloneAboveCap DEF BackupInv
  <2>6. bkFile'[n] = "valid"
    BY <2>2, <2>4, <2>5, DatedBackup DEF ApplyRetentionSweep
  <2> QED
    BY <2>4, <2>6 DEF KeptFull, ValidFull, KeptTier
<1> QED
  BY <1>1, <1>2, <1>3, <1>4 DEF BackupInv

(* Steps that leave the files alone and start no write.                    *)
LEMMA FilesAloneKeeps ==
    ASSUME BackupInv, NEW t \in BackupRuns,
           UNCHANGED <<bkFile, bkSize, backedUp, spoiled, oversized>>, bkDay' = bkDay,
           NEW to \in {"idle", "sweepfirst", "disk", "create", "verify", "next", "sweeplast"}, BkTo(t, to),
           bkName' \in [BackupRuns -> BackupNames],
           \A u \in BackupRuns : u # t => bkName'[u] = bkName[u],
           to # "idle" => bkName'[t] \in NamesOf(t),
           to = "next" => t = "daily"
    PROVE  BackupInv'
<1>1. BackupShape'
  BY DEF BkTo, BackupInv, BackupShape
<1>2. \A u \in BackupRuns : u # t => bkPc'[u] = bkPc[u]
  BY DEF BkTo, BackupInv, BackupShape
<1>3. bkPc'[t] = to
  BY DEF BkTo, BackupInv, BackupShape
<1>4. OwnNames'
  BY <1>2, <1>3 DEF BackupInv, OwnNames
<1>5. WritesInvalid'
  BY <1>2, <1>3 DEF BackupInv, WritesInvalid
<1>6. AKeptSurvives'
  BY DEF BackupInv, AKeptSurvives, KeptFull, ValidFull, KeptTier
<1> QED
  BY <1>1, <1>4, <1>5, <1>6 DEF BackupInv

LEMMA StartRunKeeps ==
    ASSUME BackupInv, NEW t \in BackupRuns, StartRun(t)
    PROVE  BackupInv'
<1> DEFINE name == CASE t = "daily" -> FullBackup(bkDay)
                     [] t = "hourly" -> <<"hourly", 0>>
                     [] OTHER -> <<"manual", bkDay>>
<1>1. t \in {"daily", "hourly", "manual"}
  BY BackupAssumption
<1>2. name \in NamesOf(t)
  <2>1. CASE t = "daily"
    BY <2>1 DEF NamesOf, BackupInv, BackupShape
  <2>2. CASE t = "hourly"
    BY <2>2 DEF NamesOf
  <2>3. CASE t = "manual"
    BY <2>3 DEF NamesOf, BackupInv, BackupShape
  <2> QED
    BY <1>1, <2>1, <2>2, <2>3
<1>3. name \in BackupNames
  BY <1>1, <1>2, NamesOfRuns
<1> HIDE DEF name
<1>4. bkName' = [bkName EXCEPT ![t] = name]
  BY DEF StartRun, name
<1>5. PICK to \in {"sweepfirst", "create"} : BkTo(t, to)
  BY DEF StartRun
<1> QED
  BY <1>2, <1>3, <1>4, <1>5, FilesAloneKeeps DEF StartRun, BackupInv, BackupShape

LEMMA NextOfDailyKeeps ==
    ASSUME BackupInv, NEW t \in BackupRuns, NextOfDaily(t)
    PROVE  BackupInv'
<1>0. t = "daily"
  BY DEF NextOfDaily, BackupInv, OwnNames
<1>1. <<"daily", 0>> \in NamesOf(t) /\ <<"daily", 0>> \in BackupNames
  BY <1>0 DEF NamesOf, BackupNames, Incremental
<1>2. bkName[t] \in NamesOf(t)
  BY DEF NextOfDaily, BackupInv, OwnNames
<1>3. PICK to \in {"create", "idle", "sweeplast"} : BkTo(t, to)
  BY DEF NextOfDaily
<1>4. bkName' \in {bkName, [bkName EXCEPT ![t] = <<"daily", 0>>]}
  BY DEF NextOfDaily
<1>5. bkName' \in [BackupRuns -> BackupNames] /\ bkName'[t] \in NamesOf(t)
  BY <1>1, <1>2, <1>4 DEF BackupInv, BackupShape
<1>6. \A u \in BackupRuns : u # t => bkName'[u] = bkName[u]
  BY <1>4 DEF BackupInv, BackupShape
<1> QED
  BY <1>3, <1>5, <1>6, FilesAloneKeeps DEF NextOfDaily

(* CheckDiskSpace, a failed write and a kill.                              *)
LEMMA QuietRunKeeps ==
    ASSUME BackupInv, NEW t \in BackupRuns, CheckDiskSpace(t) \/ WriteFails(t) \/ KillBackup(t)
    PROVE  BackupInv'
<1>1. bkPc[t] # "idle" => bkName[t] \in NamesOf(t)
  BY DEF BackupInv, OwnNames
<1>2. PICK to \in {"create", "idle", "next"} :
        BkTo(t, to) /\ bkPc[t] # "idle" /\ (to = "next" => t = "daily")
  BY DEF CheckDiskSpace, WriteFails, KillBackup
<1>3. UNCHANGED <<bkFile, bkSize, backedUp, spoiled, oversized, bkDay, bkName>>
  BY DEF CheckDiskSpace, WriteFails, KillBackup
<1> QED
  BY <1>1, <1>2, <1>3, FilesAloneKeeps DEF BackupInv, BackupShape

(* A step that changes the file of run t alone, to state s.                *)
LEMMA FileStepKeeps ==
    ASSUME BackupInv, NEW t \in BackupRuns, NEW s \in {"absent", "partial", "torn", "valid"},
           bkPc[t] # "idle",
           bkFile' = [bkFile EXCEPT ![bkName[t]] = s],
           NEW to \in {"idle", "write", "verify", "next", "sweeplast"}, BkTo(t, to),
           to = "write" => s # "valid",
           to = "next" => t = "daily",
           UNCHANGED <<bkDay, bkName>>,
           bkSize' \in [BackupNames -> Nat],
           spoiled' \in BOOLEAN, oversized' \in BOOLEAN
    PROVE  BackupShape' /\ OwnNames' /\ WritesInvalid'
<1>1. bkName[t] \in BackupNames
  BY DEF BackupInv, BackupShape
<1>2. BackupShape'
  BY <1>1 DEF BkTo, BackupInv, BackupShape
<1>3. /\ bkPc'[t] = to
      /\ \A u \in BackupRuns : u # t => bkPc'[u] = bkPc[u]
  BY DEF BkTo, BackupInv, BackupShape
<1>4. OwnNames'
  BY <1>3 DEF BackupInv, OwnNames
<1>5. ASSUME NEW u \in BackupRuns, u # t, bkPc[u] # "idle" PROVE bkFile'[bkName[u]] = bkFile[bkName[u]]
  <2>1. bkName[u] \in NamesOf(u) /\ bkName[t] \in NamesOf(t)
    BY <1>5 DEF BackupInv, OwnNames
  <2>2. t \in {"daily", "hourly", "manual"} /\ u \in {"daily", "hourly", "manual"}
    BY BackupAssumption
  <2>3. bkName[u] # bkName[t]
    BY <1>5, <2>1, <2>2, NamesOfRuns
  <2> QED
    BY <2>3 DEF BackupInv, BackupShape
<1>6. bkFile'[bkName[t]] = s
  BY <1>1 DEF BackupInv, BackupShape
<1>7. WritesInvalid'
  BY <1>3, <1>5, <1>6 DEF BackupInv, WritesInvalid
<1> QED
  BY <1>2, <1>4, <1>7

LEMMA CreateArchiveKeeps ==
    ASSUME BackupInv, NEW t \in BackupRuns, CreateArchive(t)
    PROVE  BackupInv'
<1>0. bkSize' \in [BackupNames -> Nat]
  BY DEF CreateArchive, BackupInv, BackupShape
<1>1. BackupShape' /\ OwnNames' /\ WritesInvalid'
  BY <1>0, FileStepKeeps DEF CreateArchive, BackupInv, BackupShape
<1>2. AKeptSurvives'
  <2> SUFFICES ASSUME \E tier \in backedUp' : KeepOf[tier] > 0, ~spoiled', ~oversized' PROVE KeptFull' # {}
    BY DEF AKeptSurvives
  <2>1. /\ \E tier \in backedUp : KeepOf[tier] > 0
        /\ ~spoiled /\ ~oversized /\ bkFile[bkName[t]] # "valid"
    BY DEF CreateArchive
  <2>2. PICK n \in DatedBackups : bkFile[n] = "valid" /\ KeptTier(n)
    BY <2>1 DEF BackupInv, AKeptSurvives, KeptFull, ValidFull
  <2>3. bkFile'[n] = "valid"
    BY <2>1, <2>2, DatedBackup DEF CreateArchive, BackupInv, BackupShape
  <2> QED
    BY <2>2, <2>3 DEF KeptFull, ValidFull, KeptTier
<1> QED
  BY <1>1, <1>2 DEF BackupInv

LEMMA WriteArchiveKeeps ==
    ASSUME BackupInv, NEW t \in BackupRuns, WriteArchive(t)
    PROVE  BackupInv'
<1>1. PICK s \in {"torn", "valid"} : bkFile' = [bkFile EXCEPT ![bkName[t]] = s]
  BY DEF WriteArchive
<1>0. bkSize' \in [BackupNames -> Nat]
  BY BackupAssumption DEF WriteArchive, SizesOf, BackupInv, BackupShape
<1>2. BackupShape' /\ OwnNames' /\ WritesInvalid'
  BY <1>0, <1>1, FileStepKeeps DEF WriteArchive, BackupInv, BackupShape
<1>3. bkFile[bkName[t]] # "valid"
  BY DEF WriteArchive, BackupInv, WritesInvalid
<1>4. KeptFull \subseteq KeptFull'
  BY <1>1, <1>3, DatedBackup DEF KeptFull, ValidFull, KeptTier, BackupInv, BackupShape
<1>5. AKeptSurvives'
  BY <1>4 DEF WriteArchive, BackupInv, AKeptSurvives
<1> QED
  BY <1>2, <1>5 DEF BackupInv

LEMMA VerifyCreatedKeeps ==
    ASSUME BackupInv, NEW t \in BackupRuns, VerifyCreated(t)
    PROVE  BackupInv'
<1>1. bkName[t] \in BackupNames
  BY DEF BackupInv, BackupShape
<1>2. PICK s \in {"absent", "valid"} :
        /\ bkFile' = [bkFile EXCEPT ![bkName[t]] = s]
        /\ s = "absent" <=> bkFile[bkName[t]] # "valid"
  <2>1. CASE bkFile[bkName[t]] = "valid"
    BY <1>1, <2>1 DEF VerifyCreated, VerifyPasses, BackupInv, BackupShape
  <2>2. CASE bkFile[bkName[t]] # "valid"
    BY <1>1, <2>2 DEF VerifyCreated, VerifyPasses, BackupInv, BackupShape
  <2> QED
    BY <2>1, <2>2
<1>3. PICK to \in {"idle", "next", "sweeplast"} : BkTo(t, to) /\ (to = "next" => t = "daily")
  BY DEF VerifyCreated, AfterVerify
<1>4. /\ spoiled' \in BOOLEAN /\ oversized' \in BOOLEAN
      /\ bkPc[t] # "idle" /\ UNCHANGED <<bkDay, bkName>>
      /\ bkSize' \in [BackupNames -> Nat]
  BY DEF VerifyCreated, BackupInv, BackupShape
<1>5. BackupShape' /\ OwnNames' /\ WritesInvalid'
  BY <1>2, <1>3, <1>4, FileStepKeeps
<1>6. KeptFull' = KeptFull
  BY <1>1, <1>2, DatedBackup DEF KeptFull, ValidFull, KeptTier, BackupInv, BackupShape
<1>7. AKeptSurvives'
  <2>1. ASSUME NEW tier \in backedUp', tier \notin backedUp, KeepOf[tier] > 0 PROVE bkName[t] \in KeptFull
    BY <2>1 DEF VerifyCreated, VerifyPasses, KeptFull, ValidFull, KeptTier
  <2> QED
    BY <1>6, <2>1 DEF VerifyCreated, BackupInv, AKeptSurvives
<1> QED
  BY <1>5, <1>7 DEF BackupInv

(* A restore and a new day change no backup.                               *)
LEMMA RestoreKeeps ==
    ASSUME BackupInv, UNCHANGED <<bkFile, bkSize, bkPc, bkName, backedUp, spoiled, oversized>>, bkDay' \in 1..BackupDays
    PROVE  BackupInv'
BY DEF BackupInv, BackupShape, OwnNames, WritesInvalid, AKeptSurvives, KeptFull, ValidFull, KeptTier

LEMMA BackupInvStep ==
    ASSUME BackupInv, [BackupNext]_backupVars
    PROVE  BackupInv'
<1>1. ASSUME NEW t \in BackupRuns,
             \/ ApplyRetentionSweep(t, "sweepfirst", "disk")
             \/ ApplyRetentionSweep(t, "sweeplast", "idle")
      PROVE  BackupInv'
  BY <1>1, SweepKeeps
<1>2. CASE NextDay
  <2>1. bkDay' \in 1..BackupDays
    BY <1>2, BackupAssumption DEF NextDay, BackupInv, BackupShape
  <2> QED
    BY <1>2, <2>1, RestoreKeeps DEF NextDay
<1>3. CASE (\E n \in BackupNames : VerifyArchive(n)) \/ ExtractArchive \/ RestoreEntries \/ UNCHANGED backupVars
  BY <1>3, RestoreKeeps DEF VerifyArchive, ExtractArchive, RestoreEntries, backupVars, BackupInv, BackupShape
<1> QED
  BY <1>1, <1>2, <1>3, StartRunKeeps, NextOfDailyKeeps, QuietRunKeeps, CreateArchiveKeeps, WriteArchiveKeeps, VerifyCreatedKeeps
     DEF BackupNext

(* Once a backup was verified in a tier that keeps any, there is a valid   *)
(* one to restore from, for any days, tiers, counts (0 among them), sizes, *)
(* cap and faults, unless a run wrote over a valid file, a sweep counted a *)
(* broken one, or the latest kept file was above the cap on its own:       *)
(* SelectForDeletion spares the latest file of the tiers that keep any,    *)
(* createAndVerify removes only a file that failed, and no two runs write  *)
(* the same name.                                                          *)
THEOREM LastBackupSurvives == BackupSpec => []ABackupSurvives
<1>1. BackupInv => ABackupSurvives
  BY DEF BackupInv, AKeptSurvives, ABackupSurvives, KeptFull
<1>2. BackupInv /\ [BackupNext]_backupVars => BackupInv'
  BY BackupInvStep
<1> QED
  BY <1>1, <1>2, BackupInvInit, PTL DEF BackupSpec

-----------------------------------------------------------------------------
(* GeoIP.                                                                  *)
GeoIPSpec == GeoIPInit /\ [][GeoIPNext]_geoIPVars

(* Every reader in use, about to be installed or about to be closed was    *)
(* opened; none is in two of these places, and those in use or about to be *)
(* are not closed.                                                         *)
ReadersApart ==
    /\ Loaded(geoRdr) \subseteq 1..opened /\ Loaded(geoNew) \subseteq 1..opened
    /\ Loaded(geoRdr) \intersect Loaded(geoNew) = {}
    /\ Loaded(geoRdr) \intersect shut = {} /\ Loaded(geoNew) \intersect shut = {}
    /\ geoOld \intersect Loaded(geoRdr) = {} /\ geoOld \intersect Loaded(geoNew) = {}

(* What Load opened waits for the swap; a swap on a running server that    *)
(* replaces readers follows a refresh that has fetched everything.         *)
SwapEarned ==
    /\ geoTask # "swap" => geoNew = NoReaders
    /\ geoUp = "new" => geoTask = "idle" /\ geoRdr = NoReaders
    /\ geoTask = "swap" /\ geoUp = "up" /\ geoRdr # NoReaders => fetched = targets

GeoInv == GeoIPTypeOK /\ ReadersApart /\ SwapEarned

LEMMA NothingLoaded == Loaded(NoReaders) = {}
BY DEF Loaded, NoReaders

LEMMA NoReadersType == NoReaders \in [targets -> 0..MaxReaders]
BY GeoIPAssumption DEF NoReaders

LEMMA TargetsFinite == IsFiniteSet(targets)
<1>1. IsFiniteSet({"asn"}) /\ IsFiniteSet({"country"}) /\ IsFiniteSet({"city"})
  BY FS_Singleton
<1>2. IsFiniteSet({"asn"} \cup {"country"})
  BY <1>1, FS_Union
<1>3. IsFiniteSet(({"asn"} \cup {"country"}) \cup {"city"})
  BY <1>1, <1>2, FS_Union
<1>4. targets \subseteq ({"asn"} \cup {"country"}) \cup {"city"}
  BY GeoIPAssumption DEF targets
<1> QED
  BY <1>3, <1>4, FS_Subset

(* The database that is fetched next is one that was not.                  *)
LEMMA NextIsPending == Pending # {} => NextPending \in Pending
<1> SUFFICES ASSUME Pending # {} PROVE \E d \in Pending : \A e \in Pending : GeoOrder[d] <= GeoOrder[e]
  BY DEF NextPending
<1>1. \A e \in Pending : e = "asn" \/ e = "country" \/ e = "city"
  BY GeoIPAssumption DEF Pending, targets
<1>2. GeoOrder["asn"] = 1 /\ GeoOrder["country"] = 2 /\ GeoOrder["city"] = 3
  BY DEF GeoOrder
<1>3. \A e \in Pending : GeoOrder[e] \in 1..3
  BY <1>1, <1>2
<1>4. CASE "asn" \in Pending
  BY <1>2, <1>3, <1>4
<1>5. CASE "asn" \notin Pending /\ "country" \in Pending
  <2>1. \A e \in Pending : GeoOrder["country"] <= GeoOrder[e]
    BY <1>1, <1>2, <1>5
  <2> QED
    BY <1>5, <2>1
<1>6. CASE "asn" \notin Pending /\ "country" \notin Pending
  <2>1. \A e \in Pending : e = "city"
    BY <1>1, <1>6
  <2> QED
    BY <1>2, <2>1
<1> QED
  BY <1>4, <1>5, <1>6

(* Load opens new readers only, in the order of the databases.             *)
LEMMA LoadIsFresh ==
    ASSUME GeoInv, LoadReaders
    PROVE  /\ opened' \in 0..MaxReaders /\ opened <= opened'
           /\ geoNew' \in [targets -> 0..MaxReaders]
           /\ \A d \in targets : geoNew'[d] # 0 => geoNew'[d] \in (opened + 1)..opened'
<1> DEFINE good == {d \in targets : Opens(d)}
           upto(d) == {e \in good : GeoOrder[e] <= GeoOrder[d]}
<1>1. IsFiniteSet(good) /\ Cardinality(good) \in Nat
  BY TargetsFinite, FS_Subset, FS_CardinalityType
<1>2. ASSUME NEW d \in good PROVE Cardinality(upto(d)) \in 1..Cardinality(good)
  <2>1. d \in upto(d)
    <3>1. d \in {"asn", "country", "city"}
      BY GeoIPAssumption DEF targets
    <3>2. GeoOrder[d] <= GeoOrder[d]
      BY <3>1 DEF GeoOrder
    <3> QED
      BY <3>2
  <2>2. IsFiniteSet(upto(d)) /\ Cardinality(upto(d)) <= Cardinality(good)
    BY <1>1, FS_Subset
  <2>3. Cardinality(upto(d)) \in Nat /\ Cardinality(upto(d)) # 0
    BY <2>1, <2>2, FS_CardinalityType, FS_EmptySet
  <2> QED
    BY <1>1, <2>2, <2>3
<1>3. opened \in 0..MaxReaders
  BY DEF GeoInv, GeoIPTypeOK
<1>4. /\ opened + Cardinality(good) <= MaxReaders
      /\ geoNew' = [d \in targets |-> IF Opens(d) THEN opened + Cardinality(upto(d)) ELSE 0]
      /\ opened' = opened + Cardinality(good)
  BY Zenon DEF LoadReaders
<1> HIDE DEF upto
<1>5. \A d \in targets : Opens(d) => opened + Cardinality(upto(d)) \in (opened + 1)..opened'
  <2> SUFFICES ASSUME NEW d \in targets, Opens(d)
               PROVE  opened + Cardinality(upto(d)) \in (opened + 1)..opened'
    OBVIOUS
  <2>1. Cardinality(upto(d)) \in 1..Cardinality(good)
    BY <1>2
  <2> QED
    BY <1>1, <1>3, <1>4, <2>1
<1> HIDE DEF good
<1>6. opened' \in 0..MaxReaders /\ opened <= opened'
  BY <1>1, <1>3, <1>4, GeoIPAssumption
<1>7. \A d \in targets : geoNew'[d] \in {0} \cup (opened + 1)..opened'
  BY <1>4, <1>5
<1>8. geoNew' \in [targets -> 0..MaxReaders]
  BY <1>3, <1>4, <1>5, <1>6, GeoIPAssumption
<1> QED
  BY <1>6, <1>7, <1>8

LEMMA LoadKeeps ==
    ASSUME GeoInv, LoadReaders, UNCHANGED <<geoRdr, shut, geoOld>>
    PROVE  ReadersApart'
<1>1. /\ opened \in 0..MaxReaders /\ opened' \in 0..MaxReaders /\ opened <= opened'
      /\ \A d \in targets : geoNew'[d] # 0 => geoNew'[d] \in (opened + 1)..opened'
  BY LoadIsFresh DEF GeoInv, GeoIPTypeOK
<1>2. Loaded(geoNew') \subseteq (opened + 1)..opened'
  BY <1>1 DEF Loaded
<1>3. Loaded(geoRdr') \subseteq 1..opened /\ shut' \subseteq 1..opened /\ geoOld' \subseteq 1..opened
  BY DEF GeoInv, GeoIPTypeOK, ReadersApart
<1>4. (opened + 1)..opened' \intersect 1..opened = {}
  BY <1>1
<1>5. (opened + 1)..opened' \subseteq 1..opened' /\ 1..opened \subseteq 1..opened'
  BY <1>1
<1>6. Loaded(geoRdr)' = Loaded(geoRdr') /\ Loaded(geoNew)' = Loaded(geoNew')
  BY DEF Loaded, targets
<1>7. Loaded(geoRdr') \intersect shut' = {} /\ geoOld' \intersect Loaded(geoRdr') = {}
  BY DEF GeoInv, ReadersApart, Loaded
<1> QED
  BY <1>2, <1>3, <1>4, <1>5, <1>6, <1>7, Zenon DEF ReadersApart

LEMMA GeoInit == GeoIPInit => GeoInv
<1> SUFFICES ASSUME GeoIPInit PROVE GeoInv
  OBVIOUS
<1>1. GeoIPTypeOK
  BY NoReadersType, GeoIPAssumption DEF GeoIPInit, GeoIPTypeOK
<1>2. ReadersApart
  BY NothingLoaded DEF GeoIPInit, ReadersApart
<1>3. SwapEarned
  BY DEF GeoIPInit, SwapEarned
<1> QED
  BY <1>1, <1>2, <1>3 DEF GeoInv

(* What a step of the load, the swap or the refresh leaves.                *)
LEMMA StartGeoIPKeeps == ASSUME GeoInv, startGeoIP PROVE GeoInv'
<1>1. ReadersApart'
  BY LoadKeeps DEF startGeoIP
<1>2. GeoIPTypeOK'
  <2>1. opened' \in 0..MaxReaders /\ opened \in 0..MaxReaders /\ opened <= opened'
    BY LoadIsFresh DEF startGeoIP, GeoInv, GeoIPTypeOK
  <2>2. shut' \subseteq 1..opened' /\ geoOld' \subseteq 1..opened'
    BY <2>1 DEF startGeoIP, GeoInv, GeoIPTypeOK
  <2> QED
    BY <2>1, <2>2, LoadIsFresh DEF startGeoIP, GeoInv, GeoIPTypeOK, targets
<1>3. SwapEarned'
  BY DEF startGeoIP, GeoInv, SwapEarned, NoReaders, targets
<1> QED
  BY <1>1, <1>2, <1>3 DEF GeoInv

LEMMA SwapKeeps == ASSUME GeoInv, swap PROVE GeoInv'
<1>1. Loaded(geoRdr)' = Loaded(geoNew) /\ Loaded(geoNew)' = {} /\ geoOld' = Loaded(geoRdr)
  BY NothingLoaded DEF swap, Loaded, targets
<1>2. ReadersApart'
  BY <1>1 DEF swap, GeoInv, ReadersApart
<1>3. GeoIPTypeOK'
  BY <1>1, NoReadersType DEF swap, GeoInv, ReadersApart, GeoIPTypeOK, targets
<1>4. SwapEarned'
  BY DEF swap, GeoInv, SwapEarned, NoReaders, targets
<1> QED
  BY <1>2, <1>3, <1>4 DEF GeoInv

LEMMA CloseReaderKeeps == ASSUME GeoInv, closeReader PROVE GeoInv'
<1>1. Min(geoOld) \in geoOld
  BY MinIsLeast DEF closeReader, GeoInv, GeoIPTypeOK
<1>2. Loaded(geoRdr)' = Loaded(geoRdr) /\ Loaded(geoNew)' = Loaded(geoNew)
  BY DEF closeReader, Loaded, targets
<1>3. ReadersApart'
  BY <1>1, <1>2 DEF closeReader, GeoInv, ReadersApart
<1>4. GeoIPTypeOK'
  BY <1>1 DEF closeReader, GeoInv, GeoIPTypeOK, targets
<1>5. SwapEarned'
  BY DEF closeReader, GeoInv, SwapEarned, NoReaders, targets
<1> QED
  BY <1>3, <1>4, <1>5 DEF GeoInv

LEMMA RefreshStepKeeps == ASSUME GeoInv, RefreshStep PROVE GeoInv'
<1>1. CASE Downloaded \/ DownloadFails
  <2>1. ReadersApart'
    BY <1>1 DEF RefreshStep, Downloaded, DownloadFails, GeoInv, ReadersApart, Loaded, targets
  <2>2. geoFile' \in [targets -> {"none", "good", "bad"}] /\ fetched' \subseteq targets
    BY <1>1, NextIsPending DEF Downloaded, DownloadFails, Pending, GeoInv, GeoIPTypeOK
  <2>3. GeoIPTypeOK'
    BY <1>1, <2>2 DEF RefreshStep, Downloaded, DownloadFails, GeoInv, GeoIPTypeOK, targets
  <2>4. SwapEarned'
    BY <1>1 DEF RefreshStep, Downloaded, DownloadFails, GeoInv, SwapEarned, NoReaders, targets
  <2> QED
    BY <2>1, <2>3, <2>4 DEF GeoInv
<1>2. CASE Reload
  <2>1. ReadersApart'
    BY <1>2, LoadKeeps DEF RefreshStep, Reload
  <2>2. opened' \in 0..MaxReaders /\ opened \in 0..MaxReaders /\ opened <= opened'
    BY <1>2, LoadIsFresh DEF Reload, GeoInv, GeoIPTypeOK
  <2>3. shut' \subseteq 1..opened' /\ geoOld' \subseteq 1..opened'
    BY <2>2 DEF RefreshStep, GeoInv, GeoIPTypeOK
  <2>4. GeoIPTypeOK'
    BY <1>2, <2>2, <2>3, LoadIsFresh DEF RefreshStep, Reload, GeoInv, GeoIPTypeOK, targets
  <2>5. fetched = targets
    BY <1>2 DEF Reload, Pending, GeoInv, GeoIPTypeOK
  <2>6. SwapEarned'
    BY <1>2, <2>5 DEF RefreshStep, Reload, GeoInv, SwapEarned, NoReaders, targets
  <2> QED
    BY <2>1, <2>4, <2>6 DEF GeoInv
<1> QED
  BY <1>1, <1>2 DEF RefreshStep

(* The other steps move the task and the server's state, never a reader.   *)
LEMMA ControlKeeps ==
    ASSUME GeoInv, UNCHANGED <<geoFile, geoRdr, opened, shut, geoNew, geoOld>>,
           swapDone \/ Refresh \/ Close \/ UNCHANGED <<geoTask, fetched>>,
           geoUp' \in {geoUp, "dead", "closed"}, geoUp = "new" => geoUp' \in {"new", "dead"}
    PROVE  GeoInv'
<1>1. ReadersApart'
  BY DEF GeoInv, ReadersApart, Loaded, targets
<1>2. GeoIPTypeOK'
  BY DEF GeoInv, GeoIPTypeOK, targets, swapDone, Refresh, Close
<1>3. SwapEarned'
  BY DEF GeoInv, SwapEarned, NoReaders, targets, swapDone, Refresh, Close
<1> QED
  BY <1>1, <1>2, <1>3 DEF GeoInv

LEMMA GeoStep == GeoInv /\ [GeoIPNext]_geoIPVars => GeoInv'
<1> SUFFICES ASSUME GeoInv, [GeoIPNext]_geoIPVars PROVE GeoInv'
  OBVIOUS
<1>1. CASE swapDone \/ Refresh \/ Close
  BY <1>1, ControlKeeps DEF swapDone, Refresh, Close
<1>2. ASSUME NEW q \in GeoReqs,
             \/ \E a \in GeoAddrs, allowlisted \in BOOLEAN : EnterStage(q, a, allowlisted)
             \/ Blocked(q) \/ Lookup(q) \/ Resolve(q) \/ LookupFaults(q) \/ LeaveStage(q)
      PROVE  GeoInv'
  BY <1>2, ControlKeeps DEF EnterStage, Blocked, Lookup, Resolve, LookupFaults, LeaveStage
<1>3. CASE UNCHANGED geoIPVars
  BY <1>3, ControlKeeps DEF geoIPVars
<1> QED
  BY <1>1, <1>2, <1>3, StartGeoIPKeeps, SwapKeeps, CloseReaderKeeps, RefreshStepKeeps DEF GeoIPNext

(* While the server runs, readers that were serving are replaced only by a *)
(* Refresh that fetched every enabled database, and no reader that is      *)
(* installed has been closed, for any databases, any number of refreshes   *)
(* that fail or bring a broken file, and any requests in flight.           *)
THEOREM RefreshIsAllOrNothing == GeoIPSpec => RefreshAllOrNothing
<1> DEFINE Act == /\ geoUp = "up" /\ geoRdr # NoReaders /\ geoRdr' # geoRdr => fetched = targets
                  /\ Loaded(geoRdr') \intersect shut' = {}
                  /\ GeoIPTypeOK'
<1>1. ASSUME GeoInv, GeoIPNext PROVE Act
  <2>1. GeoInv'
    BY <1>1, GeoStep
  <2>2. Loaded(geoRdr') \intersect shut' = {}
    BY <2>1 DEF GeoInv, ReadersApart, Loaded, targets
  <2>3. geoRdr' # geoRdr => swap
    BY <1>1 DEF GeoIPNext, startGeoIP, closeReader, swapDone, Refresh, RefreshStep, Close, EnterStage, Blocked,
                Lookup, Resolve, LookupFaults, LeaveStage
  <2>4. geoUp = "up" /\ geoRdr # NoReaders /\ geoRdr' # geoRdr => fetched = targets
    BY <1>1, <2>3 DEF swap, GeoInv, SwapEarned
  <2> QED
    BY <2>1, <2>2, <2>4 DEF GeoInv
<1>2. GeoInv /\ [GeoIPNext]_geoIPVars => [Act]_geoIPVars
  BY <1>1
<1>3. GeoIPSpec => [][Act]_geoIPVars
  BY <1>2, GeoInit, GeoStep, PTL DEF GeoIPSpec
<1> QED
  BY <1>3 DEF RefreshAllOrNothing

-----------------------------------------------------------------------------
(* URL variables.                                                          *)
(*                                                                         *)
(* The resolver learns from trusted peers only, so every observation it    *)
(* still counts is one a proxy vouched for in the window.                  *)
UrlSpec == UrlInit /\ [][UrlNext]_urlVars

NoStrangers == \A p \in trustedPeers : PeerClass[p] # "stranger"

SamplesVouched ==
    /\ IsFiniteSet(urlSamples) /\ IsFiniteSet(vouched)
    /\ \A s \in urlSamples : InWindow(s) => [host |-> s.host, at |-> s.at] \in vouched
    /\ \A v \in vouched : v.at \in Int

UrlInv == UrlTypeOK /\ NoStrangers /\ SamplesVouched

LEMMA UrlInvInit == UrlInit => UrlInv
<1> SUFFICES ASSUME UrlInit PROVE UrlInv
  OBVIOUS
<1>1. IsFiniteSet({}) /\ Cardinality({}) = 0
  BY FS_EmptySet
<1>2. UrlTypeOK
  <2>1. urlConf \in UrlConfs \cup {NoResolver} /\ trustedPeers \subseteq UrlPeers
    BY DEF UrlInit
  <2>2. urlClock \in SampleWindow..MaxUrlTime
    BY UrlAssumption DEF UrlInit
  <2>3. Cardinality(urlSamples) <= MaxSamples
    BY <1>1, UrlAssumption DEF UrlInit
  <2> QED
    BY <2>1, <2>2, <2>3 DEF UrlInit, UrlTypeOK
<1>3. NoStrangers /\ SamplesVouched
  BY <1>1 DEF UrlInit, NoStrangers, SamplesVouched
<1> QED
  BY <1>2, <1>3 DEF UrlInv

(* The image of a finite set.                                              *)
LEMMA ImageFinite ==
    ASSUME NEW S, IsFiniteSet(S), NEW f, DOMAIN f = S, f = [x \in S |-> f[x]]
    PROVE  IsFiniteSet(Range(f))
<1>1. f \in Surjection(S, Range(f))
  BY DEF Surjection, Range
<1> QED
  BY <1>1, FS_Surjection

(* What an index of a sequence of headers picks is one of its values.      *)
LEMMA ProxyHostForwarded ==
    ASSUME NEW q, DOMAIN q.fwdHost \subseteq Nat, proxyHost(q).host # Blank
    PROVE  IsTrustedProxy(q.peer) /\ \E v \in Range(q.fwdHost) : v = proxyHost(q)
<1> DEFINE usable == {i \in DOMAIN q.fwdHost : plausibleHost(q.fwdHost[i].host)}
           first == CHOOSE i \in usable : \A j \in usable : i <= j
           nobody == [host |-> Blank, port |-> Blank]
<1>1. proxyHost(q) = IF IsTrustedProxy(q.peer)
                     THEN IF usable = {} THEN nobody ELSE q.fwdHost[first]
                     ELSE nobody
  BY DEF proxyHost, FirstUsable
<1>2. usable \in SUBSET Nat /\ usable \subseteq DOMAIN q.fwdHost
  OBVIOUS
<1> HIDE DEF usable, first
<1>3. nobody.host = Blank
  OBVIOUS
<1> HIDE DEF nobody
<1>4. IsTrustedProxy(q.peer) /\ usable # {} /\ proxyHost(q) = q.fwdHost[first]
  BY <1>1, <1>3
<1>5. first \in usable
  <2>1. \E i \in usable : \A j \in usable : i <= j
    BY <1>2, <1>4, LeastExists
  <2> QED
    BY <2>1 DEF first
<1> QED
  BY <1>2, <1>4, <1>5 DEF Range

(* Headers are short, and what they hold is finite.                        *)
LEMMA ForwardsFinite ==
    ASSUME NEW f \in UrlForwards
    PROVE  /\ DOMAIN f \subseteq Nat
           /\ IsFiniteSet(Range(f))
<1>1. DOMAIN f = 1..Len(f) /\ Len(f) \in Nat /\ f = [i \in 1..Len(f) |-> f[i]]
  <2>1. CASE f = <<>>
    BY <2>1
  <2>2. CASE \E h \in UrlHosts : f = <<[host |-> h, port |-> Blank]>>
    BY <2>2
  <2>3. CASE \E g, h \in UrlHosts : f = <<[host |-> g, port |-> Blank], [host |-> h, port |-> "8443"]>>
    BY <2>3
  <2> QED
    BY <2>1, <2>2, <2>3 DEF UrlForwards
<1>2. IsFiniteSet(1..Len(f))
  <2>1. Len(f) \in Int /\ 1 \in Int
    BY <1>1
  <2> QED
    BY <2>1, FS_Interval
<1> QED
  BY <1>1, <1>2, ImageFinite

LEMMA StrangersNotBuilt ==
    ASSUME NEW conf, NEW resolved \in SUBSET {p \in UrlPeers : PeerClass[p] = "named"}
    PROVE  /\ BuildTrusted(conf, resolved) \subseteq UrlPeers
           /\ \A p \in BuildTrusted(conf, resolved) : PeerClass[p] # "stranger"
BY DEF BuildTrusted

(* One more observation of a host, vouched for now.                        *)
LEMMA ObservedVouched ==
    ASSUME UrlInv, NEW S, S \subseteq urlSamples, NEW h, Cardinality(urlSamples) < MaxSamples
    PROVE  /\ IsFiniteSet(Observed(S, h)) /\ Cardinality(Observed(S, h)) <= MaxSamples
           /\ \A s \in Observed(S, h) : s \in urlSamples \/ (s.host = h /\ s.at = urlClock)
<1> DEFINE o == [host |-> h, at |-> urlClock,
                 nr |-> Cardinality({s \in S : s.host = h /\ s.at = urlClock})]
<1>1. Observed(S, h) = S \cup {o}
  BY DEF Observed
<1>2. o.host = h /\ o.at = urlClock
  OBVIOUS
<1> HIDE DEF o
<1>3. IsFiniteSet(urlSamples)
  BY DEF UrlInv, SamplesVouched
<1>4. IsFiniteSet(S) /\ Cardinality(S) <= Cardinality(urlSamples)
  BY <1>3, FS_Subset
<1>5. /\ IsFiniteSet(S \cup {o})
      /\ Cardinality(S \cup {o}) = Cardinality(S) \/ Cardinality(S \cup {o}) = Cardinality(S) + 1
  BY <1>4, FS_AddElement
<1>6. Cardinality(S) \in Nat /\ Cardinality(urlSamples) \in Nat
  BY <1>3, <1>4, FS_CardinalityType
<1> QED
  BY <1>1, <1>2, <1>4, <1>5, <1>6, UrlAssumption

(* A request keeps the invariant: what its headers claim is vouched for    *)
(* when its peer is trusted, and remembered in no other case.              *)
LEMMA StepURLVars ==
    ASSUME UrlInv, NEW q \in LearningRequests, URLVars(q)
    PROVE  UrlInv'
<1> DEFINE said == IF PeerClass[q.peer] # "stranger"
                   THEN {[host |-> v.host, at |-> urlClock] : v \in Range(q.fwdHost)} ELSE {}
<1>1. /\ vouched' = {v \in vouched : InWindow(v)} \cup said
      /\ UNCHANGED <<urlConf, trustedPeers, urlClock>> /\ Cardinality(urlSamples) < MaxSamples
  BY DEF URLVars
<1>2. q.fwdHost \in UrlForwards /\ q.peer \in UrlPeers
  BY DEF LearningRequests, UrlRequests
<1>3. IsFiniteSet(said)
  <2>1. IsFiniteSet(Range(q.fwdHost))
    BY <1>2, ForwardsFinite
  <2> DEFINE f == [v \in Range(q.fwdHost) |-> [host |-> v.host, at |-> urlClock]]
  <2>2. IsFiniteSet({[host |-> v.host, at |-> urlClock] : v \in Range(q.fwdHost)})
    <3>1. Range(f) = {[host |-> v.host, at |-> urlClock] : v \in Range(q.fwdHost)}
      BY DEF Range
    <3>2. DOMAIN f = Range(q.fwdHost) /\ f = [v \in Range(q.fwdHost) |-> f[v]]
      OBVIOUS
    <3> HIDE DEF f
    <3> QED
      BY <2>1, <3>1, <3>2, ImageFinite
  <2> QED
    BY <2>2, FS_EmptySet
<1>4. \A v \in said : v.at = urlClock
  OBVIOUS
<1>5. urlClock \in Int
  BY UrlAssumption DEF UrlInv, UrlTypeOK
<1>6. /\ IsFiniteSet(urlSamples')
      /\ Cardinality(urlSamples') <= MaxSamples
      /\ \A s \in urlSamples' : s \in urlSamples \/ (s.at = urlClock /\ [host |-> s.host, at |-> s.at] \in said)
  <2>1. CASE urlSamples' = urlSamples
    BY <2>1, <1>1 DEF UrlInv, UrlTypeOK, SamplesVouched
  <2>2. CASE urlSamples' = Observed(pruneLocked, ResolvedHost(q)) /\ proxyHost(q).host # Blank
    <3>1. pruneLocked \subseteq urlSamples
      BY DEF pruneLocked
    <3>2. DOMAIN q.fwdHost \subseteq Nat
      BY <1>2, ForwardsFinite
    <3>3. IsTrustedProxy(q.peer) /\ \E v \in Range(q.fwdHost) : v = proxyHost(q)
      BY <2>2, <3>2, ProxyHostForwarded
    <3>4. PeerClass[q.peer] # "stranger"
      BY <3>3 DEF IsTrustedProxy, UrlInv, NoStrangers
    <3>5. ResolvedHost(q) = proxyHost(q).host
      BY <2>2 DEF ResolvedHost
    <3>6. [host |-> ResolvedHost(q), at |-> urlClock] \in said
      BY <3>3, <3>4, <3>5
    <3> HIDE DEF said
    <3> QED
      BY <2>2, <3>1, <3>6, <1>1, ObservedVouched
  <2> QED
    BY <2>1, <2>2 DEF URLVars, observe, Learns
<1> HIDE DEF said
<1>7. UrlTypeOK'
  <2>1. ASSUME NEW s \in urlSamples' PROVE s.at \in 0..urlClock
    <3>1. CASE s \in urlSamples
      BY <3>1 DEF UrlInv, UrlTypeOK
    <3>2. CASE s.at = urlClock
      BY <3>2, UrlAssumption DEF UrlInv, UrlTypeOK
    <3> QED
      BY <3>1, <3>2, <1>6
  <2> QED
    BY <1>1, <1>6, <2>1 DEF UrlInv, UrlTypeOK
<1>8. NoStrangers'
  BY <1>1 DEF UrlInv, NoStrangers
<1>9. SamplesVouched'
  <2>1. IsFiniteSet(vouched')
    <3>1. IsFiniteSet({v \in vouched : InWindow(v)})
      BY FS_Subset DEF UrlInv, SamplesVouched
    <3> QED
      BY <3>1, <1>1, <1>3, FS_Union
  <2>2. ASSUME NEW s \in urlSamples', InWindow(s)' PROVE [host |-> s.host, at |-> s.at] \in vouched'
    <3>1. CASE s \in urlSamples
      BY <3>1, <2>2, <1>1 DEF UrlInv, SamplesVouched, InWindow
    <3>2. CASE [host |-> s.host, at |-> s.at] \in said
      BY <3>2, <1>1
    <3> QED
      BY <3>1, <3>2, <1>6
  <2>3. \A v \in vouched' : v.at \in Int
    BY <1>1, <1>4, <1>5 DEF UrlInv, SamplesVouched, UrlTypeOK
  <2> QED
    BY <1>6, <2>1, <2>2, <2>3 DEF SamplesVouched
<1> QED
  BY <1>7, <1>8, <1>9 DEF UrlInv

LEMMA StepUrl == UrlInv /\ [UrlNext]_urlVars => UrlInv'
<1> SUFFICES ASSUME UrlInv, [UrlNext]_urlVars PROVE UrlInv'
  OBVIOUS
<1>1. CASE UrlTick
  BY <1>1, UrlAssumption DEF UrlTick, UrlInv, UrlTypeOK, NoStrangers, SamplesVouched, InWindow
<1>2. CASE \E q \in LearningRequests : URLVars(q)
  BY <1>2, StepURLVars
<1>3. CASE \E conf \in UrlConfs, resolved \in SUBSET {p \in UrlPeers : PeerClass[p] = "named"} :
              NewResolver(conf, resolved)
  BY <1>3, StrangersNotBuilt
  DEF NewResolver, UrlInv, UrlTypeOK, NoStrangers, SamplesVouched, InWindow
<1>4. CASE UNCHANGED urlVars
  BY <1>4 DEF urlVars, UrlInv, UrlTypeOK, NoStrangers, SamplesVouched, InWindow
<1> QED
  BY <1>1, <1>2, <1>3, <1>4 DEF UrlNext

(* To a peer that is not trusted the headers make no difference.           *)
LEMMA StrangersUnheard ==
    ASSUME NEW q \in UrlRequests, ~IsTrustedProxy(q.peer)
    PROVE  /\ Answer(q) = Answer(Unclaimed(q))
           /\ BaseURLPrefix(q) = BaseURLPrefix(Unclaimed(q))
           /\ ClientIP(q) = q.peer
<1> DEFINE u == Unclaimed(q)
<1>1. u.peer = q.peer /\ u.host = q.host /\ u.hostPort = q.hostPort /\ u.tls = q.tls
  BY DEF Unclaimed, UrlRequests
<1> HIDE DEF u
<1>2. resolveProto(q) = resolveProto(u)
  BY <1>1 DEF resolveProto
<1>3. proxyHost(q) = proxyHost(u)
  BY <1>1 DEF proxyHost
<1>4. ResolvedHost(q) = ResolvedHost(u)
  BY <1>3 DEF ResolvedHost
<1>5. resolvePort(q) = resolvePort(u)
  BY <1>1, <1>3 DEF resolvePort
<1>6. Answer(q) = Answer(u)
  BY <1>1, <1>2, <1>4, <1>5 DEF Answer
<1>7. BaseURLPrefix(q) = BaseURLPrefix(u)
  BY <1>1 DEF BaseURLPrefix
<1>8. ClientIP(q) = q.peer
  BY DEF ClientIP
<1> QED
  BY <1>6, <1>7, <1>8 DEF u

(* For any hosts, peers, configurations, windows and thresholds: strangers *)
(* are ignored in every state the resolver learns its way into, and a      *)
(* wildcard stands on as many vouched names as the policy asks.            *)
THEOREM UrlVarsAreSound == UrlSpec => []UrlVarsSound
<1>1. ASSUME UrlInv PROVE HeadersNeedTrust
  <2>1. ASSUME NEW q \in UrlRequests, PeerClass[q.peer] = "stranger" PROVE ~IsTrustedProxy(q.peer)
    BY <1>1, <2>1 DEF UrlInv, NoStrangers, IsTrustedProxy
  <2> QED
    BY <2>1, StrangersUnheard DEF HeadersNeedTrust
<1>2. ASSUME UrlInv PROVE WildcardEarned
  <2> SUFFICES ASSUME urlConf # NoResolver, Len(urlConf.domains) < 2, WildcardDomain # Blank
               PROVE  Cardinality({v.host : v \in {w \in vouched :
                                     InWindow(w) /\ BaseDomainOf(w.host) = WildcardDomain}})
                        >= MinSamples
    BY DEF WildcardEarned
  <2> DEFINE earned == {w \in vouched : InWindow(w) /\ BaseDomainOf(w.host) = WildcardDomain}
             names == {v.host : v \in earned}
  <2>1. ~(Len(urlConf.domains) >= 2)
    <3>1. Len(urlConf.domains) \in Nat
      BY <1>2, UrlAssumption DEF UrlInv, UrlTypeOK
    <3> QED
      BY <3>1
  <2>2. Cardinality(HostsUnder(DominantHosts, WildcardDomain)) >= MinSamples
    BY <2>1 DEF WildcardDomain
  <2>3. HostsUnder(DominantHosts, WildcardDomain) \subseteq names
    <3> SUFFICES ASSUME NEW h \in HostsUnder(DominantHosts, WildcardDomain) PROVE h \in names
      OBVIOUS
    <3>1. PICK s \in pruneLocked : h = s.host
      BY DEF HostsUnder, DominantHosts, HostsOf, Range
    <3>2. [host |-> s.host, at |-> s.at] \in vouched
      BY <1>2, <3>1 DEF pruneLocked, UrlInv, SamplesVouched
    <3>3. [host |-> s.host, at |-> s.at] \in earned
      BY <3>1, <3>2 DEF pruneLocked, InWindow, HostsUnder
    <3> QED
      BY <3>1, <3>3
  <2>4. IsFiniteSet(names)
    <3>1. IsFiniteSet(earned)
      BY <1>2, FS_Subset DEF UrlInv, SamplesVouched
    <3> DEFINE f == [v \in earned |-> v.host]
    <3>2. names = Range(f)
      BY DEF Range
    <3>3. DOMAIN f = earned /\ f = [v \in earned |-> f[v]]
      OBVIOUS
    <3> HIDE DEF f, earned, names
    <3> QED
      BY <3>1, <3>2, <3>3, ImageFinite
  <2> HIDE DEF names
  <2>5. Cardinality(HostsUnder(DominantHosts, WildcardDomain)) <= Cardinality(names)
    BY <2>3, <2>4, FS_Subset
  <2>6. /\ Cardinality(names) \in Nat
        /\ Cardinality(HostsUnder(DominantHosts, WildcardDomain)) \in Nat
    BY <2>3, <2>4, FS_Subset, FS_CardinalityType
  <2> QED
    BY <2>2, <2>5, <2>6, UrlAssumption DEF names
<1>3. UrlInv => UrlVarsSound
  BY <1>1, <1>2 DEF UrlVarsSound, UrlInv
<1> QED
  BY <1>3, UrlInvInit, StepUrl, PTL DEF UrlSpec

-----------------------------------------------------------------------------
(* Configuration.                                                          *)
(*                                                                         *)
(* A section of Validate is described by what it does to the value of each *)
(* setting: it leaves the settings of other sections alone, makes its own  *)
(* agree, and changes nothing where they agree already.  Sections run in   *)
(* an order in which no later one touches what an earlier one relies on;   *)
(* so the whole of Validate makes every section agree, and a validated     *)
(* file is loaded as it is.                                                *)

ConfigSpec == ConfigInit /\ [][ConfigNext]_configVars

FlagNames ==
    {"users", "allow_2fa", "require_2fa", "orgs", "custom_domains", "apex", "subdomain", "wildcard",
     "cert", "cert_key", "letsencrypt", "email", "include_subdomains", "preload", "custom",
     "country_db", "compliance", "encryption"}
SizedNames ==
    {"hsts_age", "max_age", "idle_timeout", "pool_size", "min_idle", "max_open", "max_idle", "rate",
     "burst"}

(* The settings whose value some section checks.                           *)
CoreChecked ==
    {"mode", "base_url", "listen", "admin_path", "api_version", "port", "max_body_size", "level",
     "trusted_proxies", "secure", "same_site", "max_age", "idle_timeout", "bucket", "global_burst",
     "cookie_max_age", "cache_type", "pool_size", "min_idle", "log_level", "filename", "rotate",
     "format", "database_type", "database_port", "max_open", "max_idle"}
PeopleChecked ==
    {"registration_mode", "visibility", "password_min_length", "max_per_user", "creation_mode",
     "default_role", "verification_ttl", "blocked_patterns", "ssl_port", "min_version", "challenge",
     "exempt_paths", "hsts_age"}
TailChecked ==
    {"position", "smtp_tls", "smtp_port", "timezone", "catch_up", "max_backups", "deny", "allow",
     "loki", "disk_threshold", "branch", "defer_days", "circuits", "rate", "burst", "sam_address",
     "hops"}
Checkable == CoreChecked \cup PeopleChecked \cup TailChecked
MayBeBad == Checkable \cup Unchecked \cup {"languages"}

(* The values a setting may hold.                                          *)
Fits(s, v) ==
    /\ s \in FlagNames => v \in Flag
    /\ s \in SizedNames => v \in Sized
    /\ v = "bad" => s \in MayBeBad
Typed(c) == \A s : Fits(s, Value(c, s))

(* A configuration that lists what differs from the default, and that only. *)
Canon(c) ==
    /\ c.set = [s \in DOMAIN c.set |-> c.set[s]]
    /\ \A s \in DOMAIN c.set : c.set[s] # DefaultConfig(s)

Same(d, c) == \A s : Value(d, s) = Value(c, s)
KeepsOthers(d, c, own) == \A s : s \notin own => Value(d, s) = Value(c, s)

LEMMA DefaultsFit == \A s : Fits(s, DefaultConfig(s))
<1> SUFFICES ASSUME NEW s PROVE Fits(s, DefaultConfig(s))
  OBVIOUS
<1>1. s \in FlagNames => DefaultConfig(s) \in Flag
  BY DEF FlagNames, DefaultConfig, FeatureDefaults, TorDefaults, Flag
<1>2. s \in SizedNames => DefaultConfig(s) \in Sized
  BY DEF SizedNames, DefaultConfig, FeatureDefaults, TorDefaults, Sized
<1>3. s # "languages" => DefaultConfig(s) # "bad"
  BY DEF DefaultConfig, FeatureDefaults, TorDefaults
<1> QED
  BY <1>1, <1>2, <1>3 DEF Fits, MayBeBad

LEMMA DefaultNotRaw == \A s : s # "languages" => DefaultConfig(s) # "raw"
BY DEF DefaultConfig, FeatureDefaults, TorDefaults

LEMMA SameSets ==
    ASSUME NEW c, NEW d, Canon(c), Canon(d), Same(d, c) PROVE d.set = c.set
<1>1. ASSUME NEW s PROVE s \in DOMAIN c.set <=> s \in DOMAIN d.set
  BY DEF Canon, Same, Value
<1>2. DOMAIN c.set = DOMAIN d.set
  BY <1>1
<1>3. \A s \in DOMAIN c.set : d.set[s] = c.set[s]
  BY <1>2 DEF Same, Value
<1> QED
  BY <1>2, <1>3 DEF Canon

(* The steps a section is made of.                                         *)
LEMMA PutValue ==
    ASSUME NEW set, NEW s, NEW v, NEW b, NEW c
    PROVE  /\ \A t : Value([set |-> Put(set, s, v), warned |-> b], t)
                       = IF t = s THEN v ELSE Value([set |-> set, warned |-> b], t)
           /\ Canon([set |-> Put(set, s, v), warned |-> b])
BY DEF Put, OnlyChanges, Value, Canon

LEMMA WithSettingValue ==
    ASSUME NEW c, NEW s, NEW v
    PROVE  /\ \A t : Value(WithSetting(c, s, v), t) = IF t = s THEN v ELSE Value(c, t)
           /\ Canon(WithSetting(c, s, v))
           /\ WithSetting(c, s, v).warned = c.warned
BY DEF WithSetting, Put, OnlyChanges, Value, Canon

LEMMA WarnedValue ==
    ASSUME NEW c
    PROVE  /\ \A t : Value(Warned(c), t) = Value(c, t)
           /\ Canon(c) => Canon(Warned(c))
           /\ Warned(c).warned
BY DEF Warned, Value, Canon

LEMMA CheckValue ==
    ASSUME NEW c, NEW loud, NEW quiet, NEW mute, NEW kept, "languages" \notin loud \cup quiet \cup mute
    PROVE  LET d == CheckSettings(c, loud, quiet, mute, kept)
               all == loud \cup quiet \cup mute
           IN  /\ \A t : Value(d, t) = IF t \in all /\ Value(c, t) \in {"unset", "bad"} THEN DefaultConfig(t)
                                       ELSE IF t \in all \ kept /\ Value(c, t) = "raw" THEN "alt"
                                       ELSE Value(c, t)
               /\ Canon(d)
               /\ c.warned => d.warned
<1> DEFINE all == loud \cup quiet \cup mute
           d == CheckSettings(c, loud, quiet, mute, kept)
           bad == {s \in all \cap DOMAIN c.set : c.set[s] \in {"unset", "bad"}}
           raw == {s \in (all \ kept) \cap DOMAIN c.set : c.set[s] = "raw"}
           new == [s \in DOMAIN c.set |-> IF s \in bad THEN DefaultConfig(s)
                                          ELSE IF s \in raw THEN "alt" ELSE c.set[s]]
<1>1. /\ d.set = OnlyChanges(new)
      /\ c.warned => d.warned
  BY DEF CheckSettings
<1>2. Canon(d)
  <2> HIDE DEF d, new
  <2> QED
    BY <1>1 DEF Canon, OnlyChanges
<1>3. \A t : Value(d, t) = IF t \in DOMAIN new THEN new[t] ELSE DefaultConfig(t)
  <2> HIDE DEF d, new
  <2> QED
    BY <1>1 DEF Value, OnlyChanges
<1>4. ASSUME NEW t
      PROVE  Value(d, t) = IF t \in all /\ Value(c, t) \in {"unset", "bad"} THEN DefaultConfig(t)
                           ELSE IF t \in all \ kept /\ Value(c, t) = "raw" THEN "alt"
                           ELSE Value(c, t)
  <2> HIDE DEF d, all
  <2>1. CASE t \in DOMAIN c.set
    BY <1>3, <2>1 DEF Value
  <2>2. CASE t \notin DOMAIN c.set
    <3>1. t \in all => DefaultConfig(t) # "raw"
      BY DefaultNotRaw DEF all
    <3>2. Value(c, t) = DefaultConfig(t) /\ Value(d, t) = DefaultConfig(t)
      BY <1>3, <2>2 DEF Value
    <3> QED
      BY <3>1, <3>2
  <2> QED
    BY <2>1, <2>2
<1> QED
  BY <1>1, <1>2, <1>4

(* What the checks of single settings establish.                           *)
Checked(c, names, kept) ==
    \A s \in names : /\ Value(c, s) \notin {"unset", "bad"}
                     /\ s \notin kept => Value(c, s) # "raw"

(* A section: it keeps values that fit, lists changes only, forgets no     *)
(* warning and leaves what is not its own.                                 *)
Section(c, d, own) ==
    /\ Typed(c) => Typed(d)
    /\ Canon(c) => Canon(d)
    /\ c.warned => d.warned
    /\ KeepsOthers(d, c, own)

LEMMA CheckIsSection ==
    ASSUME NEW c, NEW loud, NEW quiet, NEW mute, NEW kept,
           \A s \in loud \cup quiet \cup mute : DefaultConfig(s) \notin {"unset", "bad", "raw"},
           "languages" \notin loud \cup quiet \cup mute
    PROVE  LET d == CheckSettings(c, loud, quiet, mute, kept)
               all == loud \cup quiet \cup mute
           IN  /\ Section(c, d, all)
               /\ Checked(d, all, kept)
               /\ Checked(c, all, kept) => Same(d, c)
<1> DEFINE d == CheckSettings(c, loud, quiet, mute, kept)
           all == loud \cup quiet \cup mute
<1>1. /\ \A t : Value(d, t) = IF t \in all /\ Value(c, t) \in {"unset", "bad"} THEN DefaultConfig(t)
                              ELSE IF t \in all \ kept /\ Value(c, t) = "raw" THEN "alt"
                              ELSE Value(c, t)
      /\ Canon(d)
      /\ c.warned => d.warned
  BY CheckValue
<1>2. \A s \in all : DefaultConfig(s) \notin {"unset", "bad", "raw"}
  OBVIOUS
<1> HIDE DEF d, all
<1>3. Checked(d, all, kept)
  BY <1>1, <1>2 DEF Checked
<1>4. Checked(c, all, kept) => Same(d, c)
  BY <1>1 DEF Checked, Same
<1>5. KeepsOthers(d, c, all)
  BY <1>1 DEF KeepsOthers
<1>6. ASSUME Typed(c) PROVE Typed(d)
  <2> SUFFICES ASSUME NEW t PROVE Fits(t, Value(d, t))
    BY DEF Typed
  <2>1. Fits(t, Value(c, t)) /\ Fits(t, DefaultConfig(t))
    BY <1>6, DefaultsFit DEF Typed
  <2>2. Value(c, t) = "raw" => Fits(t, "alt")
    BY <2>1 DEF Fits, Flag, Sized
  <2> QED
    BY <1>1, <2>1, <2>2
<1> QED
  BY <1>1, <1>3, <1>4, <1>5, <1>6 DEF Section, d, all

LEMMA SetIsSection ==
    ASSUME NEW c, NEW s, NEW v, Fits(s, v)
    PROVE  /\ Section(c, WithSetting(c, s, v), {s})
           /\ Section(c, WarnAndSet(c, s, v), {s})
           /\ Value(WithSetting(c, s, v), s) = v
           /\ Value(WarnAndSet(c, s, v), s) = v
           /\ WarnAndSet(c, s, v).warned
<1>1. \A d : Value(Warned(d), s) = Value(d, s)
  BY WarnedValue
<1>2. Section(c, WithSetting(c, s, v), {s})
  BY WithSettingValue DEF Section, Typed, KeepsOthers
<1>3. \A t : Value(WarnAndSet(c, s, v), t) = Value(WithSetting(c, s, v), t)
  BY WarnedValue DEF WarnAndSet
<1>4. Canon(WarnAndSet(c, s, v)) /\ WarnAndSet(c, s, v).warned
  BY WarnedValue, WithSettingValue DEF WarnAndSet
<1>5. Section(c, WarnAndSet(c, s, v), {s})
  BY <1>2, <1>3, <1>4 DEF Section, Typed, KeepsOthers
<1> QED
  BY <1>2, <1>3, <1>4, <1>5, WithSettingValue

LEMMA WarnIsSection ==
    ASSUME NEW c PROVE Section(c, Warned(c), {}) /\ Same(Warned(c), c) /\ Warned(c).warned
BY WarnedValue DEF Section, Typed, KeepsOthers, Same

LEMMA SectionsCompose ==
    ASSUME NEW c, NEW d, NEW e, NEW A, NEW B, NEW all, Section(c, d, A), Section(d, e, B), A \cup B \subseteq all
    PROVE  Section(c, e, all)
BY DEF Section, KeepsOthers

LEMMA NothingIsSection == ASSUME NEW c, NEW own PROVE Section(c, c, own) /\ Same(c, c)
BY DEF Section, KeepsOthers, Same

LEMMA WiderSection ==
    ASSUME NEW c, NEW d, NEW A, NEW all, Section(c, d, A), A \subseteq all PROVE Section(c, d, all)
BY DEF Section, KeepsOthers

(* A list keeps its valid entries.                                         *)
LEMMA ListIsSection ==
    ASSUME NEW c, NEW s, Fits(s, "alt")
    PROVE  LET d == CheckList(c, s)
           IN  /\ Section(c, d, {s})
               /\ Value(d, s) \notin {"bad", "raw"}
               /\ Value(c, s) # "unset" => Value(d, s) # "unset"
               /\ Value(c, s) \notin {"bad", "raw"} => Same(d, c)
<1> DEFINE d == CheckList(c, s)
<1>1. CASE Value(c, s) = "bad"
  <2>1. d = WarnAndSet(c, s, "alt")
    BY <1>1 DEF CheckList
  <2> QED
    BY <1>1, <2>1, SetIsSection
<1>2. CASE Value(c, s) = "raw"
  <2>1. d = WithSetting(c, s, "alt")
    BY <1>2 DEF CheckList, When
  <2> QED
    BY <1>2, <2>1, SetIsSection
<1>3. CASE Value(c, s) \notin {"bad", "raw"}
  <2>1. d = c
    BY <1>3 DEF CheckList, When
  <2> QED
    BY <1>3, <2>1, NothingIsSection
<1> QED
  BY <1>1, <1>2, <1>3

(* The settings CheckSettings is called with have a usable default.        *)
Plain ==
    {"admin_path", "api_version", "application_name", "base_url", "branch", "bucket",
     "burst", "cache_type", "challenge", "circuits", "cookie_max_age", "creation_mode",
     "database_type", "default_role", "disk_threshold", "filename", "format",
     "global_burst", "hsts_age", "idle_timeout", "level", "listen", "log_level", "loki",
     "max_age", "max_backups", "max_body_size", "max_idle", "max_open", "min_idle",
     "min_version", "mode", "password_min_length", "pool_size", "position", "rate",
     "registration_mode", "rotate", "sam_address", "same_site", "secure", "smtp_port",
     "smtp_tls", "timezone", "verification_ttl", "visibility"}

LEMMA DefaultsUsable ==
    \A s \in Plain : DefaultConfig(s) \notin {"unset", "bad", "raw"} /\ s # "languages"
BY DEF Plain, DefaultConfig, FeatureDefaults, TorDefaults

LEMMA CheckPlain ==
    ASSUME NEW c, NEW loud, NEW quiet, NEW mute, NEW kept, NEW all, loud \cup quiet \cup mute = all,
           all \subseteq Plain
    PROVE  LET d == CheckSettings(c, loud, quiet, mute, kept)
           IN  /\ Section(c, d, all)
               /\ Checked(d, all, kept)
               /\ Checked(c, all, kept) => Same(d, c)
<1>1. /\ \A s \in loud \cup quiet \cup mute : DefaultConfig(s) \notin {"unset", "bad", "raw"}
      /\ "languages" \notin loud \cup quiet \cup mute
  BY DefaultsUsable
<1> QED
  BY <1>1, CheckIsSection

(* The values the sections set fit.                                        *)
LEMMA ValuesFit ==
    /\ Fits("port", "p3") /\ Fits("port", "p4") /\ Fits("types", "def")
    /\ Fits("cookie_name", "def") /\ Fits("default_language", "en") /\ Fits("fallback_language", "en")
    /\ Fits("cache_host", "def") /\ Fits("format", "def") /\ Fits("database_port", "unset")
    /\ Fits("trusted_proxies", "alt") /\ Fits("ssl_port", "unset") /\ Fits("exempt_paths", "def")
    /\ Fits("exempt_paths", "alt") /\ Fits("max_per_user", "def") /\ Fits("default_role", "def")
    /\ Fits("blocked_patterns", "alt") /\ Fits("catch_up", "def") /\ Fits("schedule", "def")
    /\ Fits("max_total_size", "def") /\ Fits("deny", "alt") /\ Fits("allow", "alt")
    /\ Fits("defer_days", "def") /\ Fits("hops", "def") /\ Fits("cert", "off")
    /\ Fits("cert_key", "off") /\ Fits("letsencrypt", "off") /\ Fits("preload", "off")
    /\ Fits("allow_2fa", "on") /\ Fits("orgs", "off") /\ Fits("custom_domains", "off")
    /\ Fits("apex", "on") /\ Fits("subdomain", "on") /\ Fits("encryption", "on")
    /\ Fits("idle_timeout", "low") /\ Fits("min_idle", "low") /\ Fits("max_idle", "low")
    /\ Fits("rate", "low") /\ Fits("burst", "high")
    /\ \A v : Fits("languages", v)
<1>1. \A s, v : s \notin FlagNames \cup SizedNames /\ v # "bad" => Fits(s, v)
  BY DEF Fits
<1>2. \A s \in FlagNames : s \notin SizedNames /\ Fits(s, "on") /\ Fits(s, "off")
  BY DEF Fits, FlagNames, SizedNames, Flag
<1>3. \A s \in SizedNames : s \notin FlagNames /\ Fits(s, "low") /\ Fits(s, "high")
  BY DEF Fits, FlagNames, SizedNames, Sized
<1>4. /\ Fits("port", "p3") /\ Fits("port", "p4") /\ Fits("types", "def")
      /\ Fits("cookie_name", "def") /\ Fits("default_language", "en") /\ Fits("fallback_language", "en")
      /\ Fits("cache_host", "def") /\ Fits("format", "def") /\ Fits("database_port", "unset")
      /\ Fits("trusted_proxies", "alt") /\ Fits("ssl_port", "unset") /\ Fits("exempt_paths", "def")
      /\ Fits("exempt_paths", "alt") /\ Fits("max_per_user", "def") /\ Fits("default_role", "def")
      /\ Fits("blocked_patterns", "alt") /\ Fits("catch_up", "def") /\ Fits("schedule", "def")
      /\ Fits("max_total_size", "def") /\ Fits("deny", "alt") /\ Fits("allow", "alt")
      /\ Fits("defer_days", "def") /\ Fits("hops", "def")
  BY <1>1 DEF FlagNames, SizedNames
<1>5. /\ Fits("cert", "off") /\ Fits("cert_key", "off") /\ Fits("letsencrypt", "off")
      /\ Fits("preload", "off") /\ Fits("allow_2fa", "on") /\ Fits("orgs", "off")
      /\ Fits("custom_domains", "off") /\ Fits("apex", "on") /\ Fits("subdomain", "on")
      /\ Fits("encryption", "on")
  BY <1>2 DEF FlagNames
<1>6. /\ Fits("idle_timeout", "low") /\ Fits("min_idle", "low") /\ Fits("max_idle", "low")
      /\ Fits("rate", "low") /\ Fits("burst", "high")
  BY <1>3 DEF SizedNames
<1>7. \A v : Fits("languages", v)
  BY DEF Fits, FlagNames, SizedNames, MayBeBad
<1> QED
  BY <1>4, <1>5, <1>6, <1>7

(* The sections: the settings each may change, what it establishes of      *)
(* them, and that it then has nothing left to do.                          *)
ServerNames == {"mode", "listen", "admin_path", "api_version", "base_url", "application_name", "port"}
ServerGood(c) ==
    /\ Checked(c, {"mode", "listen", "admin_path", "api_version", "base_url", "application_name"}, {})
    /\ Value(c, "port") \notin {"unset", "bad"}

LEMMA ServerSection ==
    ASSUME NEW c, NEW random \in {"p3", "p4"}
    PROVE  /\ Section(c, ValidateServer(c, random), ServerNames)
           /\ ServerGood(ValidateServer(c, random))
           /\ ServerGood(c) => Same(ValidateServer(c, random), c)
<1> DEFINE a == CheckSettings(c, {}, {"mode", "listen", "admin_path", "api_version"}, {"base_url", "application_name"}, {})
           b == When(Value(a, "port") \in {"unset", "bad"}, WarnAndSet(a, "port", random), a)
<1>1. /\ Section(c, a, {"mode", "listen", "admin_path", "api_version", "base_url", "application_name"})
      /\ Checked(a, {"mode", "listen", "admin_path", "api_version", "base_url", "application_name"}, {})
      /\ Checked(c, {"mode", "listen", "admin_path", "api_version", "base_url", "application_name"}, {})
            => Same(a, c)
  BY CheckPlain DEF Plain
<1> HIDE DEF a
<1>2. /\ Section(a, b, {"port"})
      /\ (Value(a, "port") \in {"unset", "bad"}) => Value(b, "port") = random
      /\ ~(Value(a, "port") \in {"unset", "bad"}) => b = a
  BY SetIsSection, NothingIsSection, ValuesFit DEF When
<1> HIDE DEF b
<1>3. ValidateServer(c, random) = b
  BY DEF ValidateServer, a, b
<1>4. Section(c, b, ServerNames)
  <2>1. Section(c, a, ServerNames)
    BY <1>1, WiderSection DEF ServerNames
  <2>2. Section(a, b, ServerNames)
    BY <1>2, WiderSection DEF ServerNames
  <2> QED
    BY <2>1, <2>2, SectionsCompose
<1>5. ServerGood(b)
  BY <1>1, <1>2 DEF ServerGood, Checked, Section, KeepsOthers
<1>6. ServerGood(c) => Same(b, c)
  BY <1>1, <1>2 DEF ServerGood, Checked, Same
<1> QED
  BY <1>3, <1>4, <1>5, <1>6

LimitsNames == {"max_body_size"}
LimitsGood(c) ==
    /\ Checked(c, {"max_body_size"}, {})

LEMMA LimitsSection ==
    ASSUME NEW c
    PROVE  /\ Section(c, ValidateLimits(c), LimitsNames)
           /\ LimitsGood(ValidateLimits(c))
           /\ LimitsGood(c) => Same(ValidateLimits(c), c)
<1> DEFINE a == CheckSettings(c, {"max_body_size"}, {}, {}, {})
<1>1. /\ Section(c, a, {"max_body_size"})
      /\ Checked(a, {"max_body_size"}, {})
      /\ Checked(c, {"max_body_size"}, {}) => Same(a, c)
  BY CheckPlain DEF Plain
<1> HIDE DEF a
<1>2. ValidateLimits(c) = a
  BY DEF ValidateLimits, a
<1>3. Section(c, a, LimitsNames)
  BY <1>1, WiderSection DEF LimitsNames
<1>4. LimitsGood(a)
  BY <1>1 DEF LimitsGood, Checked, Section, KeepsOthers
<1>5. LimitsGood(c) => Same(a, c)
  BY <1>1 DEF LimitsGood, Checked, Same
<1> QED
  BY <1>2, <1>3, <1>4, <1>5

CompressionNames == {"level", "types"}
CompressionGood(c) ==
    /\ Checked(c, {"level"}, {})
    /\ Value(c, "types") # "unset"

LEMMA CompressionSection ==
    ASSUME NEW c
    PROVE  /\ Section(c, ValidateCompression(c), CompressionNames)
           /\ CompressionGood(ValidateCompression(c))
           /\ CompressionGood(c) => Same(ValidateCompression(c), c)
<1> DEFINE a == CheckSettings(c, {"level"}, {}, {}, {})
           b == When(Value(a, "types") = "unset", WithSetting(a, "types", "def"), a)
<1>1. /\ Section(c, a, {"level"})
      /\ Checked(a, {"level"}, {})
      /\ Checked(c, {"level"}, {}) => Same(a, c)
  BY CheckPlain DEF Plain
<1> HIDE DEF a
<1>2. /\ Section(a, b, {"types"})
      /\ (Value(a, "types") = "unset") => Value(b, "types") = "def"
      /\ ~(Value(a, "types") = "unset") => b = a
  BY SetIsSection, NothingIsSection, ValuesFit DEF When
<1> HIDE DEF b
<1>3. ValidateCompression(c) = b
  BY DEF ValidateCompression, a, b
<1>4. Section(c, b, CompressionNames)
  <2>1. Section(c, a, CompressionNames)
    BY <1>1, WiderSection DEF CompressionNames
  <2>2. Section(a, b, CompressionNames)
    BY <1>2, WiderSection DEF CompressionNames
  <2> QED
    BY <2>1, <2>2, SectionsCompose
<1>5. CompressionGood(b)
  BY <1>1, <1>2 DEF CompressionGood, Checked, Section, KeepsOthers
<1>6. CompressionGood(c) => Same(b, c)
  BY <1>1, <1>2 DEF CompressionGood, Checked, Same
<1> QED
  BY <1>3, <1>4, <1>5, <1>6

SessionNames == {"max_age", "idle_timeout", "secure", "same_site", "cookie_name"}
SessionGood(c) ==
    /\ Checked(c, {"max_age", "idle_timeout", "secure", "same_site"}, {})
    /\ Value(c, "cookie_name") # "unset"
    /\ ~(Value(c, "idle_timeout") = "high" /\ Value(c, "max_age") = "low")

LEMMA SessionSection ==
    ASSUME NEW c
    PROVE  /\ Section(c, ValidateSession(c), SessionNames)
           /\ SessionGood(ValidateSession(c))
           /\ SessionGood(c) => Same(ValidateSession(c), c)
<1> DEFINE a == CheckSettings(c, {"max_age", "idle_timeout", "secure", "same_site"}, {}, {}, {})
           b == When(Value(a, "cookie_name") = "unset", WithSetting(a, "cookie_name", "def"), a)
           d == When(Value(b, "idle_timeout") = "high" /\ Value(b, "max_age") = "low",
                     WarnAndSet(b, "idle_timeout", "low"), b)
<1>1. /\ Section(c, a, {"max_age", "idle_timeout", "secure", "same_site"})
      /\ Checked(a, {"max_age", "idle_timeout", "secure", "same_site"}, {})
      /\ Checked(c, {"max_age", "idle_timeout", "secure", "same_site"}, {}) => Same(a, c)
  BY CheckPlain DEF Plain
<1> HIDE DEF a
<1>2. /\ Section(a, b, {"cookie_name"})
      /\ (Value(a, "cookie_name") = "unset") => Value(b, "cookie_name") = "def"
      /\ ~(Value(a, "cookie_name") = "unset") => b = a
  BY SetIsSection, NothingIsSection, ValuesFit DEF When
<1> HIDE DEF b
<1>3. /\ Section(b, d, {"idle_timeout"})
      /\ (Value(b, "idle_timeout") = "high" /\ Value(b, "max_age") = "low")
            => Value(d, "idle_timeout") = "low"
      /\ ~(Value(b, "idle_timeout") = "high" /\ Value(b, "max_age") = "low") => d = b
  BY SetIsSection, NothingIsSection, ValuesFit DEF When
<1> HIDE DEF d
<1>4. ValidateSession(c) = d
  BY DEF ValidateSession, a, b, d
<1>5. Section(c, d, SessionNames)
  <2>1. Section(c, a, SessionNames)
    BY <1>1, WiderSection DEF SessionNames
  <2>2. Section(a, b, SessionNames)
    BY <1>2, WiderSection DEF SessionNames
  <2>3. Section(b, d, SessionNames)
    BY <1>3, WiderSection DEF SessionNames
  <2>4. Section(c, b, SessionNames)
    BY <2>1, <2>2, SectionsCompose
  <2> QED
    BY <2>4, <2>3, SectionsCompose
<1>6. SessionGood(d)
  BY <1>1, <1>2, <1>3 DEF SessionGood, Checked, Section, KeepsOthers
<1>7. SessionGood(c) => Same(d, c)
  BY <1>1, <1>2, <1>3 DEF SessionGood, Checked, Same
<1> QED
  BY <1>4, <1>5, <1>6, <1>7

RateNames == {"bucket", "global_burst"}
RateGood(c) ==
    /\ Checked(c, {"bucket", "global_burst"}, {})

LEMMA RateSection ==
    ASSUME NEW c
    PROVE  /\ Section(c, ValidateRateLimit(c), RateNames)
           /\ RateGood(ValidateRateLimit(c))
           /\ RateGood(c) => Same(ValidateRateLimit(c), c)
<1> DEFINE a == CheckSettings(c, {"bucket", "global_burst"}, {}, {}, {})
<1>1. /\ Section(c, a, {"bucket", "global_burst"})
      /\ Checked(a, {"bucket", "global_burst"}, {})
      /\ Checked(c, {"bucket", "global_burst"}, {}) => Same(a, c)
  BY CheckPlain DEF Plain
<1> HIDE DEF a
<1>2. ValidateRateLimit(c) = a
  BY DEF ValidateRateLimit, a
<1>3. Section(c, a, RateNames)
  BY <1>1, WiderSection DEF RateNames
<1>4. RateGood(a)
  BY <1>1 DEF RateGood, Checked, Section, KeepsOthers
<1>5. RateGood(c) => Same(a, c)
  BY <1>1 DEF RateGood, Checked, Same
<1> QED
  BY <1>2, <1>3, <1>4, <1>5

I18nNames == {"default_language", "languages", "fallback_language", "cookie_max_age"}
I18nGood(c) ==
    /\ Value(c, "default_language") # "unset" /\ Value(c, "fallback_language") # "unset"
    /\ {Value(c, "default_language"), Value(c, "fallback_language")} \subseteq Value(c, "languages")
    /\ Checked(c, {"cookie_max_age"}, {})

LEMMA I18nSection ==
    ASSUME NEW c
    PROVE  /\ Section(c, ValidateI18n(c), I18nNames)
           /\ I18nGood(ValidateI18n(c))
           /\ I18nGood(c) => Same(ValidateI18n(c), c)
<1> DEFINE a == When(Value(c, "default_language") = "unset", WithSetting(c, "default_language", "en"), c)
           lang == Value(a, "default_language")
           b == CASE Value(a, "languages") = {} -> WithSetting(a, "languages", {lang})
                  [] lang \notin Value(a, "languages") ->
                       WarnAndSet(a, "languages", Value(a, "languages") \cup {lang})
                  [] OTHER -> a
           d == When(Value(b, "fallback_language") = "unset", WithSetting(b, "fallback_language", "en"), b)
           e == When(Value(d, "fallback_language") \notin Value(d, "languages"),
                     WarnAndSet(d, "languages", Value(d, "languages") \cup {Value(d, "fallback_language")}), d)
           f == CheckSettings(e, {"cookie_max_age"}, {}, {}, {})
<1>1. Fits("default_language", "en") /\ Fits("fallback_language", "en") /\ \A v : Fits("languages", v)
  BY ValuesFit
<1>2. /\ Section(c, a, {"default_language"})
      /\ Value(a, "default_language") # "unset"
      /\ Value(c, "default_language") # "unset" => a = c
  BY <1>1, SetIsSection, NothingIsSection DEF When
<1> HIDE DEF a
<1>3. /\ Section(a, b, {"languages"})
      /\ lang \in Value(b, "languages")
      /\ lang \in Value(a, "languages") => b = a
  <2>1. CASE Value(a, "languages") = {}
    BY <1>1, <2>1, SetIsSection
  <2>2. CASE Value(a, "languages") # {} /\ lang \notin Value(a, "languages")
    <3>1. b = WarnAndSet(a, "languages", Value(a, "languages") \cup {lang})
      BY <2>2
    <3> QED
      BY <1>1, <2>2, <3>1, SetIsSection
  <2>3. CASE Value(a, "languages") # {} /\ lang \in Value(a, "languages")
    BY <2>3, NothingIsSection
  <2> QED
    BY <2>1, <2>2, <2>3
<1> HIDE DEF b
<1>4. /\ Section(b, d, {"fallback_language"})
      /\ Value(d, "fallback_language") # "unset"
      /\ Value(b, "fallback_language") # "unset" => d = b
  BY <1>1, SetIsSection, NothingIsSection DEF When
<1> HIDE DEF d
<1>5. /\ Section(d, e, {"languages"})
      /\ Value(d, "fallback_language") \in Value(e, "languages")
      /\ Value(d, "fallback_language") \in Value(d, "languages") => e = d
      /\ Value(d, "default_language") \in Value(d, "languages") =>
             Value(d, "default_language") \in Value(e, "languages")
  <2>1. CASE Value(d, "fallback_language") \notin Value(d, "languages")
    <3>1. e = WarnAndSet(d, "languages", Value(d, "languages") \cup {Value(d, "fallback_language")})
      BY <2>1 DEF When
    <3> QED
      BY <1>1, <2>1, <3>1, SetIsSection
  <2>2. CASE Value(d, "fallback_language") \in Value(d, "languages")
    BY <2>2, NothingIsSection DEF When
  <2> QED
    BY <2>1, <2>2
<1> HIDE DEF e
<1>6. /\ Section(e, f, {"cookie_max_age"})
      /\ Checked(f, {"cookie_max_age"}, {})
      /\ Checked(e, {"cookie_max_age"}, {}) => Same(f, e)
  BY CheckPlain DEF Plain
<1> HIDE DEF f
<1>7. ValidateI18n(c) = f
  BY DEF ValidateI18n, a, b, d, e, f
<1>8. Section(c, f, I18nNames)
  <2>1. Section(c, a, I18nNames) /\ Section(a, b, I18nNames) /\ Section(b, d, I18nNames)
    BY <1>2, <1>3, <1>4, WiderSection DEF I18nNames
  <2>2. Section(d, e, I18nNames) /\ Section(e, f, I18nNames)
    BY <1>5, <1>6, WiderSection DEF I18nNames
  <2>3. Section(c, d, I18nNames)
    BY <2>1, SectionsCompose
  <2> QED
    BY <2>2, <2>3, SectionsCompose
<1>9. I18nGood(f)
  BY <1>2, <1>3, <1>4, <1>5, <1>6 DEF I18nGood, Section, KeepsOthers
<1>10. I18nGood(c) => Same(f, c)
  BY <1>2, <1>3, <1>4, <1>5, <1>6 DEF I18nGood, Checked, Same
<1> QED
  BY <1>7, <1>8, <1>9, <1>10


CacheNames == {"pool_size", "min_idle", "cache_type", "cache_host"}
CacheGood(c) ==
    /\ Checked(c, {"pool_size", "min_idle", "cache_type"}, {})
    /\ Value(c, "cache_host") # "unset"
    /\ ~(Value(c, "min_idle") = "high" /\ Value(c, "pool_size") = "low")

LEMMA CacheSection ==
    ASSUME NEW c
    PROVE  /\ Section(c, ValidateCache(c), CacheNames)
           /\ CacheGood(ValidateCache(c))
           /\ CacheGood(c) => Same(ValidateCache(c), c)
<1> DEFINE a == CheckSettings(c, {"pool_size", "min_idle"}, {"cache_type"}, {}, {})
           b == When(Value(a, "cache_host") = "unset", WithSetting(a, "cache_host", "def"), a)
           d == When(Value(b, "min_idle") = "high" /\ Value(b, "pool_size") = "low",
                     WarnAndSet(b, "min_idle", "low"), b)
<1>1. /\ Section(c, a, {"pool_size", "min_idle", "cache_type"})
      /\ Checked(a, {"pool_size", "min_idle", "cache_type"}, {})
      /\ Checked(c, {"pool_size", "min_idle", "cache_type"}, {}) => Same(a, c)
  BY CheckPlain DEF Plain
<1> HIDE DEF a
<1>2. /\ Section(a, b, {"cache_host"})
      /\ (Value(a, "cache_host") = "unset") => Value(b, "cache_host") = "def"
      /\ ~(Value(a, "cache_host") = "unset") => b = a
  BY SetIsSection, NothingIsSection, ValuesFit DEF When
<1> HIDE DEF b
<1>3. /\ Section(b, d, {"min_idle"})
      /\ (Value(b, "min_idle") = "high" /\ Value(b, "pool_size") = "low") => Value(d, "min_idle") = "low"
      /\ ~(Value(b, "min_idle") = "high" /\ Value(b, "pool_size") = "low") => d = b
  BY SetIsSection, NothingIsSection, ValuesFit DEF When
<1> HIDE DEF d
<1>4. ValidateCache(c) = d
  BY DEF ValidateCache, a, b, d
<1>5. Section(c, d, CacheNames)
  <2>1. Section(c, a, CacheNames)
    BY <1>1, WiderSection DEF CacheNames
  <2>2. Section(a, b, CacheNames)
    BY <1>2, WiderSection DEF CacheNames
  <2>3. Section(b, d, CacheNames)
    BY <1>3, WiderSection DEF CacheNames
  <2>4. Section(c, b, CacheNames)
    BY <2>1, <2>2, SectionsCompose
  <2> QED
    BY <2>4, <2>3, SectionsCompose
<1>6. CacheGood(d)
  BY <1>1, <1>2, <1>3 DEF CacheGood, Checked, Section, KeepsOthers
<1>7. CacheGood(c) => Same(d, c)
  BY <1>1, <1>2, <1>3 DEF CacheGood, Checked, Same
<1> QED
  BY <1>4, <1>5, <1>6, <1>7

LogsNames == {"log_level", "format", "rotate", "filename"}
LogsGood(c) ==
    /\ Checked(c, {"log_level", "format", "rotate", "filename"}, {"filename", "rotate"})
    /\ ~(Value(c, "format") = "custom" /\ Value(c, "custom") = "off")

LEMMA LogsSection ==
    ASSUME NEW c
    PROVE  /\ Section(c, ValidateLogs(c), LogsNames)
           /\ LogsGood(ValidateLogs(c))
           /\ LogsGood(c) => Same(ValidateLogs(c), c)
<1> DEFINE a == CheckSettings(c, {"log_level", "format", "rotate"}, {"filename"}, {}, {"filename", "rotate"})
           b == When(Value(a, "format") = "custom" /\ Value(a, "custom") = "off",
                     WarnAndSet(a, "format", "def"), a)
<1>1. /\ Section(c, a, {"log_level", "format", "rotate", "filename"})
      /\ Checked(a, {"log_level", "format", "rotate", "filename"}, {"filename", "rotate"})
      /\ Checked(c, {"log_level", "format", "rotate", "filename"}, {"filename", "rotate"}) => Same(a, c)
  BY CheckPlain DEF Plain
<1> HIDE DEF a
<1>2. /\ Section(a, b, {"format"})
      /\ (Value(a, "format") = "custom" /\ Value(a, "custom") = "off") => Value(b, "format") = "def"
      /\ ~(Value(a, "format") = "custom" /\ Value(a, "custom") = "off") => b = a
  BY SetIsSection, NothingIsSection, ValuesFit DEF When
<1> HIDE DEF b
<1>3. ValidateLogs(c) = b
  BY DEF ValidateLogs, a, b
<1>4. Section(c, b, LogsNames)
  <2>1. Section(c, a, LogsNames)
    BY <1>1, WiderSection DEF LogsNames
  <2>2. Section(a, b, LogsNames)
    BY <1>2, WiderSection DEF LogsNames
  <2> QED
    BY <2>1, <2>2, SectionsCompose
<1>5. LogsGood(b)
  BY <1>1, <1>2 DEF LogsGood, Checked, Section, KeepsOthers
<1>6. LogsGood(c) => Same(b, c)
  BY <1>1, <1>2 DEF LogsGood, Checked, Same
<1> QED
  BY <1>3, <1>4, <1>5, <1>6

DatabaseNames == {"max_open", "max_idle", "database_type", "database_port"}
DatabaseGood(c) ==
    /\ Checked(c, {"max_open", "max_idle", "database_type"}, {})
    /\ Value(c, "database_port") # "bad"
    /\ ~(Value(c, "max_idle") = "high" /\ Value(c, "max_open") = "low")

LEMMA DatabaseSection ==
    ASSUME NEW c
    PROVE  /\ Section(c, ValidateDatabase(c), DatabaseNames)
           /\ DatabaseGood(ValidateDatabase(c))
           /\ DatabaseGood(c) => Same(ValidateDatabase(c), c)
<1> DEFINE a == CheckSettings(c, {"max_open", "max_idle"}, {"database_type"}, {}, {})
           b == When(Value(a, "database_port") = "bad", WarnAndSet(a, "database_port", "unset"), a)
           d == When(Value(b, "max_idle") = "high" /\ Value(b, "max_open") = "low",
                     WarnAndSet(b, "max_idle", "low"), b)
<1>1. /\ Section(c, a, {"max_open", "max_idle", "database_type"})
      /\ Checked(a, {"max_open", "max_idle", "database_type"}, {})
      /\ Checked(c, {"max_open", "max_idle", "database_type"}, {}) => Same(a, c)
  BY CheckPlain DEF Plain
<1> HIDE DEF a
<1>2. /\ Section(a, b, {"database_port"})
      /\ (Value(a, "database_port") = "bad") => Value(b, "database_port") = "unset"
      /\ ~(Value(a, "database_port") = "bad") => b = a
  BY SetIsSection, NothingIsSection, ValuesFit DEF When
<1> HIDE DEF b
<1>3. /\ Section(b, d, {"max_idle"})
      /\ (Value(b, "max_idle") = "high" /\ Value(b, "max_open") = "low") => Value(d, "max_idle") = "low"
      /\ ~(Value(b, "max_idle") = "high" /\ Value(b, "max_open") = "low") => d = b
  BY SetIsSection, NothingIsSection, ValuesFit DEF When
<1> HIDE DEF d
<1>4. ValidateDatabase(c) = d
  BY DEF ValidateDatabase, a, b, d
<1>5. Section(c, d, DatabaseNames)
  <2>1. Section(c, a, DatabaseNames)
    BY <1>1, WiderSection DEF DatabaseNames
  <2>2. Section(a, b, DatabaseNames)
    BY <1>2, WiderSection DEF DatabaseNames
  <2>3. Section(b, d, DatabaseNames)
    BY <1>3, WiderSection DEF DatabaseNames
  <2>4. Section(c, b, DatabaseNames)
    BY <2>1, <2>2, SectionsCompose
  <2> QED
    BY <2>4, <2>3, SectionsCompose
<1>6. DatabaseGood(d)
  BY <1>1, <1>2, <1>3 DEF DatabaseGood, Checked, Section, KeepsOthers
<1>7. DatabaseGood(c) => Same(d, c)
  BY <1>1, <1>2, <1>3 DEF DatabaseGood, Checked, Same
<1> QED
  BY <1>4, <1>5, <1>6, <1>7

ProxiesNames == {"trusted_proxies"}
ProxiesGood(c) ==
    /\ Value(c, "trusted_proxies") \notin {"bad", "raw"}

LEMMA ProxiesSection ==
    ASSUME NEW c
    PROVE  /\ Section(c, ValidateTrustedProxies(c), ProxiesNames)
           /\ ProxiesGood(ValidateTrustedProxies(c))
           /\ ProxiesGood(c) => Same(ValidateTrustedProxies(c), c)
<1> DEFINE a == CheckList(c, "trusted_proxies")
<1>1. /\ Section(c, a, {"trusted_proxies"})
      /\ Value(a, "trusted_proxies") \notin {"bad", "raw"}
      /\ Value(c, "trusted_proxies") # "unset" => Value(a, "trusted_proxies") # "unset"
      /\ Value(c, "trusted_proxies") \notin {"bad", "raw"} => Same(a, c)
  BY ListIsSection, ValuesFit
<1> HIDE DEF a
<1>2. ValidateTrustedProxies(c) = a
  BY DEF ValidateTrustedProxies, a
<1>3. Section(c, a, ProxiesNames)
  BY <1>1, WiderSection DEF ProxiesNames
<1>4. ProxiesGood(a)
  BY <1>1 DEF ProxiesGood, Checked, Section, KeepsOthers
<1>5. ProxiesGood(c) => Same(a, c)
  BY <1>1 DEF ProxiesGood, Checked, Same
<1> QED
  BY <1>2, <1>3, <1>4, <1>5

SSLNames == {"ssl_port", "min_version", "challenge", "cert", "cert_key", "letsencrypt"}
SSLGood(c) ==
    /\ Value(c, "ssl_port") # "bad"
    /\ Value(c, "ssl_port") # Value(c, "port")
    /\ Checked(c, {"min_version", "challenge"}, {})
    /\ Value(c, "cert") = Value(c, "cert_key")
    /\ ~(Value(c, "letsencrypt") = "on" /\ Value(c, "email") = "off")

LEMMA SSLSection ==
    ASSUME NEW c
    PROVE  /\ Section(c, ValidateSSL(c), SSLNames)
           /\ Value(c, "port") # "unset" => SSLGood(ValidateSSL(c))
           /\ SSLGood(c) => Same(ValidateSSL(c), c)
<1> DEFINE a == When(Value(c, "ssl_port") = "bad", WarnAndSet(c, "ssl_port", "unset"), c)
           b == When(Value(a, "ssl_port") = Value(a, "port"), WarnAndSet(a, "ssl_port", "unset"), a)
           d == CheckSettings(b, {}, {"min_version", "challenge"}, {}, {})
           e == When(Value(d, "cert") # Value(d, "cert_key"),
                     WarnAndSet(WithSetting(d, "cert", "off"), "cert_key", "off"), d)
           f == When(Value(e, "letsencrypt") = "on" /\ Value(e, "email") = "off",
                     WarnAndSet(e, "letsencrypt", "off"), e)
<1>1. /\ Section(c, a, {"ssl_port"})
      /\ (Value(c, "ssl_port") = "bad") => Value(a, "ssl_port") = "unset"
      /\ ~(Value(c, "ssl_port") = "bad") => a = c
  BY SetIsSection, NothingIsSection, ValuesFit DEF When
<1> HIDE DEF a
<1>2. /\ Section(a, b, {"ssl_port"})
      /\ (Value(a, "ssl_port") = Value(a, "port")) => Value(b, "ssl_port") = "unset"
      /\ ~(Value(a, "ssl_port") = Value(a, "port")) => b = a
  BY SetIsSection, NothingIsSection, ValuesFit DEF When
<1> HIDE DEF b
<1>3. /\ Section(b, d, {"min_version", "challenge"})
      /\ Checked(d, {"min_version", "challenge"}, {})
      /\ Checked(b, {"min_version", "challenge"}, {}) => Same(d, b)
  BY CheckPlain DEF Plain
<1> HIDE DEF d
<1>4. /\ Section(d, e, {"cert", "cert_key"})
      /\ (Value(d, "cert") # Value(d, "cert_key"))
            => Value(e, "cert") = "off" /\ Value(e, "cert_key") = "off"
      /\ ~(Value(d, "cert") # Value(d, "cert_key")) => e = d
  <2> DEFINE one == WithSetting(d, "cert", "off")
             two == WarnAndSet(one, "cert_key", "off")
  <2>1. Fits("cert", "off") /\ Fits("cert_key", "off")
    BY ValuesFit
  <2>2. Section(d, one, {"cert"}) /\ Value(one, "cert") = "off"
    BY <2>1, SetIsSection
  <2> HIDE DEF one
  <2>3. Section(one, two, {"cert_key"}) /\ Value(two, "cert_key") = "off"
    BY <2>1, SetIsSection
  <2> HIDE DEF two
  <2>4. Section(d, two, {"cert", "cert_key"})
    BY <2>2, <2>3, SectionsCompose
  <2>5. Value(two, "cert") = "off"
    BY <2>2, <2>3 DEF Section, KeepsOthers
  <2> QED
    BY <2>3, <2>4, <2>5, NothingIsSection DEF When, one, two
<1> HIDE DEF e
<1>5. /\ Section(e, f, {"letsencrypt"})
      /\ (Value(e, "letsencrypt") = "on" /\ Value(e, "email") = "off") => Value(f, "letsencrypt") = "off"
      /\ ~(Value(e, "letsencrypt") = "on" /\ Value(e, "email") = "off") => f = e
  BY SetIsSection, NothingIsSection, ValuesFit DEF When
<1> HIDE DEF f
<1>6. ValidateSSL(c) = f
  BY DEF ValidateSSL, a, b, d, e, f
<1>7. Section(c, f, SSLNames)
  <2>1. Section(c, a, SSLNames)
    BY <1>1, WiderSection DEF SSLNames
  <2>2. Section(a, b, SSLNames)
    BY <1>2, WiderSection DEF SSLNames
  <2>3. Section(b, d, SSLNames)
    BY <1>3, WiderSection DEF SSLNames
  <2>4. Section(d, e, SSLNames)
    BY <1>4, WiderSection DEF SSLNames
  <2>5. Section(e, f, SSLNames)
    BY <1>5, WiderSection DEF SSLNames
  <2>6. Section(c, b, SSLNames)
    BY <2>1, <2>2, SectionsCompose
  <2>7. Section(c, d, SSLNames)
    BY <2>6, <2>3, SectionsCompose
  <2>8. Section(c, e, SSLNames)
    BY <2>7, <2>4, SectionsCompose
  <2> QED
    BY <2>8, <2>5, SectionsCompose
<1>8. Value(c, "port") # "unset" => SSLGood(f)
  BY <1>1, <1>2, <1>3, <1>4, <1>5 DEF SSLGood, Checked, Section, KeepsOthers
<1>9. SSLGood(c) => Same(f, c)
  BY <1>1, <1>2, <1>3, <1>4, <1>5 DEF SSLGood, Checked, Same
<1> QED
  BY <1>6, <1>7, <1>8, <1>9

WebNames == {"exempt_paths", "hsts_age", "preload"}
WebGood(c) ==
    /\ Value(c, "exempt_paths") \notin {"unset", "bad", "raw"}
    /\ Checked(c, {"hsts_age"}, {})
    /\ ~(/\ Value(c, "preload") = "on"
         /\ Value(c, "include_subdomains") = "off" \/ Value(c, "hsts_age") = "low")

LEMMA WebSection ==
    ASSUME NEW c
    PROVE  /\ Section(c, ValidateWeb(c), WebNames)
           /\ WebGood(ValidateWeb(c))
           /\ WebGood(c) => Same(ValidateWeb(c), c)
<1> DEFINE a == When(Value(c, "exempt_paths") = "unset", WithSetting(c, "exempt_paths", "def"), c)
           b == CheckList(a, "exempt_paths")
           d == CheckSettings(b, {"hsts_age"}, {}, {}, {})
           e == When(Value(d, "preload") = "on" /\ (Value(d, "include_subdomains") = "off" \/ Value(d, "hsts_age") = "low"),
                     WarnAndSet(d, "preload", "off"), d)
<1>1. /\ Section(c, a, {"exempt_paths"})
      /\ (Value(c, "exempt_paths") = "unset") => Value(a, "exempt_paths") = "def"
      /\ ~(Value(c, "exempt_paths") = "unset") => a = c
  BY SetIsSection, NothingIsSection, ValuesFit DEF When
<1> HIDE DEF a
<1>2. /\ Section(a, b, {"exempt_paths"})
      /\ Value(b, "exempt_paths") \notin {"bad", "raw"}
      /\ Value(a, "exempt_paths") # "unset" => Value(b, "exempt_paths") # "unset"
      /\ Value(a, "exempt_paths") \notin {"bad", "raw"} => Same(b, a)
  BY ListIsSection, ValuesFit
<1> HIDE DEF b
<1>3. /\ Section(b, d, {"hsts_age"})
      /\ Checked(d, {"hsts_age"}, {})
      /\ Checked(b, {"hsts_age"}, {}) => Same(d, b)
  BY CheckPlain DEF Plain
<1> HIDE DEF d
<1>4. /\ Section(d, e, {"preload"})
      /\ (Value(d, "preload") = "on" /\ (Value(d, "include_subdomains") = "off" \/ Value(d, "hsts_age") = "low"))
            => Value(e, "preload") = "off"
      /\ ~(Value(d, "preload") = "on" /\ (Value(d, "include_subdomains") = "off" \/ Value(d, "hsts_age") = "low"))
            => e = d
  BY SetIsSection, NothingIsSection, ValuesFit DEF When
<1> HIDE DEF e
<1>5. ValidateWeb(c) = e
  BY DEF ValidateWeb, a, b, d, e
<1>6. Section(c, e, WebNames)
  <2>1. Section(c, a, WebNames)
    BY <1>1, WiderSection DEF WebNames
  <2>2. Section(a, b, WebNames)
    BY <1>2, WiderSection DEF WebNames
  <2>3. Section(b, d, WebNames)
    BY <1>3, WiderSection DEF WebNames
  <2>4. Section(d, e, WebNames)
    BY <1>4, WiderSection DEF WebNames
  <2>5. Section(c, b, WebNames)
    BY <2>1, <2>2, SectionsCompose
  <2>6. Section(c, d, WebNames)
    BY <2>5, <2>3, SectionsCompose
  <2> QED
    BY <2>6, <2>4, SectionsCompose
<1>7. WebGood(e)
  BY <1>1, <1>2, <1>3, <1>4 DEF WebGood, Checked, Section, KeepsOthers
<1>8. WebGood(c) => Same(e, c)
  BY <1>1, <1>2, <1>3, <1>4 DEF WebGood, Checked, Same
<1> QED
  BY <1>5, <1>6, <1>7, <1>8

UsersNames == {"registration_mode", "visibility", "password_min_length", "max_per_user", "allow_2fa"}
UsersGood(c) ==
    /\ Checked(c, {"registration_mode", "visibility", "password_min_length"}, {})
    /\ Value(c, "max_per_user") # "bad"
    /\ ~(Value(c, "require_2fa") = "on" /\ Value(c, "allow_2fa") = "off")

LEMMA UsersSection ==
    ASSUME NEW c
    PROVE  /\ Section(c, ValidateUsers(c), UsersNames)
           /\ UsersGood(ValidateUsers(c))
           /\ UsersGood(c) => Same(ValidateUsers(c), c)
<1> DEFINE a == CheckSettings(c, {"registration_mode", "visibility", "password_min_length"}, {}, {}, {})
           b == When(Value(a, "max_per_user") = "bad", WarnAndSet(a, "max_per_user", "def"), a)
           d == When(Value(b, "require_2fa") = "on" /\ Value(b, "allow_2fa") = "off",
                     WarnAndSet(b, "allow_2fa", "on"), b)
<1>1. /\ Section(c, a, {"registration_mode", "visibility", "password_min_length"})
      /\ Checked(a, {"registration_mode", "visibility", "password_min_length"}, {})
      /\ Checked(c, {"registration_mode", "visibility", "password_min_length"}, {}) => Same(a, c)
  BY CheckPlain DEF Plain
<1> HIDE DEF a
<1>2. /\ Section(a, b, {"max_per_user"})
      /\ (Value(a, "max_per_user") = "bad") => Value(b, "max_per_user") = "def"
      /\ ~(Value(a, "max_per_user") = "bad") => b = a
  BY SetIsSection, NothingIsSection, ValuesFit DEF When
<1> HIDE DEF b
<1>3. /\ Section(b, d, {"allow_2fa"})
      /\ (Value(b, "require_2fa") = "on" /\ Value(b, "allow_2fa") = "off")
            => Value(d, "allow_2fa") = "on"
      /\ ~(Value(b, "require_2fa") = "on" /\ Value(b, "allow_2fa") = "off") => d = b
  BY SetIsSection, NothingIsSection, ValuesFit DEF When
<1> HIDE DEF d
<1>4. ValidateUsers(c) = d
  BY DEF ValidateUsers, a, b, d
<1>5. Section(c, d, UsersNames)
  <2>1. Section(c, a, UsersNames)
    BY <1>1, WiderSection DEF UsersNames
  <2>2. Section(a, b, UsersNames)
    BY <1>2, WiderSection DEF UsersNames
  <2>3. Section(b, d, UsersNames)
    BY <1>3, WiderSection DEF UsersNames
  <2>4. Section(c, b, UsersNames)
    BY <2>1, <2>2, SectionsCompose
  <2> QED
    BY <2>4, <2>3, SectionsCompose
<1>6. UsersGood(d)
  BY <1>1, <1>2, <1>3 DEF UsersGood, Checked, Section, KeepsOthers
<1>7. UsersGood(c) => Same(d, c)
  BY <1>1, <1>2, <1>3 DEF UsersGood, Checked, Same
<1> QED
  BY <1>4, <1>5, <1>6, <1>7

OrgsNames == {"orgs", "creation_mode", "default_role"}
OrgsGood(c) ==
    /\ ~(Value(c, "orgs") = "on" /\ Value(c, "users") = "off")
    /\ Checked(c, {"creation_mode", "default_role"}, {})
    /\ Value(c, "default_role") # "owner"

LEMMA OrgsSection ==
    ASSUME NEW c
    PROVE  /\ Section(c, ValidateOrgs(c), OrgsNames)
           /\ OrgsGood(ValidateOrgs(c))
           /\ OrgsGood(c) => Same(ValidateOrgs(c), c)
<1> DEFINE a == When(Value(c, "orgs") = "on" /\ Value(c, "users") = "off",
                     WarnAndSet(c, "orgs", "off"), c)
           b == CheckSettings(a, {"creation_mode", "default_role"}, {}, {}, {})
           d == When(Value(b, "default_role") = "owner", WarnAndSet(b, "default_role", "def"), b)
<1>1. /\ Section(c, a, {"orgs"})
      /\ (Value(c, "orgs") = "on" /\ Value(c, "users") = "off") => Value(a, "orgs") = "off"
      /\ ~(Value(c, "orgs") = "on" /\ Value(c, "users") = "off") => a = c
  BY SetIsSection, NothingIsSection, ValuesFit DEF When
<1> HIDE DEF a
<1>2. /\ Section(a, b, {"creation_mode", "default_role"})
      /\ Checked(b, {"creation_mode", "default_role"}, {})
      /\ Checked(a, {"creation_mode", "default_role"}, {}) => Same(b, a)
  BY CheckPlain DEF Plain
<1> HIDE DEF b
<1>3. /\ Section(b, d, {"default_role"})
      /\ (Value(b, "default_role") = "owner") => Value(d, "default_role") = "def"
      /\ ~(Value(b, "default_role") = "owner") => d = b
  BY SetIsSection, NothingIsSection, ValuesFit DEF When
<1> HIDE DEF d
<1>4. ValidateOrgs(c) = d
  BY DEF ValidateOrgs, a, b, d
<1>5. Section(c, d, OrgsNames)
  <2>1. Section(c, a, OrgsNames)
    BY <1>1, WiderSection DEF OrgsNames
  <2>2. Section(a, b, OrgsNames)
    BY <1>2, WiderSection DEF OrgsNames
  <2>3. Section(b, d, OrgsNames)
    BY <1>3, WiderSection DEF OrgsNames
  <2>4. Section(c, b, OrgsNames)
    BY <2>1, <2>2, SectionsCompose
  <2> QED
    BY <2>4, <2>3, SectionsCompose
<1>6. OrgsGood(d)
  BY <1>1, <1>2, <1>3 DEF OrgsGood, Checked, Section, KeepsOthers
<1>7. OrgsGood(c) => Same(d, c)
  BY <1>1, <1>2, <1>3 DEF OrgsGood, Checked, Same
<1> QED
  BY <1>4, <1>5, <1>6, <1>7

DomainNames == {"custom_domains", "apex", "subdomain", "verification_ttl", "blocked_patterns"}
DomainGood(c) ==
    /\ ~(Value(c, "custom_domains") = "on" /\ Value(c, "orgs") = "off")
    /\ ~(\A s \in {"apex", "subdomain", "wildcard"} : Value(c, s) = "off")
    /\ Checked(c, {"verification_ttl"}, {})
    /\ Value(c, "blocked_patterns") \notin {"bad", "raw"}

LEMMA DomainSection ==
    ASSUME NEW c
    PROVE  /\ Section(c, ValidateCustomDomains(c), DomainNames)
           /\ DomainGood(ValidateCustomDomains(c))
           /\ DomainGood(c) => Same(ValidateCustomDomains(c), c)
<1> DEFINE a == When(Value(c, "custom_domains") = "on" /\ Value(c, "orgs") = "off",
                     WarnAndSet(c, "custom_domains", "off"), c)
           b == When(\A s \in {"apex", "subdomain", "wildcard"} : Value(a, s) = "off",
                     WarnAndSet(WithSetting(a, "apex", "on"), "subdomain", "on"), a)
           d == CheckSettings(b, {"verification_ttl"}, {}, {}, {})
           e == CheckList(d, "blocked_patterns")
<1>1. /\ Section(c, a, {"custom_domains"})
      /\ (Value(c, "custom_domains") = "on" /\ Value(c, "orgs") = "off")
            => Value(a, "custom_domains") = "off"
      /\ ~(Value(c, "custom_domains") = "on" /\ Value(c, "orgs") = "off") => a = c
  BY SetIsSection, NothingIsSection, ValuesFit DEF When
<1> HIDE DEF a
<1>2. /\ Section(a, b, {"apex", "subdomain"})
      /\ (\A s \in {"apex", "subdomain", "wildcard"} : Value(a, s) = "off")
            => Value(b, "apex") = "on" /\ Value(b, "subdomain") = "on"
      /\ ~(\A s \in {"apex", "subdomain", "wildcard"} : Value(a, s) = "off") => b = a
  <2> DEFINE one == WithSetting(a, "apex", "on")
             two == WarnAndSet(one, "subdomain", "on")
  <2>1. Fits("apex", "on") /\ Fits("subdomain", "on")
    BY ValuesFit
  <2>2. Section(a, one, {"apex"}) /\ Value(one, "apex") = "on"
    BY <2>1, SetIsSection
  <2> HIDE DEF one
  <2>3. Section(one, two, {"subdomain"}) /\ Value(two, "subdomain") = "on"
    BY <2>1, SetIsSection
  <2> HIDE DEF two
  <2>4. Section(a, two, {"apex", "subdomain"})
    BY <2>2, <2>3, SectionsCompose
  <2>5. Value(two, "apex") = "on"
    BY <2>2, <2>3 DEF Section, KeepsOthers
  <2> QED
    BY <2>3, <2>4, <2>5, NothingIsSection DEF When, one, two
<1> HIDE DEF b
<1>3. /\ Section(b, d, {"verification_ttl"})
      /\ Checked(d, {"verification_ttl"}, {})
      /\ Checked(b, {"verification_ttl"}, {}) => Same(d, b)
  BY CheckPlain DEF Plain
<1> HIDE DEF d
<1>4. /\ Section(d, e, {"blocked_patterns"})
      /\ Value(e, "blocked_patterns") \notin {"bad", "raw"}
      /\ Value(d, "blocked_patterns") # "unset" => Value(e, "blocked_patterns") # "unset"
      /\ Value(d, "blocked_patterns") \notin {"bad", "raw"} => Same(e, d)
  BY ListIsSection, ValuesFit
<1> HIDE DEF e
<1>5. ValidateCustomDomains(c) = e
  BY DEF ValidateCustomDomains, a, b, d, e
<1>6. Section(c, e, DomainNames)
  <2>1. Section(c, a, DomainNames)
    BY <1>1, WiderSection DEF DomainNames
  <2>2. Section(a, b, DomainNames)
    BY <1>2, WiderSection DEF DomainNames
  <2>3. Section(b, d, DomainNames)
    BY <1>3, WiderSection DEF DomainNames
  <2>4. Section(d, e, DomainNames)
    BY <1>4, WiderSection DEF DomainNames
  <2>5. Section(c, b, DomainNames)
    BY <2>1, <2>2, SectionsCompose
  <2>6. Section(c, d, DomainNames)
    BY <2>5, <2>3, SectionsCompose
  <2> QED
    BY <2>6, <2>4, SectionsCompose
<1>7. DomainGood(e)
  BY <1>1, <1>2, <1>3, <1>4 DEF DomainGood, Checked, Section, KeepsOthers
<1>8. DomainGood(c) => Same(e, c)
  BY <1>1, <1>2, <1>3, <1>4 DEF DomainGood, Checked, Same
<1> QED
  BY <1>5, <1>6, <1>7, <1>8

NotificationNames == {"position", "smtp_port", "smtp_tls"}
NotificationGood(c) ==
    /\ Checked(c, {"position", "smtp_port", "smtp_tls"}, {"position", "smtp_tls"})

LEMMA NotificationSection ==
    ASSUME NEW c
    PROVE  /\ Section(c, ValidateNotifications(c), NotificationNames)
           /\ NotificationGood(ValidateNotifications(c))
           /\ NotificationGood(c) => Same(ValidateNotifications(c), c)
<1> DEFINE a == CheckSettings(c, {"position"}, {"smtp_port", "smtp_tls"}, {}, {"position", "smtp_tls"})
<1>1. /\ Section(c, a, {"position", "smtp_port", "smtp_tls"})
      /\ Checked(a, {"position", "smtp_port", "smtp_tls"}, {"position", "smtp_tls"})
      /\ Checked(c, {"position", "smtp_port", "smtp_tls"}, {"position", "smtp_tls"}) => Same(a, c)
  BY CheckPlain DEF Plain
<1> HIDE DEF a
<1>2. ValidateNotifications(c) = a
  BY DEF ValidateNotifications, a
<1>3. Section(c, a, NotificationNames)
  BY <1>1, WiderSection DEF NotificationNames
<1>4. NotificationGood(a)
  BY <1>1 DEF NotificationGood, Checked, Section, KeepsOthers
<1>5. NotificationGood(c) => Same(a, c)
  BY <1>1 DEF NotificationGood, Checked, Same
<1> QED
  BY <1>2, <1>3, <1>4, <1>5

SchedulerNames == {"timezone", "max_backups", "catch_up", "schedule", "max_total_size"}
SchedulerGood(c) ==
    /\ Checked(c, {"timezone", "max_backups"}, {"timezone"})
    /\ Value(c, "catch_up") # "bad"
    /\ Value(c, "schedule") # "unset"
    /\ Value(c, "max_total_size") # "unset"

LEMMA SchedulerSection ==
    ASSUME NEW c
    PROVE  /\ Section(c, ValidateScheduler(c), SchedulerNames)
           /\ SchedulerGood(ValidateScheduler(c))
           /\ SchedulerGood(c) => Same(ValidateScheduler(c), c)
<1> DEFINE a == CheckSettings(c, {}, {"timezone"}, {"max_backups"}, {"timezone"})
           b == When(Value(a, "catch_up") = "bad", WarnAndSet(a, "catch_up", "def"), a)
           d == When(Value(b, "schedule") = "unset", WithSetting(b, "schedule", "def"), b)
           e == When(Value(d, "max_total_size") = "unset", WithSetting(d, "max_total_size", "def"), d)
           f == When(Value(e, "max_backups") = "over", Warned(e), e)
<1>1. /\ Section(c, a, {"timezone", "max_backups"})
      /\ Checked(a, {"timezone", "max_backups"}, {"timezone"})
      /\ Checked(c, {"timezone", "max_backups"}, {"timezone"}) => Same(a, c)
  BY CheckPlain DEF Plain
<1> HIDE DEF a
<1>2. /\ Section(a, b, {"catch_up"})
      /\ (Value(a, "catch_up") = "bad") => Value(b, "catch_up") = "def"
      /\ ~(Value(a, "catch_up") = "bad") => b = a
  BY SetIsSection, NothingIsSection, ValuesFit DEF When
<1> HIDE DEF b
<1>3. /\ Section(b, d, {"schedule"})
      /\ (Value(b, "schedule") = "unset") => Value(d, "schedule") = "def"
      /\ ~(Value(b, "schedule") = "unset") => d = b
  BY SetIsSection, NothingIsSection, ValuesFit DEF When
<1> HIDE DEF d
<1>4. /\ Section(d, e, {"max_total_size"})
      /\ (Value(d, "max_total_size") = "unset") => Value(e, "max_total_size") = "def"
      /\ ~(Value(d, "max_total_size") = "unset") => e = d
  BY SetIsSection, NothingIsSection, ValuesFit DEF When
<1> HIDE DEF e
<1>5. /\ Section(e, f, {})
      /\ Same(f, e)
  BY WarnIsSection, NothingIsSection DEF When
<1> HIDE DEF f
<1>6. ValidateScheduler(c) = f
  BY DEF ValidateScheduler, a, b, d, e, f
<1>7. Section(c, f, SchedulerNames)
  <2>1. Section(c, a, SchedulerNames)
    BY <1>1, WiderSection DEF SchedulerNames
  <2>2. Section(a, b, SchedulerNames)
    BY <1>2, WiderSection DEF SchedulerNames
  <2>3. Section(b, d, SchedulerNames)
    BY <1>3, WiderSection DEF SchedulerNames
  <2>4. Section(d, e, SchedulerNames)
    BY <1>4, WiderSection DEF SchedulerNames
  <2>5. Section(e, f, SchedulerNames)
    BY <1>5, WiderSection DEF SchedulerNames
  <2>6. Section(c, b, SchedulerNames)
    BY <2>1, <2>2, SectionsCompose
  <2>7. Section(c, d, SchedulerNames)
    BY <2>6, <2>3, SectionsCompose
  <2>8. Section(c, e, SchedulerNames)
    BY <2>7, <2>4, SectionsCompose
  <2> QED
    BY <2>8, <2>5, SectionsCompose
<1>8. SchedulerGood(f)
  <2>1. Checked(b, {"timezone", "max_backups"}, {"timezone"}) /\ Value(b, "catch_up") # "bad"
    BY <1>1, <1>2 DEF Checked, Section, KeepsOthers
  <2>2. /\ Checked(e, {"timezone", "max_backups"}, {"timezone"}) /\ Value(e, "catch_up") # "bad"
        /\ Value(e, "schedule") # "unset" /\ Value(e, "max_total_size") # "unset"
    BY <1>3, <1>4, <2>1 DEF Checked, Section, KeepsOthers
  <2> QED
    BY <1>5, <2>2 DEF SchedulerGood, Checked, Same
<1>9. ASSUME SchedulerGood(c) PROVE Same(f, c)
  <2>1. Same(a, c) /\ b = a
    BY <1>1, <1>2, <1>9 DEF SchedulerGood, Same
  <2>2. d = b /\ e = d
    BY <1>3, <1>4, <1>9, <2>1 DEF SchedulerGood, Same
  <2> QED
    BY <1>5, <2>1, <2>2 DEF Same
<1> QED
  BY <1>6, <1>7, <1>8, <1>9

GeoIPNames == {"deny", "allow"}
GeoIPGood(c) ==
    /\ Value(c, "deny") \notin {"bad", "raw"}
    /\ Value(c, "allow") \notin {"bad", "raw"}

LEMMA GeoIPSection ==
    ASSUME NEW c
    PROVE  /\ Section(c, ValidateGeoIP(c), GeoIPNames)
           /\ GeoIPGood(ValidateGeoIP(c))
           /\ GeoIPGood(c) => Same(ValidateGeoIP(c), c)
<1> DEFINE a == CheckList(c, "deny")
           b == CheckList(a, "allow")
           d == When(\/ Cardinality({s \in {"deny", "allow"} : Value(b, s) # "unset"}) = 2
                     \/ ({s \in {"deny", "allow"} : Value(b, s) # "unset"} # {} /\ Value(b, "country_db") = "off"),
                     Warned(b), b)
<1>1. /\ Section(c, a, {"deny"})
      /\ Value(a, "deny") \notin {"bad", "raw"}
      /\ Value(c, "deny") # "unset" => Value(a, "deny") # "unset"
      /\ Value(c, "deny") \notin {"bad", "raw"} => Same(a, c)
  BY ListIsSection, ValuesFit
<1> HIDE DEF a
<1>2. /\ Section(a, b, {"allow"})
      /\ Value(b, "allow") \notin {"bad", "raw"}
      /\ Value(a, "allow") # "unset" => Value(b, "allow") # "unset"
      /\ Value(a, "allow") \notin {"bad", "raw"} => Same(b, a)
  BY ListIsSection, ValuesFit
<1> HIDE DEF b
<1>3. /\ Section(b, d, {})
      /\ Same(d, b)
  BY WarnIsSection, NothingIsSection DEF When
<1> HIDE DEF d
<1>4. ValidateGeoIP(c) = d
  BY DEF ValidateGeoIP, a, b, d
<1>5. Section(c, d, GeoIPNames)
  <2>1. Section(c, a, GeoIPNames)
    BY <1>1, WiderSection DEF GeoIPNames
  <2>2. Section(a, b, GeoIPNames)
    BY <1>2, WiderSection DEF GeoIPNames
  <2>3. Section(b, d, GeoIPNames)
    BY <1>3, WiderSection DEF GeoIPNames
  <2>4. Section(c, b, GeoIPNames)
    BY <2>1, <2>2, SectionsCompose
  <2> QED
    BY <2>4, <2>3, SectionsCompose
<1>6. GeoIPGood(d)
  BY <1>1, <1>2, <1>3 DEF GeoIPGood, Checked, Section, KeepsOthers
<1>7. GeoIPGood(c) => Same(d, c)
  BY <1>1, <1>2, <1>3 DEF GeoIPGood, Checked, Same
<1> QED
  BY <1>4, <1>5, <1>6, <1>7

MetricsNames == {"loki"}
MetricsGood(c) ==
    /\ Checked(c, {"loki"}, {})

LEMMA MetricsSection ==
    ASSUME NEW c
    PROVE  /\ Section(c, ValidateMetrics(c), MetricsNames)
           /\ MetricsGood(ValidateMetrics(c))
           /\ MetricsGood(c) => Same(ValidateMetrics(c), c)
<1> DEFINE a == CheckSettings(c, {}, {}, {"loki"}, {})
<1>1. /\ Section(c, a, {"loki"})
      /\ Checked(a, {"loki"}, {})
      /\ Checked(c, {"loki"}, {}) => Same(a, c)
  BY CheckPlain DEF Plain
<1> HIDE DEF a
<1>2. ValidateMetrics(c) = a
  BY DEF ValidateMetrics, a
<1>3. Section(c, a, MetricsNames)
  BY <1>1, WiderSection DEF MetricsNames
<1>4. MetricsGood(a)
  BY <1>1 DEF MetricsGood, Checked, Section, KeepsOthers
<1>5. MetricsGood(c) => Same(a, c)
  BY <1>1 DEF MetricsGood, Checked, Same
<1> QED
  BY <1>2, <1>3, <1>4, <1>5

BackupOwnNames == {"encryption", "disk_threshold"}
BackupGood(c) ==
    /\ ~(Value(c, "compliance") = "on" /\ Value(c, "encryption") = "off")
    /\ Checked(c, {"disk_threshold"}, {})

LEMMA BackupSection ==
    ASSUME NEW c
    PROVE  /\ Section(c, ValidateBackup(c), BackupOwnNames)
           /\ BackupGood(ValidateBackup(c))
           /\ BackupGood(c) => Same(ValidateBackup(c), c)
<1> DEFINE a == When(Value(c, "compliance") = "on" /\ Value(c, "encryption") = "off",
                     WarnAndSet(c, "encryption", "on"), c)
           b == CheckSettings(a, {}, {"disk_threshold"}, {}, {})
<1>1. /\ Section(c, a, {"encryption"})
      /\ (Value(c, "compliance") = "on" /\ Value(c, "encryption") = "off")
            => Value(a, "encryption") = "on"
      /\ ~(Value(c, "compliance") = "on" /\ Value(c, "encryption") = "off") => a = c
  BY SetIsSection, NothingIsSection, ValuesFit DEF When
<1> HIDE DEF a
<1>2. /\ Section(a, b, {"disk_threshold"})
      /\ Checked(b, {"disk_threshold"}, {})
      /\ Checked(a, {"disk_threshold"}, {}) => Same(b, a)
  BY CheckPlain DEF Plain
<1> HIDE DEF b
<1>3. ValidateBackup(c) = b
  BY DEF ValidateBackup, a, b
<1>4. Section(c, b, BackupOwnNames)
  <2>1. Section(c, a, BackupOwnNames)
    BY <1>1, WiderSection DEF BackupOwnNames
  <2>2. Section(a, b, BackupOwnNames)
    BY <1>2, WiderSection DEF BackupOwnNames
  <2> QED
    BY <2>1, <2>2, SectionsCompose
<1>5. BackupGood(b)
  BY <1>1, <1>2 DEF BackupGood, Checked, Section, KeepsOthers
<1>6. BackupGood(c) => Same(b, c)
  BY <1>1, <1>2 DEF BackupGood, Checked, Same
<1> QED
  BY <1>3, <1>4, <1>5, <1>6

UpdateNames == {"branch", "defer_days"}
UpdateGood(c) ==
    /\ Checked(c, {"branch"}, {"branch"})
    /\ Value(c, "defer_days") # "bad"

LEMMA UpdateSection ==
    ASSUME NEW c
    PROVE  /\ Section(c, ValidateUpdate(c), UpdateNames)
           /\ UpdateGood(ValidateUpdate(c))
           /\ UpdateGood(c) => Same(ValidateUpdate(c), c)
<1> DEFINE a == CheckSettings(c, {}, {"branch"}, {}, {"branch"})
           b == When(Value(a, "defer_days") = "bad", WarnAndSet(a, "defer_days", "def"), a)
<1>1. /\ Section(c, a, {"branch"})
      /\ Checked(a, {"branch"}, {"branch"})
      /\ Checked(c, {"branch"}, {"branch"}) => Same(a, c)
  BY CheckPlain DEF Plain
<1> HIDE DEF a
<1>2. /\ Section(a, b, {"defer_days"})
      /\ (Value(a, "defer_days") = "bad") => Value(b, "defer_days") = "def"
      /\ ~(Value(a, "defer_days") = "bad") => b = a
  BY SetIsSection, NothingIsSection, ValuesFit DEF When
<1> HIDE DEF b
<1>3. ValidateUpdate(c) = b
  BY DEF ValidateUpdate, a, b
<1>4. Section(c, b, UpdateNames)
  <2>1. Section(c, a, UpdateNames)
    BY <1>1, WiderSection DEF UpdateNames
  <2>2. Section(a, b, UpdateNames)
    BY <1>2, WiderSection DEF UpdateNames
  <2> QED
    BY <2>1, <2>2, SectionsCompose
<1>5. UpdateGood(b)
  BY <1>1, <1>2 DEF UpdateGood, Checked, Section, KeepsOthers
<1>6. UpdateGood(c) => Same(b, c)
  BY <1>1, <1>2 DEF UpdateGood, Checked, Same
<1> QED
  BY <1>3, <1>4, <1>5, <1>6

TorNames == {"circuits", "rate", "burst"}
TorGood(c) ==
    /\ Checked(c, {"circuits", "rate", "burst"}, {})
    /\ ~(Value(c, "burst") = "low" /\ Value(c, "rate") = "high")

LEMMA TorSection ==
    ASSUME NEW c
    PROVE  /\ Section(c, ValidateTor(c), TorNames)
           /\ TorGood(ValidateTor(c))
           /\ TorGood(c) => Same(ValidateTor(c), c)
<1> DEFINE a == CheckSettings(c, {}, {"circuits", "rate", "burst"}, {}, {})
           b == When(Value(a, "burst") = "low" /\ Value(a, "rate") = "high",
                     WarnAndSet(WithSetting(a, "rate", "low"), "burst", "high"), a)
<1>1. /\ Section(c, a, {"circuits", "rate", "burst"})
      /\ Checked(a, {"circuits", "rate", "burst"}, {})
      /\ Checked(c, {"circuits", "rate", "burst"}, {}) => Same(a, c)
  BY CheckPlain DEF Plain
<1> HIDE DEF a
<1>2. /\ Section(a, b, {"rate", "burst"})
      /\ (Value(a, "burst") = "low" /\ Value(a, "rate") = "high")
            => Value(b, "rate") = "low" /\ Value(b, "burst") = "high"
      /\ ~(Value(a, "burst") = "low" /\ Value(a, "rate") = "high") => b = a
  <2> DEFINE one == WithSetting(a, "rate", "low")
             two == WarnAndSet(one, "burst", "high")
  <2>1. Fits("rate", "low") /\ Fits("burst", "high")
    BY ValuesFit
  <2>2. Section(a, one, {"rate"}) /\ Value(one, "rate") = "low"
    BY <2>1, SetIsSection
  <2> HIDE DEF one
  <2>3. Section(one, two, {"burst"}) /\ Value(two, "burst") = "high"
    BY <2>1, SetIsSection
  <2> HIDE DEF two
  <2>4. Section(a, two, {"rate", "burst"})
    BY <2>2, <2>3, SectionsCompose
  <2>5. Value(two, "rate") = "low"
    BY <2>2, <2>3 DEF Section, KeepsOthers
  <2> QED
    BY <2>3, <2>4, <2>5, NothingIsSection DEF When, one, two
<1> HIDE DEF b
<1>3. ValidateTor(c) = b
  BY DEF ValidateTor, a, b
<1>4. Section(c, b, TorNames)
  <2>1. Section(c, a, TorNames)
    BY <1>1, WiderSection DEF TorNames
  <2>2. Section(a, b, TorNames)
    BY <1>2, WiderSection DEF TorNames
  <2> QED
    BY <2>1, <2>2, SectionsCompose
<1>5. TorGood(b)
  BY <1>1, <1>2 DEF TorGood, Checked, Section, KeepsOthers
<1>6. TorGood(c) => Same(b, c)
  BY <1>1, <1>2 DEF TorGood, Checked, Same
<1> QED
  BY <1>3, <1>4, <1>5, <1>6

I2PNames == {"sam_address", "hops"}
I2PGood(c) ==
    /\ Checked(c, {"sam_address"}, {})
    /\ Value(c, "hops") # "bad"

LEMMA I2PSection ==
    ASSUME NEW c
    PROVE  /\ Section(c, ValidateI2P(c), I2PNames)
           /\ I2PGood(ValidateI2P(c))
           /\ I2PGood(c) => Same(ValidateI2P(c), c)
<1> DEFINE a == CheckSettings(c, {}, {"sam_address"}, {}, {})
           b == When(Value(a, "hops") = "bad", WarnAndSet(a, "hops", "def"), a)
<1>1. /\ Section(c, a, {"sam_address"})
      /\ Checked(a, {"sam_address"}, {})
      /\ Checked(c, {"sam_address"}, {}) => Same(a, c)
  BY CheckPlain DEF Plain
<1> HIDE DEF a
<1>2. /\ Section(a, b, {"hops"})
      /\ (Value(a, "hops") = "bad") => Value(b, "hops") = "def"
      /\ ~(Value(a, "hops") = "bad") => b = a
  BY SetIsSection, NothingIsSection, ValuesFit DEF When
<1> HIDE DEF b
<1>3. ValidateI2P(c) = b
  BY DEF ValidateI2P, a, b
<1>4. Section(c, b, I2PNames)
  <2>1. Section(c, a, I2PNames)
    BY <1>1, WiderSection DEF I2PNames
  <2>2. Section(a, b, I2PNames)
    BY <1>2, WiderSection DEF I2PNames
  <2> QED
    BY <2>1, <2>2, SectionsCompose
<1>5. I2PGood(b)
  BY <1>1, <1>2 DEF I2PGood, Checked, Section, KeepsOthers
<1>6. I2PGood(c) => Same(b, c)
  BY <1>1, <1>2 DEF I2PGood, Checked, Same
<1> QED
  BY <1>3, <1>4, <1>5, <1>6
(* The order of the sections.                                              *)
CoreNames ==
    ServerNames \cup LimitsNames \cup CompressionNames \cup SessionNames \cup RateNames \cup
    I18nNames \cup CacheNames \cup LogsNames \cup DatabaseNames \cup ProxiesNames
CoreGood(c) ==
    /\ ServerGood(c) /\ LimitsGood(c) /\ CompressionGood(c) /\ SessionGood(c)
    /\ RateGood(c) /\ I18nGood(c) /\ CacheGood(c) /\ LogsGood(c)
    /\ DatabaseGood(c) /\ ProxiesGood(c)

PeopleNames ==
    SSLNames \cup WebNames \cup UsersNames \cup OrgsNames \cup DomainNames
PeopleGood(c) ==
    /\ SSLGood(c) /\ WebGood(c) /\ UsersGood(c) /\ OrgsGood(c)
    /\ DomainGood(c)

TailNames ==
    NotificationNames \cup SchedulerNames \cup GeoIPNames \cup MetricsNames \cup BackupOwnNames
    \cup UpdateNames \cup TorNames \cup I2PNames
TailGood(c) ==
    /\ NotificationGood(c) /\ SchedulerGood(c) /\ GeoIPGood(c) /\ MetricsGood(c)
    /\ BackupGood(c) /\ UpdateGood(c) /\ TorGood(c) /\ I2PGood(c)

CoreReads == CoreNames \cup {"custom"}
PeopleReads ==
    PeopleNames \cup {"port", "email", "include_subdomains", "require_2fa", "users", "wildcard"}

LEMMA CoreKept ==
    ASSUME NEW c, NEW d, NEW own, KeepsOthers(d, c, own), own \cap CoreReads = {}, CoreGood(c)
    PROVE  CoreGood(d)
<1>0. \A s \in CoreReads : Value(d, s) = Value(c, s)
  BY DEF KeepsOthers
<1>1. ServerGood(d)
  BY <1>0 DEF CoreGood, ServerGood, Checked, CoreReads, CoreNames, ServerNames
<1>2. LimitsGood(d)
  BY <1>0 DEF CoreGood, LimitsGood, Checked, CoreReads, CoreNames, LimitsNames
<1>3. CompressionGood(d)
  BY <1>0 DEF CoreGood, CompressionGood, Checked, CoreReads, CoreNames, CompressionNames
<1>4. SessionGood(d)
  BY <1>0 DEF CoreGood, SessionGood, Checked, CoreReads, CoreNames, SessionNames
<1>5. RateGood(d)
  BY <1>0 DEF CoreGood, RateGood, Checked, CoreReads, CoreNames, RateNames
<1>6. I18nGood(d)
  BY <1>0 DEF CoreGood, I18nGood, Checked, CoreReads, CoreNames, I18nNames
<1>7. CacheGood(d)
  BY <1>0 DEF CoreGood, CacheGood, Checked, CoreReads, CoreNames, CacheNames
<1>8. LogsGood(d)
  BY <1>0 DEF CoreGood, LogsGood, Checked, CoreReads, CoreNames, LogsNames
<1>9. DatabaseGood(d)
  BY <1>0 DEF CoreGood, DatabaseGood, Checked, CoreReads, CoreNames, DatabaseNames
<1>10. ProxiesGood(d)
  BY <1>0 DEF CoreGood, ProxiesGood, Checked, CoreReads, CoreNames, ProxiesNames
<1> QED
  BY <1>1, <1>2, <1>3, <1>4, <1>5, <1>6, <1>7, <1>8, <1>9, <1>10 DEF CoreGood

LEMMA PeopleKept ==
    ASSUME NEW c, NEW d, NEW own, KeepsOthers(d, c, own), own \cap PeopleReads = {}, PeopleGood(c)
    PROVE  PeopleGood(d)
<1>0. \A s \in PeopleReads : Value(d, s) = Value(c, s)
  BY DEF KeepsOthers
<1>1. SSLGood(d)
  BY <1>0 DEF PeopleGood, SSLGood, Checked, PeopleReads, PeopleNames, SSLNames
<1>2. WebGood(d)
  BY <1>0 DEF PeopleGood, WebGood, Checked, PeopleReads, PeopleNames, WebNames
<1>3. UsersGood(d)
  BY <1>0 DEF PeopleGood, UsersGood, Checked, PeopleReads, PeopleNames, UsersNames
<1>4. OrgsGood(d)
  BY <1>0 DEF PeopleGood, OrgsGood, Checked, PeopleReads, PeopleNames, OrgsNames
<1>5. DomainGood(d)
  BY <1>0 DEF PeopleGood, DomainGood, Checked, PeopleReads, PeopleNames, DomainNames, OrgsNames
<1> QED
  BY <1>1, <1>2, <1>3, <1>4, <1>5 DEF PeopleGood

LEMMA CoreSection ==
    ASSUME NEW c, NEW random \in {"p3", "p4"}
    PROVE  /\ Section(c, ValidateCore(c, random), CoreNames)
           /\ CoreGood(ValidateCore(c, random))
           /\ CoreGood(c) => Same(ValidateCore(c, random), c)
           /\ ValidateServer(c, random).warned => ValidateCore(c, random).warned
<1> DEFINE c1 == ValidateServer(c, random)
           c2 == ValidateLimits(c1)
           c3 == ValidateCompression(c2)
           c4 == ValidateSession(c3)
           c5 == ValidateRateLimit(c4)
           c6 == ValidateI18n(c5)
           c7 == ValidateCache(c6)
           c8 == ValidateLogs(c7)
           c9 == ValidateDatabase(c8)
           c10 == ValidateTrustedProxies(c9)
<1>0. ValidateCore(c, random) = c10
  BY DEF ValidateCore, After
<1>1. Section(c, c1, ServerNames) /\ ServerGood(c1) /\ (ServerGood(c) => Same(c1, c))
  BY ServerSection
<1>2. Section(c1, c2, LimitsNames) /\ LimitsGood(c2) /\ (LimitsGood(c1) => Same(c2, c1))
  BY LimitsSection
<1>3. Section(c2, c3, CompressionNames) /\ CompressionGood(c3) /\ (CompressionGood(c2) => Same(c3, c2))
  BY CompressionSection
<1>4. Section(c3, c4, SessionNames) /\ SessionGood(c4) /\ (SessionGood(c3) => Same(c4, c3))
  BY SessionSection
<1>5. Section(c4, c5, RateNames) /\ RateGood(c5) /\ (RateGood(c4) => Same(c5, c4))
  BY RateSection
<1>6. Section(c5, c6, I18nNames) /\ I18nGood(c6) /\ (I18nGood(c5) => Same(c6, c5))
  BY I18nSection
<1>7. Section(c6, c7, CacheNames) /\ CacheGood(c7) /\ (CacheGood(c6) => Same(c7, c6))
  BY CacheSection
<1>8. Section(c7, c8, LogsNames) /\ LogsGood(c8) /\ (LogsGood(c7) => Same(c8, c7))
  BY LogsSection
<1>9. Section(c8, c9, DatabaseNames) /\ DatabaseGood(c9) /\ (DatabaseGood(c8) => Same(c9, c8))
  BY DatabaseSection
<1>10. Section(c9, c10, ProxiesNames) /\ ProxiesGood(c10) /\ (ProxiesGood(c9) => Same(c10, c9))
  BY ProxiesSection
<1> HIDE DEF c1, c2, c3, c4, c5, c6, c7, c8, c9, c10
<1>11. Section(c, c10, CoreNames)
  <2>1. Section(c, c1, CoreNames)
    BY <1>1, WiderSection DEF CoreNames
  <2>2. Section(c1, c2, CoreNames)
    BY <1>2, WiderSection DEF CoreNames
  <2>3. Section(c2, c3, CoreNames)
    BY <1>3, WiderSection DEF CoreNames
  <2>4. Section(c3, c4, CoreNames)
    BY <1>4, WiderSection DEF CoreNames
  <2>5. Section(c4, c5, CoreNames)
    BY <1>5, WiderSection DEF CoreNames
  <2>6. Section(c5, c6, CoreNames)
    BY <1>6, WiderSection DEF CoreNames
  <2>7. Section(c6, c7, CoreNames)
    BY <1>7, WiderSection DEF CoreNames
  <2>8. Section(c7, c8, CoreNames)
    BY <1>8, WiderSection DEF CoreNames
  <2>9. Section(c8, c9, CoreNames)
    BY <1>9, WiderSection DEF CoreNames
  <2>10. Section(c9, c10, CoreNames)
    BY <1>10, WiderSection DEF CoreNames
  <2>11. Section(c, c2, CoreNames)
    BY <2>1, <2>2, SectionsCompose
  <2>12. Section(c, c3, CoreNames)
    BY <2>11, <2>3, SectionsCompose
  <2>13. Section(c, c4, CoreNames)
    BY <2>12, <2>4, SectionsCompose
  <2>14. Section(c, c5, CoreNames)
    BY <2>13, <2>5, SectionsCompose
  <2>15. Section(c, c6, CoreNames)
    BY <2>14, <2>6, SectionsCompose
  <2>16. Section(c, c7, CoreNames)
    BY <2>15, <2>7, SectionsCompose
  <2>17. Section(c, c8, CoreNames)
    BY <2>16, <2>8, SectionsCompose
  <2>18. Section(c, c9, CoreNames)
    BY <2>17, <2>9, SectionsCompose
  <2> QED
    BY <2>18, <2>10, SectionsCompose
<1>12. CoreGood(c10)
  <2>1. ServerGood(c10)
    BY <1>1, <1>2, <1>3, <1>4, <1>5, <1>6, <1>7, <1>8, <1>9, <1>10
    DEF ServerGood, Checked, Section, KeepsOthers, LimitsNames, CompressionNames, SessionNames,
      RateNames, I18nNames, CacheNames, LogsNames, DatabaseNames, ProxiesNames
  <2>2. LimitsGood(c10)
    BY <1>2, <1>3, <1>4, <1>5, <1>6, <1>7, <1>8, <1>9, <1>10
    DEF LimitsGood, Checked, Section, KeepsOthers, CompressionNames, SessionNames, RateNames,
      I18nNames, CacheNames, LogsNames, DatabaseNames, ProxiesNames
  <2>3. CompressionGood(c10)
    BY <1>3, <1>4, <1>5, <1>6, <1>7, <1>8, <1>9, <1>10
    DEF CompressionGood, Checked, Section, KeepsOthers, SessionNames, RateNames, I18nNames,
      CacheNames, LogsNames, DatabaseNames, ProxiesNames
  <2>4. SessionGood(c10)
    BY <1>4, <1>5, <1>6, <1>7, <1>8, <1>9, <1>10
    DEF SessionGood, Checked, Section, KeepsOthers, RateNames, I18nNames, CacheNames,
      LogsNames, DatabaseNames, ProxiesNames
  <2>5. RateGood(c10)
    BY <1>5, <1>6, <1>7, <1>8, <1>9, <1>10
    DEF RateGood, Checked, Section, KeepsOthers, I18nNames, CacheNames, LogsNames,
      DatabaseNames, ProxiesNames
  <2>6. I18nGood(c10)
    BY <1>6, <1>7, <1>8, <1>9, <1>10
    DEF I18nGood, Checked, Section, KeepsOthers, CacheNames, LogsNames, DatabaseNames,
      ProxiesNames
  <2>7. CacheGood(c10)
    BY <1>7, <1>8, <1>9, <1>10
    DEF CacheGood, Checked, Section, KeepsOthers, LogsNames, DatabaseNames, ProxiesNames
  <2>8. LogsGood(c10)
    BY <1>8, <1>9, <1>10
    DEF LogsGood, Checked, Section, KeepsOthers, DatabaseNames, ProxiesNames
  <2>9. DatabaseGood(c10)
    BY <1>9, <1>10
    DEF DatabaseGood, Checked, Section, KeepsOthers, ProxiesNames
  <2>10. ProxiesGood(c10)
    BY <1>10
    DEF ProxiesGood, Checked, Section, KeepsOthers
  <2> QED
    BY <2>1, <2>2, <2>3, <2>4, <2>5, <2>6, <2>7, <2>8, <2>9, <2>10 DEF CoreGood
<1>13. ASSUME CoreGood(c) PROVE Same(c10, c)
  <2>1. Same(c1, c)
    BY <1>1, <1>13 DEF CoreGood
  <2>2. Same(c2, c)
    BY <1>2, <1>13, <2>1 DEF CoreGood, LimitsGood, Checked, Same
  <2>3. Same(c3, c)
    BY <1>3, <1>13, <2>2 DEF CoreGood, CompressionGood, Checked, Same
  <2>4. Same(c4, c)
    BY <1>4, <1>13, <2>3 DEF CoreGood, SessionGood, Checked, Same
  <2>5. Same(c5, c)
    BY <1>5, <1>13, <2>4 DEF CoreGood, RateGood, Checked, Same
  <2>6. Same(c6, c)
    BY <1>6, <1>13, <2>5 DEF CoreGood, I18nGood, Checked, Same
  <2>7. Same(c7, c)
    BY <1>7, <1>13, <2>6 DEF CoreGood, CacheGood, Checked, Same
  <2>8. Same(c8, c)
    BY <1>8, <1>13, <2>7 DEF CoreGood, LogsGood, Checked, Same
  <2>9. Same(c9, c)
    BY <1>9, <1>13, <2>8 DEF CoreGood, DatabaseGood, Checked, Same
  <2>10. Same(c10, c)
    BY <1>10, <1>13, <2>9 DEF CoreGood, ProxiesGood, Checked, Same
  <2> QED
    BY <2>10
<1>14. c1.warned => c10.warned
  BY <1>2, <1>3, <1>4, <1>5, <1>6, <1>7, <1>8, <1>9, <1>10 DEF Section
<1> QED
  BY <1>0, <1>11, <1>12, <1>13, <1>14 DEF c1

LEMMA TailSection ==
    ASSUME NEW c
    PROVE  /\ Section(c, ValidateTail(c), TailNames)
           /\ TailGood(ValidateTail(c))
           /\ TailGood(c) => Same(ValidateTail(c), c)
<1> DEFINE c1 == ValidateNotifications(c)
           c2 == ValidateScheduler(c1)
           c3 == ValidateGeoIP(c2)
           c4 == ValidateMetrics(c3)
           c5 == ValidateBackup(c4)
           c6 == ValidateUpdate(c5)
           c7 == ValidateTor(c6)
           c8 == ValidateI2P(c7)
<1>0. ValidateTail(c) = c8
  BY DEF ValidateTail, After
<1>1. Section(c, c1, NotificationNames) /\ NotificationGood(c1) /\ (NotificationGood(c) => Same(c1, c))
  BY NotificationSection
<1>2. Section(c1, c2, SchedulerNames) /\ SchedulerGood(c2) /\ (SchedulerGood(c1) => Same(c2, c1))
  BY SchedulerSection
<1>3. Section(c2, c3, GeoIPNames) /\ GeoIPGood(c3) /\ (GeoIPGood(c2) => Same(c3, c2))
  BY GeoIPSection
<1>4. Section(c3, c4, MetricsNames) /\ MetricsGood(c4) /\ (MetricsGood(c3) => Same(c4, c3))
  BY MetricsSection
<1>5. Section(c4, c5, BackupOwnNames) /\ BackupGood(c5) /\ (BackupGood(c4) => Same(c5, c4))
  BY BackupSection
<1>6. Section(c5, c6, UpdateNames) /\ UpdateGood(c6) /\ (UpdateGood(c5) => Same(c6, c5))
  BY UpdateSection
<1>7. Section(c6, c7, TorNames) /\ TorGood(c7) /\ (TorGood(c6) => Same(c7, c6))
  BY TorSection
<1>8. Section(c7, c8, I2PNames) /\ I2PGood(c8) /\ (I2PGood(c7) => Same(c8, c7))
  BY I2PSection
<1> HIDE DEF c1, c2, c3, c4, c5, c6, c7, c8
<1>9. Section(c, c8, TailNames)
  <2>1. Section(c, c1, TailNames)
    BY <1>1, WiderSection DEF TailNames
  <2>2. Section(c1, c2, TailNames)
    BY <1>2, WiderSection DEF TailNames
  <2>3. Section(c2, c3, TailNames)
    BY <1>3, WiderSection DEF TailNames
  <2>4. Section(c3, c4, TailNames)
    BY <1>4, WiderSection DEF TailNames
  <2>5. Section(c4, c5, TailNames)
    BY <1>5, WiderSection DEF TailNames
  <2>6. Section(c5, c6, TailNames)
    BY <1>6, WiderSection DEF TailNames
  <2>7. Section(c6, c7, TailNames)
    BY <1>7, WiderSection DEF TailNames
  <2>8. Section(c7, c8, TailNames)
    BY <1>8, WiderSection DEF TailNames
  <2>9. Section(c, c2, TailNames)
    BY <2>1, <2>2, SectionsCompose
  <2>10. Section(c, c3, TailNames)
    BY <2>9, <2>3, SectionsCompose
  <2>11. Section(c, c4, TailNames)
    BY <2>10, <2>4, SectionsCompose
  <2>12. Section(c, c5, TailNames)
    BY <2>11, <2>5, SectionsCompose
  <2>13. Section(c, c6, TailNames)
    BY <2>12, <2>6, SectionsCompose
  <2>14. Section(c, c7, TailNames)
    BY <2>13, <2>7, SectionsCompose
  <2> QED
    BY <2>14, <2>8, SectionsCompose
<1>10. TailGood(c8)
  <2>1. NotificationGood(c8)
    BY <1>1, <1>2, <1>3, <1>4, <1>5, <1>6, <1>7, <1>8
    DEF NotificationGood, Checked, Section, KeepsOthers, SchedulerNames, GeoIPNames,
      MetricsNames, BackupOwnNames, UpdateNames, TorNames, I2PNames
  <2>2. SchedulerGood(c8)
    BY <1>2, <1>3, <1>4, <1>5, <1>6, <1>7, <1>8
    DEF SchedulerGood, Checked, Section, KeepsOthers, GeoIPNames, MetricsNames, BackupOwnNames,
      UpdateNames, TorNames, I2PNames
  <2>3. GeoIPGood(c8)
    BY <1>3, <1>4, <1>5, <1>6, <1>7, <1>8
    DEF GeoIPGood, Checked, Section, KeepsOthers, MetricsNames, BackupOwnNames, UpdateNames,
      TorNames, I2PNames
  <2>4. MetricsGood(c8)
    BY <1>4, <1>5, <1>6, <1>7, <1>8
    DEF MetricsGood, Checked, Section, KeepsOthers, BackupOwnNames, UpdateNames, TorNames,
      I2PNames
  <2>5. BackupGood(c8)
    BY <1>5, <1>6, <1>7, <1>8
    DEF BackupGood, Checked, Section, KeepsOthers, UpdateNames, TorNames, I2PNames
  <2>6. UpdateGood(c8)
    BY <1>6, <1>7, <1>8
    DEF UpdateGood, Checked, Section, KeepsOthers, TorNames, I2PNames
  <2>7. TorGood(c8)
    BY <1>7, <1>8
    DEF TorGood, Checked, Section, KeepsOthers, I2PNames
  <2>8. I2PGood(c8)
    BY <1>8
    DEF I2PGood, Checked, Section, KeepsOthers
  <2> QED
    BY <2>1, <2>2, <2>3, <2>4, <2>5, <2>6, <2>7, <2>8 DEF TailGood
<1>11. ASSUME TailGood(c) PROVE Same(c8, c)
  <2>1. Same(c1, c)
    BY <1>1, <1>11 DEF TailGood
  <2>2. Same(c2, c)
    BY <1>2, <1>11, <2>1 DEF TailGood, SchedulerGood, Checked, Same
  <2>3. Same(c3, c)
    BY <1>3, <1>11, <2>2 DEF TailGood, GeoIPGood, Checked, Same
  <2>4. Same(c4, c)
    BY <1>4, <1>11, <2>3 DEF TailGood, MetricsGood, Checked, Same
  <2>5. Same(c5, c)
    BY <1>5, <1>11, <2>4 DEF TailGood, BackupGood, Checked, Same
  <2>6. Same(c6, c)
    BY <1>6, <1>11, <2>5 DEF TailGood, UpdateGood, Checked, Same
  <2>7. Same(c7, c)
    BY <1>7, <1>11, <2>6 DEF TailGood, TorGood, Checked, Same
  <2>8. Same(c8, c)
    BY <1>8, <1>11, <2>7 DEF TailGood, I2PGood, Checked, Same
  <2> QED
    BY <2>8
<1> QED
  BY <1>0, <1>9, <1>10, <1>11

(* The whole of Validate: it makes every section agree, and changes        *)
(* nothing of a configuration in which they do.                            *)
AllNames == CoreNames \cup PeopleNames \cup TailNames
AllGood(c) == CoreGood(c) /\ PeopleGood(c) /\ TailGood(c)

LEMMA ValidateSection ==
    ASSUME NEW c, NEW random \in {"p3", "p4"}
    PROVE  /\ Section(c, Validate(c, random), AllNames)
           /\ AllGood(Validate(c, random))
           /\ AllGood(c) => Same(Validate(c, random), c)
           /\ ValidateServer(c, random).warned => Validate(c, random).warned
<1> DEFINE c0 == ValidateCore(c, random)
           c1 == ValidateSSL(c0)
           c2 == ValidateWeb(c1)
           c3 == ValidateUsers(c2)
           c4 == ValidateOrgs(c3)
           c5 == ValidateCustomDomains(c4)
           c6 == ValidateTail(c5)
<1>0. Validate(c, random) = c6
  BY DEF Validate, After
<1>1. /\ Section(c, c0, CoreNames) /\ CoreGood(c0) /\ (CoreGood(c) => Same(c0, c))
      /\ ValidateServer(c, random).warned => c0.warned
  BY CoreSection
<1>2. /\ Section(c0, c1, SSLNames) /\ (Value(c0, "port") # "unset" => SSLGood(c1))
      /\ SSLGood(c0) => Same(c1, c0)
  BY SSLSection
<1>3. Section(c1, c2, WebNames) /\ WebGood(c2) /\ (WebGood(c1) => Same(c2, c1))
  BY WebSection
<1>4. Section(c2, c3, UsersNames) /\ UsersGood(c3) /\ (UsersGood(c2) => Same(c3, c2))
  BY UsersSection
<1>5. Section(c3, c4, OrgsNames) /\ OrgsGood(c4) /\ (OrgsGood(c3) => Same(c4, c3))
  BY OrgsSection
<1>6. Section(c4, c5, DomainNames) /\ DomainGood(c5) /\ (DomainGood(c4) => Same(c5, c4))
  BY DomainSection
<1>7. Section(c5, c6, TailNames) /\ TailGood(c6) /\ (TailGood(c5) => Same(c6, c5))
  BY TailSection
<1> HIDE DEF c0, c1, c2, c3, c4, c5, c6
<1>8. Section(c0, c5, PeopleNames)
  <2>1. Section(c0, c1, PeopleNames) /\ Section(c1, c2, PeopleNames) /\ Section(c2, c3, PeopleNames)
    BY <1>2, <1>3, <1>4, WiderSection DEF PeopleNames
  <2>2. Section(c3, c4, PeopleNames) /\ Section(c4, c5, PeopleNames)
    BY <1>5, <1>6, WiderSection DEF PeopleNames
  <2>3. Section(c0, c2, PeopleNames)
    BY <2>1, SectionsCompose
  <2>4. Section(c0, c3, PeopleNames)
    BY <2>1, <2>3, SectionsCompose
  <2>5. Section(c0, c4, PeopleNames)
    BY <2>2, <2>4, SectionsCompose
  <2> QED
    BY <2>2, <2>5, SectionsCompose
<1>9. PeopleGood(c5)
  <2>1. SSLGood(c1)
    BY <1>1, <1>2 DEF CoreGood, ServerGood
  <2>2. SSLGood(c5)
    BY <2>1, <1>3, <1>4, <1>5, <1>6
    DEF SSLGood, Checked, Section, KeepsOthers, WebNames, UsersNames, OrgsNames, DomainNames
  <2>3. WebGood(c5)
    BY <1>3, <1>4, <1>5, <1>6
    DEF WebGood, Checked, Section, KeepsOthers, UsersNames, OrgsNames, DomainNames
  <2>4. UsersGood(c5)
    BY <1>4, <1>5, <1>6 DEF UsersGood, Checked, Section, KeepsOthers, OrgsNames, DomainNames
  <2>5. OrgsGood(c5)
    BY <1>5, <1>6 DEF OrgsGood, Checked, Section, KeepsOthers, DomainNames
  <2> QED
    BY <1>6, <2>2, <2>3, <2>4, <2>5 DEF PeopleGood
<1>10. CoreGood(c6) /\ PeopleGood(c6)
  <2>1. PeopleNames \cap CoreReads = {}
    BY DEF PeopleNames, CoreReads, CoreNames, SSLNames, WebNames, UsersNames, OrgsNames,
           DomainNames, ServerNames, LimitsNames, CompressionNames, SessionNames,
           RateNames, I18nNames, CacheNames, LogsNames, DatabaseNames, ProxiesNames
  <2>2. TailNames \cap CoreReads = {}
    BY DEF TailNames, CoreReads, CoreNames, NotificationNames, SchedulerNames, GeoIPNames,
           MetricsNames, BackupOwnNames, UpdateNames, TorNames, I2PNames, ServerNames,
           LimitsNames, CompressionNames, SessionNames, RateNames, I18nNames,
           CacheNames, LogsNames, DatabaseNames, ProxiesNames
  <2>3. TailNames \cap PeopleReads = {}
    BY DEF TailNames, PeopleReads, PeopleNames, NotificationNames, SchedulerNames, GeoIPNames,
           MetricsNames, BackupOwnNames, UpdateNames, TorNames, I2PNames, SSLNames,
           WebNames, UsersNames, OrgsNames, DomainNames
  <2>4. CoreGood(c5)
    BY <1>1, <1>8, <2>1, CoreKept DEF Section
  <2> QED
    BY <1>7, <1>9, <2>2, <2>3, <2>4, CoreKept, PeopleKept DEF Section
<1>11. Section(c, c6, AllNames)
  <2>1. Section(c, c5, CoreNames \cup PeopleNames)
    BY <1>1, <1>8, SectionsCompose
  <2> QED
    BY <2>1, <1>7, SectionsCompose DEF AllNames
<1>12. ASSUME AllGood(c) PROVE Same(c6, c)
  <2>1. Same(c0, c)
    BY <1>1, <1>12 DEF AllGood
  <2>2. Same(c1, c)
    BY <1>2, <1>12, <2>1 DEF AllGood, PeopleGood, SSLGood, Checked, Same
  <2>3. Same(c2, c)
    BY <1>3, <1>12, <2>2 DEF AllGood, PeopleGood, WebGood, Checked, Same
  <2>4. Same(c3, c)
    BY <1>4, <1>12, <2>3 DEF AllGood, PeopleGood, UsersGood, Checked, Same
  <2>5. Same(c4, c)
    BY <1>5, <1>12, <2>4 DEF AllGood, PeopleGood, OrgsGood, Checked, Same
  <2>6. Same(c5, c)
    BY <1>6, <1>12, <2>5 DEF AllGood, PeopleGood, DomainGood, Checked, Same
  <2>7. TailGood(c5)
    BY <1>12, <2>6 DEF AllGood, TailGood, Same, Checked, NotificationGood, SchedulerGood, GeoIPGood, MetricsGood, BackupGood, UpdateGood,
           TorGood, I2PGood
  <2> QED
    BY <1>7, <2>6, <2>7 DEF Same
<1>13. c0.warned => c6.warned
  BY <1>2, <1>3, <1>4, <1>5, <1>6, <1>7 DEF Section
<1> QED
  BY <1>0, <1>1, <1>7, <1>10, <1>11, <1>12, <1>13 DEF AllGood

LEMMA GoodSame == ASSUME NEW c, NEW d, Same(d, c), AllGood(c) PROVE AllGood(d)
<1>1. KeepsOthers(d, c, {})
  BY DEF Same, KeepsOthers
<1>2. CoreGood(d) /\ PeopleGood(d)
  BY <1>1, CoreKept, PeopleKept DEF AllGood
<1>3. TailGood(d)
  BY DEF AllGood, TailGood, Same, Checked, NotificationGood, SchedulerGood, GeoIPGood, MetricsGood,
         BackupGood, UpdateGood, TorGood, I2PGood
<1> QED
  BY <1>2, <1>3 DEF AllGood

(* A random port is only drawn with a warning, so a load that warned of    *)
(* nothing depends on the file alone.                                      *)
LEMMA QuietIsSettled ==
    ASSUME NEW c, NEW r \in {"p3", "p4"}, NEW q \in {"p3", "p4"}, ~Validate(c, r).warned
    PROVE  Validate(c, q) = Validate(c, r)
<1>1. ~ValidateServer(c, r).warned
  BY ValidateSection
<1>2. ValidateServer(c, q) = ValidateServer(c, r)
  <2> DEFINE d == CheckSettings(c, {}, {"mode", "listen", "admin_path", "api_version"},
                                {"base_url", "application_name"}, {})
  <2>1. \A p : ValidateServer(c, p) = IF Value(d, "port") \in {"unset", "bad"} THEN WarnAndSet(d, "port", p) ELSE d
    BY DEF ValidateServer, When
  <2> HIDE DEF d
  <2>2. WarnAndSet(d, "port", r).warned
    BY DEF WarnAndSet, Warned
  <2> QED
    BY <1>1, <2>1, <2>2
<1>3. ValidateCore(c, q) = ValidateCore(c, r)
  BY <1>2 DEF ValidateCore
<1> QED
  BY <1>3 DEF Validate

(* What an operator writes fits its setting, and what Validate agrees with *)
(* is not bad.                                                             *)
LEMMA SettingsFit == \A e \in Settings : Fits(e[1], e[2])
<1> USE DEF AnyOf, Fits, FlagNames, SizedNames, Flag, Sized, Enum, Number, Text, Checkable, CoreChecked,
            PeopleChecked, TailChecked, Unchecked, MayBeBad
<1>1. \A e \in ServerSettings \cup UserSettings \cup OrgSettings : Fits(e[1], e[2])
  BY DEF ServerSettings, UserSettings, OrgSettings
<1>2. \A e \in DomainSettings \cup NotificationSettings \cup SSLSettings : Fits(e[1], e[2])
  BY DEF DomainSettings, NotificationSettings, SSLSettings
<1>3. \A e \in WebSettings \cup LimitSettings \cup SessionSettings \cup RateSettings : Fits(e[1], e[2])
  BY DEF WebSettings, LimitSettings, SessionSettings, RateSettings
<1>4. \A e \in I18nSettings : Fits(e[1], e[2])
  BY DEF I18nSettings, Languages
<1>5. \A e \in CacheSettings \cup LogSettings \cup DatabaseSettings : Fits(e[1], e[2])
  BY DEF CacheSettings, LogSettings, DatabaseSettings
<1>6. \A e \in SchedulerSettings \cup GeoIPSettings \cup MetricsSettings : Fits(e[1], e[2])
  BY DEF SchedulerSettings, GeoIPSettings, MetricsSettings
<1>7. \A e \in BackupSettings \cup UpdateSettings \cup TorSettings \cup I2PSettings : Fits(e[1], e[2])
  BY DEF BackupSettings, UpdateSettings, TorSettings, I2PSettings
<1> HIDE DEF Fits
<1> QED
  BY <1>1, <1>2, <1>3, <1>4, <1>5, <1>6, <1>7 DEF Settings

LEMMA GoodIsNotBad ==
    ASSUME NEW c, Typed(c), AllGood(c)
    PROVE  \A s : s \notin {"languages"} \cup Unchecked => Value(c, s) # "bad"
<1>1. \A s \in CoreChecked : Value(c, s) # "bad"
  BY DEF AllGood, CoreGood, ServerGood, LimitsGood, CompressionGood, SessionGood, RateGood, I18nGood,
         CacheGood, LogsGood, DatabaseGood, ProxiesGood, Checked, CoreChecked
<1>2. \A s \in PeopleChecked : Value(c, s) # "bad"
  BY DEF AllGood, PeopleGood, SSLGood, WebGood, UsersGood, OrgsGood, DomainGood, Checked, PeopleChecked
<1>3. \A s \in TailChecked : Value(c, s) # "bad"
  BY DEF AllGood, TailGood, NotificationGood, SchedulerGood, GeoIPGood, MetricsGood, BackupGood,
         UpdateGood, TorGood, I2PGood, Checked, TailChecked
<1> QED
  BY <1>1, <1>2, <1>3 DEF Typed, Fits, Checkable, MayBeBad

(* Nor is a setting empty that needs a value.                              *)
CoreRequired ==
    {"mode", "listen", "admin_path", "api_version", "base_url", "application_name", "port", "max_body_size",
     "level", "types", "cookie_name", "max_age", "idle_timeout", "secure", "same_site", "bucket",
     "global_burst", "default_language", "fallback_language", "cookie_max_age", "cache_type", "cache_host",
     "pool_size", "min_idle", "log_level", "format", "filename", "rotate", "database_type", "max_open",
     "max_idle"}
PeopleRequired ==
    {"min_version", "challenge", "exempt_paths", "hsts_age", "registration_mode", "visibility",
     "password_min_length", "creation_mode", "default_role", "verification_ttl"}
TailRequired ==
    {"position", "smtp_port", "smtp_tls", "timezone", "max_backups", "schedule", "max_total_size", "loki",
     "disk_threshold", "branch", "circuits", "rate", "burst", "sam_address"}
LEMMA GoodIsNotEmpty ==
    ASSUME NEW c, AllGood(c) PROVE \A s \in Required : Value(c, s) # "unset"
<1>1. \A s \in CoreRequired : Value(c, s) # "unset"
  BY DEF AllGood, CoreGood, ServerGood, LimitsGood, CompressionGood, SessionGood, RateGood, I18nGood,
         CacheGood, LogsGood, DatabaseGood, ProxiesGood, Checked, CoreRequired
<1>2. \A s \in PeopleRequired : Value(c, s) # "unset"
  BY DEF AllGood, PeopleGood, SSLGood, WebGood, UsersGood, OrgsGood, DomainGood, Checked, PeopleRequired
<1>3. \A s \in TailRequired : Value(c, s) # "unset"
  BY DEF AllGood, TailGood, NotificationGood, SchedulerGood, GeoIPGood, MetricsGood, BackupGood,
         UpdateGood, TorGood, I2PGood, Checked, TailRequired
<1>4. Required = CoreRequired \cup PeopleRequired \cup TailRequired
  BY DEF Required, CoreRequired, PeopleRequired, TailRequired
<1> QED
  BY <1>1, <1>2, <1>3, <1>4

(* The configuration of a file, and one that may be in a file.             *)
OfFile(set) == [set |-> set, warned |-> FALSE]
Proper(set) == Typed(OfFile(set)) /\ Canon(OfFile(set))

(* What a start with the given environment makes of a file: what Load      *)
(* returns and what the overlays then add.                                 *)
InitEnv(env, c) ==
    LET a == When("PORT" \in env /\ Value(c, "port") = "unset", WithSetting(c, "port", "p2"), c)
    IN When("LISTEN" \in env /\ Value(a, "listen") = "def", WithSetting(a, "listen", "alt"), a)
Reloaded(env, set, random) == Validate(InitEnv(env, OfFile(set)), random)
Overlay(env, set) ==
    LET a == IF "SMTP_PASSWORD" \in env THEN Put(set, "smtp_password", "env") ELSE set
    IN IF "--port" \in env THEN Put(a, "port", "p1") ELSE a
Settled(env) == env \subseteq {"PORT", "SMTP_PASSWORD"}

LEMMA OfFileSame == ASSUME NEW c PROVE Same(OfFile(c.set), c) /\ (Canon(c) => Canon(OfFile(c.set)))
BY DEF OfFile, Same, Value, Canon

LEMMA PutProper ==
    ASSUME NEW set, NEW s, NEW v, Proper(set), Fits(s, v)
    PROVE  /\ Proper(Put(set, s, v))
           /\ \A t : Value(OfFile(Put(set, s, v)), t) = IF t = s THEN v ELSE Value(OfFile(set), t)
<1>1. /\ \A t : Value(OfFile(Put(set, s, v)), t) = IF t = s THEN v ELSE Value(OfFile(set), t)
      /\ Canon(OfFile(Put(set, s, v)))
  BY PutValue DEF OfFile
<1>2. Typed(OfFile(Put(set, s, v)))
  BY <1>1 DEF Proper, Typed
<1> QED
  BY <1>1, <1>2 DEF Proper

LEMMA FixedFits ==
    /\ Fits("port", "p1") /\ Fits("port", "p2") /\ Fits("listen", "alt") /\ Fits("smtp_password", "env")
    /\ Fits("mode", "alt") /\ Fits("branch", "alt")
BY DEF Fits, FlagNames, SizedNames, Flag, Sized

LEMMA ReloadProper ==
    ASSUME NEW env, NEW set, NEW random \in {"p3", "p4"}, Proper(set)
    PROVE  /\ Proper(Reloaded(env, set, random).set)
           /\ AllGood(OfFile(Reloaded(env, set, random).set))
<1> DEFINE c == OfFile(set)
           a == When("PORT" \in env /\ Value(c, "port") = "unset", WithSetting(c, "port", "p2"), c)
           b == When("LISTEN" \in env /\ Value(a, "listen") = "def", WithSetting(a, "listen", "alt"), a)
           d == Validate(b, random)
<1>1. Typed(a) /\ Canon(a)
  BY SetIsSection, FixedFits DEF Proper, When, Section
<1> HIDE DEF a
<1>2. Typed(b) /\ Canon(b)
  BY <1>1, SetIsSection, FixedFits DEF When, Section
<1>3. Reloaded(env, set, random) = d
  BY DEF Reloaded, InitEnv, a
<1> HIDE DEF b
<1>4. Typed(d) /\ Canon(d) /\ AllGood(d)
  BY <1>2, ValidateSection DEF Section
<1> HIDE DEF d
<1>5. Typed(OfFile(d.set)) /\ Canon(OfFile(d.set)) /\ AllGood(OfFile(d.set))
  BY <1>4, OfFileSame, GoodSame DEF Typed, Same
<1> QED
  BY <1>3, <1>5 DEF Proper

(* A file that agrees is loaded as it is.                                  *)
LEMMA GoodReloads ==
    ASSUME NEW env, NEW set, NEW random \in {"p3", "p4"}, Settled(env), Proper(set), AllGood(OfFile(set))
    PROVE  Reloaded(env, set, random).set = set
<1>1. Value(OfFile(set), "port") # "unset"
  BY DEF AllGood, CoreGood, ServerGood
<1>2. InitEnv(env, OfFile(set)) = OfFile(set)
  BY <1>1 DEF InitEnv, When, Settled
<1>3. /\ Same(Reloaded(env, set, random), OfFile(set)) /\ Canon(Reloaded(env, set, random))
  BY <1>2, ValidateSection DEF Reloaded, Proper, Section
<1> QED
  BY <1>3, SameSets DEF Proper, OfFile

(* What is loaded from a file is loaded again, whether or not the load     *)
(* wrote it back.                                                          *)
LEMMA LoadsAgain ==
    ASSUME NEW env, NEW set, NEW r \in {"p3", "p4"}, NEW q \in {"p3", "p4"}, Settled(env), Proper(set),
           NEW new, new = Reloaded(env, set, r).set \/ (new = set /\ ~Reloaded(env, set, r).warned)
    PROVE  Reloaded(env, new, q).set = Reloaded(env, set, r).set
<1>1. CASE new = Reloaded(env, set, r).set
  BY <1>1, ReloadProper, GoodReloads
<1>2. CASE new = set /\ ~Reloaded(env, set, r).warned
  BY <1>2, QuietIsSettled DEF Reloaded
<1> QED
  BY <1>1, <1>2

(* No section reads the mail password or the encryption key.               *)
LEMMA PasswordUnread ==
    ASSUME NEW c, NEW d, NEW s \in {"smtp_password", "key"}, KeepsOthers(d, c, {s}), AllGood(c)
    PROVE  AllGood(d)
<1>1. {s} \cap CoreReads = {}
  BY DEF CoreReads, CoreNames, ServerNames, LimitsNames, CompressionNames, SessionNames, RateNames,
         I18nNames, CacheNames, LogsNames, DatabaseNames, ProxiesNames
<1>2. {s} \cap PeopleReads = {}
  BY DEF PeopleReads, PeopleNames, SSLNames, WebNames, UsersNames, OrgsNames, DomainNames
<1>3. CoreGood(d) /\ PeopleGood(d)
  BY <1>1, <1>2, CoreKept, PeopleKept DEF AllGood
<1>4. TailGood(d)
  BY DEF AllGood, TailGood, KeepsOthers, Checked, NotificationGood, SchedulerGood, GeoIPGood, MetricsGood,
         BackupGood, UpdateGood, TorGood, I2PGood
<1> QED
  BY <1>3, <1>4 DEF AllGood

LEMMA OverlayProper ==
    ASSUME NEW env, NEW set, Proper(set)
    PROVE  /\ Proper(Overlay(env, set))
           /\ Settled(env) /\ AllGood(OfFile(set)) => AllGood(OfFile(Overlay(env, set)))
<1> DEFINE a == IF "SMTP_PASSWORD" \in env THEN Put(set, "smtp_password", "env") ELSE set
<1>1. Proper(a)
  BY PutProper, FixedFits
<1>2. KeepsOthers(OfFile(a), OfFile(set), {"smtp_password"})
  BY PutProper, FixedFits DEF KeepsOthers
<1>3. Overlay(env, set) = IF "--port" \in env THEN Put(a, "port", "p1") ELSE a
  BY DEF Overlay
<1> HIDE DEF a
<1>4. Proper(Overlay(env, set))
  BY <1>1, <1>3, PutProper, FixedFits
<1>5. ASSUME Settled(env), AllGood(OfFile(set)) PROVE AllGood(OfFile(Overlay(env, set)))
  <2>1. Overlay(env, set) = a
    BY <1>3, <1>5 DEF Settled
  <2>2. AllGood(OfFile(a))
    BY <1>2, <1>5, PasswordUnread
  <2> QED
    BY <2>1, <2>2
<1> QED
  BY <1>4, <1>5

(* A key is generated at most once a start, and stays in the file.         *)
LEMMA PutKey ==
    ASSUME NEW set, NEW k, Proper(set), k \notin {"unset", "bad"}
    PROVE  /\ Proper(Put(set, "key", k)) /\ "key" \in DOMAIN Put(set, "key", k)
           /\ KeepsOthers(OfFile(Put(set, "key", k)), OfFile(set), {"key"})
<1>1. Fits("key", k)
  BY DEF Fits, FlagNames, SizedNames
<1>2. DefaultConfig("key") = "unset"
  BY DEF DefaultConfig
<1>3. "key" \in DOMAIN Put(set, "key", k)
  BY <1>2 DEF Put, OnlyChanges
<1> QED
  BY <1>1, <1>3, PutProper DEF KeepsOthers

(* An overlay that is in place changes nothing when it is laid again.      *)
LEMMA OverlayTwice ==
    ASSUME NEW env, NEW set, Settled(env), Proper(set),
           "SMTP_PASSWORD" \in env => Value(OfFile(set), "smtp_password") = "env"
    PROVE  Overlay(env, set) = set
<1>1. Overlay(env, set) = IF "SMTP_PASSWORD" \in env THEN Put(set, "smtp_password", "env") ELSE set
  BY DEF Overlay, Settled
<1>2. ASSUME "SMTP_PASSWORD" \in env PROVE Put(set, "smtp_password", "env") = set
  <2>1. /\ Same(OfFile(Put(set, "smtp_password", "env")), OfFile(set))
        /\ Proper(Put(set, "smtp_password", "env"))
    BY <1>2, PutProper, FixedFits DEF Same
  <2> QED
    BY <2>1, SameSets DEF Proper, OfFile
<1> QED
  BY <1>1, <1>2

(* The inductive invariant: what is in the file and in memory is proper,   *)
(* keys are counted by starts, what is loaded agrees, and, with an         *)
(* environment that Load's result does not depend on twice, the file, or   *)
(* while a save is under way the memory it will hold, stands for what is   *)
(* in memory and for what the server last ran with.                        *)
Kept == IF cfStage \in Truncating THEN cfMem ELSE cfFile.set
ConfigTyped ==
    /\ cfEnv \subseteq EnvVars /\ Proper(cfFile.set) /\ Proper(cfMem)
    /\ cfKeys \in Nat /\ cfStarts \in Nat /\ cfStarts <= MaxStarts
    /\ cfKeys + (IF cfStage \in {"loading", "loaded", "overlaid"} THEN 1 ELSE 0) <= cfStarts
LoadedAgrees == cfStage \in {"loading", "loaded"} => AllGood(OfFile(cfMem))
FileIsLoaded ==
    cfStage \in {"loading", "loaded"} => \A r \in {"p3", "p4"} : Reloaded(cfEnv, Kept, r).set = cfMem
Overlaid == {"overlaid", "keying", "keyed", "publishing", "unsaved"}
FileIsOverlaid ==
    cfStage \in Overlaid =>
        /\ AllGood(OfFile(cfMem))
        /\ "SMTP_PASSWORD" \in cfEnv => Value(OfFile(cfMem), "smtp_password") = "env"
        /\ \A r \in {"p3", "p4"} : Overlay(cfEnv, Reloaded(cfEnv, Kept, r).set) = cfMem
        /\ cfStage # "overlaid" => "key" \in DOMAIN cfMem
FileRunsAgain ==
    (cfRan.env = cfEnv /\ ~cfTorn) =>
        /\ \A r \in {"p3", "p4"} : Overlay(cfEnv, Reloaded(cfEnv, Kept, r).set) = cfRan.set
        /\ "key" \in DOMAIN cfRan.set
ConfigInv ==
    /\ ConfigTyped /\ LoadedAgrees
    /\ Settled(cfEnv) => FileIsLoaded /\ FileIsOverlaid /\ FileRunsAgain

LEMMA NothingProper == Proper(NothingSet)
<1>1. \A s : Value(OfFile(NothingSet), s) = DefaultConfig(s)
  BY DEF Value, OfFile, NothingSet
<1>2. Canon(OfFile(NothingSet))
  BY DEF Canon, OfFile, NothingSet
<1> QED
  BY <1>1, <1>2, DefaultsFit DEF Proper, Typed

LEMMA NeverRan == ASSUME NEW env, env \subseteq EnvVars PROVE NothingRan.env # env
BY DEF NothingRan, EnvVars

LEMMA EnvIsInit == \A c : ApplyInitEnv(c) = InitEnv(cfEnv, c)
BY DEF ApplyInitEnv, InitEnv

LEMMA ConfigInitInv == ConfigInit => ConfigInv
<1> SUFFICES ASSUME ConfigInit PROVE ConfigInv
  OBVIOUS
<1>1. ConfigTyped /\ LoadedAgrees
  BY NothingProper, ConfigAssumption DEF ConfigInit, ConfigTyped, LoadedAgrees
<1>2. FileIsLoaded /\ FileIsOverlaid /\ FileRunsAgain
  BY NeverRan DEF ConfigInit, FileIsLoaded, FileIsOverlaid, FileRunsAgain, Overlaid
<1> QED
  BY <1>1, <1>2 DEF ConfigInv

LEMMA LoadKeepsConfig ==
    ASSUME ConfigInv, NEW random \in {"p3", "p4"}, Load(random) PROVE ConfigInv'
<1> DEFINE c == Reloaded(cfEnv, cfFile.set, random)
<1>1. /\ cfStage = "stopped" /\ cfStarts < MaxStarts /\ cfStarts' = cfStarts + 1
      /\ UNCHANGED <<cfEnv, cfRan, cfTorn, cfKeys, cfEdits>>
      /\ IF c.warned \/ ~cfFile.exists THEN Save(c.set, "loading", "stopped")
         ELSE cfMem' = c.set /\ cfStage' = "loaded" /\ UNCHANGED cfFile
  BY EnvIsInit DEF Load, Reloaded, OfFile
<1>2. Proper(cfFile.set) /\ Kept = cfFile.set
  BY <1>1 DEF ConfigInv, ConfigTyped, Kept, Truncating
<1>3. Proper(c.set) /\ AllGood(OfFile(c.set))
  BY <1>2, ReloadProper
<1>4. \/ cfStage' = "loading" /\ cfMem' = c.set /\ cfFile' = [exists |-> TRUE, set |-> NothingSet]
      \/ cfStage' = "stopped" /\ cfMem' = NothingSet /\ UNCHANGED cfFile
      \/ ~c.warned /\ cfStage' = "loaded" /\ cfMem' = c.set /\ UNCHANGED cfFile
  <2> HIDE DEF c
  <2> QED
    BY <1>1 DEF Save
<1>5. CASE cfStage' = "stopped" /\ cfMem' = NothingSet /\ UNCHANGED cfFile
  <2>1. ConfigTyped' /\ LoadedAgrees' /\ FileIsLoaded' /\ FileIsOverlaid'
    BY <1>1, <1>5, NothingProper, ConfigAssumption
    DEF ConfigInv, ConfigTyped, LoadedAgrees, FileIsLoaded, FileIsOverlaid, Overlaid
  <2>2. Kept' = Kept
    BY <1>2, <1>5 DEF Kept, Truncating
  <2>3. Settled(cfEnv') => FileRunsAgain'
    BY <1>1, <2>2 DEF ConfigInv, FileRunsAgain
  <2> QED
    BY <2>1, <2>3 DEF ConfigInv
<1>6. CASE /\ cfStage' \in {"loading", "loaded"} /\ cfMem' = c.set
           /\ Kept' = c.set \/ (Kept' = cfFile.set /\ ~c.warned)
           /\ Proper(cfFile'.set)
  <2>1. Settled(cfEnv) => \A q \in {"p3", "p4"} : Reloaded(cfEnv, Kept', q).set = c.set
    BY <1>2, <1>6, LoadsAgain
  <2>2. Settled(cfEnv) /\ cfRan.env = cfEnv /\ ~cfTorn
        => Overlay(cfEnv, c.set) = cfRan.set /\ "key" \in DOMAIN cfRan.set
    BY <1>2 DEF ConfigInv, FileRunsAgain
  <2> HIDE DEF c
  <2>3. ConfigTyped'
    BY <1>1, <1>3, <1>6, ConfigAssumption DEF ConfigInv, ConfigTyped
  <2>4. LoadedAgrees'
    BY <1>3, <1>6 DEF LoadedAgrees
  <2>5. ASSUME Settled(cfEnv') PROVE FileIsLoaded' /\ FileIsOverlaid' /\ FileRunsAgain'
    BY <1>1, <1>6, <2>1, <2>2, <2>5 DEF FileIsLoaded, FileIsOverlaid, FileRunsAgain, Overlaid
  <2> QED
    BY <2>3, <2>4, <2>5 DEF ConfigInv
<1> HIDE DEF c
<1>7. CASE cfStage' = "loading" /\ cfMem' = c.set /\ cfFile' = [exists |-> TRUE, set |-> NothingSet]
  BY <1>6, <1>7, NothingProper DEF Kept, Truncating
<1>8. CASE ~c.warned /\ cfStage' = "loaded" /\ cfMem' = c.set /\ UNCHANGED cfFile
  BY <1>2, <1>6, <1>8 DEF Kept, Truncating
<1> QED
  BY <1>4, <1>5, <1>7, <1>8

(* Writing what was to be saved changes nothing the invariant speaks of.   *)
LEMMA WriteKeeps == ASSUME ConfigInv, WriteSaved PROVE ConfigInv'
<1>1. /\ cfFile' = [exists |-> TRUE, set |-> cfMem]
      /\ UNCHANGED <<cfEnv, cfMem, cfRan, cfTorn, cfKeys, cfEdits, cfStarts>>
      /\ \/ cfStage = "loading" /\ cfStage' = "loaded"
         \/ cfStage \in {"keying", "publishing"} /\ cfStage' = "keyed"
  BY DEF WriteSaved, Saved, Truncating
<1>2. Kept' = Kept
  BY <1>1 DEF Kept, Truncating
<1>3. ConfigTyped' /\ LoadedAgrees'
  BY <1>1 DEF ConfigInv, ConfigTyped, LoadedAgrees
<1>4. ASSUME Settled(cfEnv') PROVE FileIsLoaded' /\ FileIsOverlaid' /\ FileRunsAgain'
  BY <1>1, <1>2, <1>4 DEF ConfigInv, FileIsLoaded, FileIsOverlaid, FileRunsAgain, Overlaid
<1> QED
  BY <1>3, <1>4 DEF ConfigInv

LEMMA RuntimeEnvKeeps == ASSUME ConfigInv, ApplyRuntimeEnv PROVE ConfigInv'
<1>1. /\ cfStage = "loaded" /\ cfStage' = "overlaid"
      /\ UNCHANGED <<cfFile, cfEnv, cfRan, cfTorn, cfKeys, cfEdits, cfStarts>>
      /\ cfMem' = Overlay(cfEnv, cfMem)
  BY DEF ApplyRuntimeEnv, ApplyCLIOverrides, Overlay
<1>2. Proper(cfMem) /\ AllGood(OfFile(cfMem)) /\ Kept' = Kept
  BY <1>1 DEF ConfigInv, ConfigTyped, LoadedAgrees, Kept, Truncating
<1>3. ConfigTyped' /\ LoadedAgrees'
  BY <1>1, <1>2, OverlayProper DEF ConfigInv, ConfigTyped, LoadedAgrees
<1>4. ASSUME Settled(cfEnv') PROVE FileIsLoaded' /\ FileIsOverlaid' /\ FileRunsAgain'
  <2>1. FileIsLoaded'
    BY <1>1 DEF FileIsLoaded
  <2>2. AllGood(OfFile(cfMem'))
    BY <1>1, <1>2, <1>4, OverlayProper
  <2>3. "SMTP_PASSWORD" \in cfEnv => Value(OfFile(cfMem'), "smtp_password") = "env"
    <3>1. "SMTP_PASSWORD" \in cfEnv => cfMem' = Put(cfMem, "smtp_password", "env")
      BY <1>1, <1>4 DEF Overlay, Settled
    <3> QED
      BY <3>1, <1>2, PutProper, FixedFits
  <2>4. \A r \in {"p3", "p4"} : Overlay(cfEnv, Reloaded(cfEnv, Kept, r).set) = cfMem'
    BY <1>1, <1>4 DEF ConfigInv, FileIsLoaded
  <2>5. FileIsOverlaid'
    BY <1>1, <1>2, <2>2, <2>3, <2>4 DEF FileIsOverlaid
  <2>6. FileRunsAgain'
    BY <1>1, <1>2, <1>4 DEF ConfigInv, FileRunsAgain
  <2> QED
    BY <2>1, <2>5, <2>6
<1> QED
  BY <1>3, <1>4 DEF ConfigInv

(* Memory that agrees and holds the overlay is what a start makes of it.   *)
LEMMA MemoryReloads ==
    ASSUME NEW env, NEW set, Settled(env), Proper(set), AllGood(OfFile(set)),
           "SMTP_PASSWORD" \in env => Value(OfFile(set), "smtp_password") = "env"
    PROVE  \A r \in {"p3", "p4"} : Overlay(env, Reloaded(env, set, r).set) = set
<1>1. \A r \in {"p3", "p4"} : Reloaded(env, set, r).set = set
  BY GoodReloads
<1> QED
  BY <1>1, OverlayTwice

LEMMA EnsureKeyKeeps == ASSUME ConfigInv, EnsureEncryptionKey PROVE ConfigInv'
<1>1. cfStage = "overlaid" /\ UNCHANGED <<cfEnv, cfRan, cfTorn, cfEdits, cfStarts>>
  BY DEF EnsureEncryptionKey
<1>2. ConfigTyped /\ Kept = cfFile.set
  BY <1>1 DEF ConfigInv, Kept, Truncating
<1>3. CASE "key" \in DOMAIN cfMem
  <2>1. cfStage' = "keyed" /\ UNCHANGED <<cfMem, cfFile, cfKeys>>
    BY <1>3 DEF EnsureEncryptionKey
  <2>2. ConfigTyped' /\ LoadedAgrees' /\ Kept' = Kept
    BY <1>1, <1>2, <2>1 DEF ConfigTyped, LoadedAgrees, Kept, Truncating
  <2>3. ASSUME Settled(cfEnv') PROVE FileIsLoaded' /\ FileIsOverlaid' /\ FileRunsAgain'
    BY <1>1, <1>3, <2>1, <2>2, <2>3 DEF ConfigInv, FileIsLoaded, FileIsOverlaid, FileRunsAgain, Overlaid
  <2> QED
    BY <2>2, <2>3 DEF ConfigInv
<1>4. CASE "key" \notin DOMAIN cfMem
  <2> DEFINE k == NewKey
             set == Put(cfMem, "key", k)
  <2>1. /\ cfKeys' = cfKeys + 1
        /\ \/ cfMem' = set /\ cfFile' = [exists |-> TRUE, set |-> NothingSet] /\ cfStage' = "keying"
           \/ cfMem' = NothingSet /\ cfStage' = "stopped" /\ UNCHANGED cfFile
    BY <1>4 DEF EnsureEncryptionKey, Save
  <2>2. k \notin {"unset", "bad"}
    BY <1>1, <1>2, ConfigAssumption DEF ConfigTyped, NewKey
  <2> HIDE DEF k
  <2>3. Proper(set) /\ "key" \in DOMAIN set /\ KeepsOthers(OfFile(set), OfFile(cfMem), {"key"})
    BY <1>2, <2>2, PutKey DEF ConfigTyped
  <2> HIDE DEF set
  <2>4. ConfigTyped' /\ LoadedAgrees' /\ FileIsLoaded'
    BY <1>1, <1>2, <2>1, <2>3, NothingProper DEF ConfigTyped, LoadedAgrees, FileIsLoaded
  <2>5. CASE cfMem' = NothingSet /\ cfStage' = "stopped" /\ UNCHANGED cfFile
    <3>1. Kept' = Kept
      BY <1>2, <2>5 DEF Kept, Truncating
    <3> QED
      BY <1>1, <2>4, <2>5, <3>1 DEF ConfigInv, FileIsOverlaid, FileRunsAgain, Overlaid
  <2>6. CASE cfMem' = set /\ cfFile' = [exists |-> TRUE, set |-> NothingSet] /\ cfStage' = "keying"
    <3> SUFFICES ASSUME Settled(cfEnv') PROVE FileIsOverlaid' /\ FileRunsAgain'
      BY <2>4 DEF ConfigInv
    <3>1. Settled(cfEnv) /\ FileIsOverlaid /\ FileRunsAgain
      BY <1>1 DEF ConfigInv
    <3>2. AllGood(OfFile(set))
      BY <1>1, <2>3, <3>1, PasswordUnread DEF FileIsOverlaid, Overlaid
    <3>3. "SMTP_PASSWORD" \in cfEnv => Value(OfFile(set), "smtp_password") = "env"
      BY <1>1, <2>3, <3>1 DEF FileIsOverlaid, KeepsOthers, Overlaid
    <3>4. \A r \in {"p3", "p4"} : Overlay(cfEnv, Reloaded(cfEnv, set, r).set) = set
      BY <2>3, <3>1, <3>2, <3>3, MemoryReloads
    <3>5. Kept' = set
      BY <2>6 DEF Kept, Truncating
    <3>6. FileIsOverlaid'
      BY <1>1, <2>3, <2>6, <3>2, <3>3, <3>4, <3>5 DEF FileIsOverlaid
    <3>7. ~(cfRan.env = cfEnv /\ ~cfTorn)
      BY <1>1, <1>4, <3>1 DEF FileIsOverlaid, FileRunsAgain, Overlaid
    <3>8. FileRunsAgain'
      BY <1>1, <3>7 DEF FileRunsAgain
    <3> QED
      BY <3>6, <3>8
  <2> QED
    BY <2>1, <2>5, <2>6
<1> QED
  BY <1>3, <1>4

LEMMA SaveAddressKeeps == ASSUME ConfigInv, SaveOnionAddress PROVE ConfigInv'
<1>1. /\ cfMem' = cfMem /\ UNCHANGED <<cfEnv, cfRan, cfTorn, cfKeys, cfEdits, cfStarts>>
      /\ \/ /\ cfStage = "keyed" /\ cfStage' = "publishing"
            /\ cfFile' = [exists |-> TRUE, set |-> NothingSet]
         \/ cfStage = "keyed" /\ cfStage' = "keyed" /\ UNCHANGED cfFile
         \/ cfStage = "publishing" /\ cfStage' = "unsaved" /\ UNCHANGED cfFile
  BY DEF SaveOnionAddress, Save
<1>2. ConfigTyped' /\ LoadedAgrees'
  BY <1>1, NothingProper DEF ConfigInv, ConfigTyped, LoadedAgrees
<1>3. ASSUME Settled(cfEnv') PROVE FileIsLoaded' /\ FileIsOverlaid' /\ FileRunsAgain'
  <2>1. Settled(cfEnv) /\ FileIsOverlaid /\ FileRunsAgain /\ cfStage \in Overlaid \ {"overlaid"}
    BY <1>1, <1>3 DEF ConfigInv, Overlaid
  <2>2. Proper(cfMem)
    BY DEF ConfigInv, ConfigTyped
  <2>3. \A r \in {"p3", "p4"} : Overlay(cfEnv, Reloaded(cfEnv, cfMem, r).set) = cfMem
    BY <2>1, <2>2, MemoryReloads DEF FileIsOverlaid
  <2>4. \A r \in {"p3", "p4"} : Overlay(cfEnv, Reloaded(cfEnv, Kept', r).set) = cfMem
    <3>1. Kept' = cfMem \/ Kept' = Kept
      BY <1>1 DEF Kept, Truncating
    <3> QED
      BY <2>1, <2>3, <3>1 DEF FileIsOverlaid
  <2>5. FileIsLoaded'
    BY <1>1 DEF FileIsLoaded
  <2>6. FileIsOverlaid'
    BY <1>1, <2>1, <2>4 DEF FileIsOverlaid, Overlaid
  <2>7. cfRan.env = cfEnv /\ ~cfTorn => cfRan.set = cfMem /\ "key" \in DOMAIN cfRan.set
    BY <2>1 DEF FileIsOverlaid, FileRunsAgain
  <2>8. FileRunsAgain'
    BY <1>1, <2>4, <2>7 DEF FileRunsAgain
  <2> QED
    BY <2>5, <2>6, <2>8
<1> QED
  BY <1>2, <1>3 DEF ConfigInv

LEMMA RegisterKeeps == ASSUME ConfigInv, RegisterTasks PROVE ConfigInv'
<1>1. /\ cfStage \in {"keyed", "unsaved"} /\ cfStage' = "running" /\ cfRan' = [set |-> cfMem, env |-> cfEnv]
      /\ cfTorn' = (cfStage = "unsaved") /\ UNCHANGED <<cfFile, cfEnv, cfMem, cfKeys, cfEdits, cfStarts>>
  BY DEF RegisterTasks
<1>2. ConfigTyped' /\ LoadedAgrees' /\ FileIsLoaded' /\ FileIsOverlaid'
  BY <1>1 DEF ConfigInv, ConfigTyped, LoadedAgrees, FileIsLoaded, FileIsOverlaid, Overlaid
<1>3. ASSUME Settled(cfEnv'), ~cfTorn' PROVE FileRunsAgain'
  <2>1. cfStage = "keyed" /\ FileIsOverlaid
    BY <1>1, <1>3 DEF ConfigInv
  <2>2. Kept' = Kept
    BY <1>1, <2>1 DEF Kept, Truncating
  <2>3. /\ \A r \in {"p3", "p4"} : Overlay(cfEnv, Reloaded(cfEnv, Kept, r).set) = cfMem
        /\ "key" \in DOMAIN cfMem
    BY <2>1 DEF FileIsOverlaid, Overlaid
  <2> QED
    BY <1>1, <2>2, <2>3 DEF FileRunsAgain
<1>4. cfTorn' => FileRunsAgain'
  BY DEF FileRunsAgain
<1> QED
  BY <1>2, <1>3, <1>4 DEF ConfigInv

LEMMA StopKeepsConfig == ASSUME ConfigInv, ConfigStop PROVE ConfigInv'
<1>1. /\ cfStage' = "stopped" /\ cfMem' = NothingSet
      /\ cfTorn' = (cfTorn \/ (cfRan # NothingRan /\ cfStage \in Truncating))
      /\ UNCHANGED <<cfFile, cfEnv, cfRan, cfKeys, cfEdits, cfStarts>>
  BY DEF ConfigStop
<1>2. ConfigTyped' /\ LoadedAgrees' /\ FileIsLoaded' /\ FileIsOverlaid'
  BY <1>1, NothingProper DEF ConfigInv, ConfigTyped, LoadedAgrees, FileIsLoaded, FileIsOverlaid, Overlaid
<1>3. ASSUME Settled(cfEnv') PROVE FileRunsAgain'
  <2> SUFFICES ASSUME cfRan.env = cfEnv, ~cfTorn' PROVE FileRunsAgain'
    BY <1>1 DEF FileRunsAgain
  <2>1. cfRan # NothingRan
    BY NeverRan DEF ConfigInv, ConfigTyped
  <2>2. cfStage \notin Truncating /\ ~cfTorn
    BY <1>1, <2>1
  <2>3. Kept' = Kept
    BY <1>1, <2>2 DEF Kept, Truncating
  <2> QED
    BY <1>1, <1>3, <2>2, <2>3 DEF ConfigInv, FileRunsAgain
<1> QED
  BY <1>2, <1>3 DEF ConfigInv

(* Whatever edits the file or the environment of a stopped server makes    *)
(* what it last ran with irrelevant.                                       *)
LEMMA EditedKeeps ==
    ASSUME ConfigInv, cfStage = "stopped", cfEnv' \subseteq EnvVars, Proper(cfFile'.set), cfRan' = NothingRan,
           UNCHANGED <<cfMem, cfStage, cfTorn, cfKeys, cfStarts>>
    PROVE  ConfigInv'
<1>1. ConfigTyped' /\ LoadedAgrees' /\ FileIsLoaded' /\ FileIsOverlaid'
  BY DEF ConfigInv, ConfigTyped, LoadedAgrees, FileIsLoaded, FileIsOverlaid, Overlaid
<1>2. FileRunsAgain'
  BY NeverRan DEF FileRunsAgain
<1> QED
  BY <1>1, <1>2 DEF ConfigInv

LEMMA SetModeKeeps == ASSUME ConfigInv, SetMode PROVE ConfigInv'
<1>1. PICK s \in {"mode", "branch"} :
         \/ cfFile' = [exists |-> TRUE, set |-> WithSetting(Reloaded(cfEnv, cfFile.set, "p4"), s, "alt").set]
         \/ cfFile' = [exists |-> TRUE, set |-> NothingSet]
  BY EnvIsInit DEF SetMode, Reloaded, OfFile
<1>2. \/ cfFile'.set = Put(Reloaded(cfEnv, cfFile.set, "p4").set, s, "alt")
      \/ cfFile'.set = NothingSet
  BY <1>1 DEF WithSetting
<1>3. Proper(cfFile'.set)
  BY <1>2, ReloadProper, PutProper, FixedFits, NothingProper DEF ConfigInv, ConfigTyped
<1> QED
  BY <1>3, EditedKeeps DEF SetMode, ConfigInv, ConfigTyped

LEMMA EditKeeps == ASSUME ConfigInv, EditConfig PROVE ConfigInv'
<1>1. /\ cfStage = "stopped" /\ cfRan' = NothingRan /\ UNCHANGED <<cfMem, cfStage, cfTorn, cfKeys, cfStarts>>
  BY DEF EditConfig
<1>2. cfEnv \subseteq EnvVars /\ Proper(cfFile.set)
  BY DEF ConfigInv, ConfigTyped
<1>3. CASE \E e \in Settings : /\ cfFile' = [exists |-> TRUE, set |-> Put(cfFile.set, e[1], e[2])]
                               /\ UNCHANGED cfEnv
  <2>1. PICK e \in Settings : cfFile'.set = Put(cfFile.set, e[1], e[2]) /\ cfEnv' = cfEnv
    BY <1>3
  <2>2. Proper(cfFile'.set)
    BY <1>2, <2>1, SettingsFit, PutProper
  <2> QED
    BY <1>1, <1>2, <2>1, <2>2, EditedKeeps
<1>4. CASE \E e \in EnvVars : cfEnv' = (cfEnv \cup {e}) \ (cfEnv \cap {e}) /\ UNCHANGED cfFile
  BY <1>1, <1>2, <1>4, EditedKeeps
<1> QED
  BY <1>3, <1>4 DEF EditConfig

LEMMA ConfigStep == ConfigInv /\ [ConfigNext]_configVars => ConfigInv'
<1> SUFFICES ASSUME ConfigInv, [ConfigNext]_configVars PROVE ConfigInv'
  OBVIOUS
<1>1. ASSUME Load(GeneratedPorts[cfStarts + 1]) PROVE ConfigInv'
  <2>1. cfStarts + 1 \in 1..MaxStarts
    BY <1>1, ConfigAssumption DEF Load, ConfigInv, ConfigTyped
  <2>2. GeneratedPorts[cfStarts + 1] \in {"p3", "p4"}
    BY <2>1, ConfigAssumption
  <2> QED
    BY <1>1, <2>2, LoadKeepsConfig
<1>2. CASE ConfigNext
  BY <1>1, <1>2, WriteKeeps, RuntimeEnvKeeps, EnsureKeyKeeps, SaveAddressKeeps, RegisterKeeps,
     StopKeepsConfig, SetModeKeeps, EditKeeps
  DEF ConfigNext
<1>3. CASE UNCHANGED configVars
  BY <1>3 DEF configVars, ConfigInv, ConfigTyped, LoadedAgrees, FileIsLoaded, FileIsOverlaid, FileRunsAgain,
              Kept
<1> QED
  BY <1>2, <1>3

LEMMA ConfigUsable == ConfigInv => LoadedIsUsable
<1> SUFFICES ASSUME ConfigInv, cfStage = "loaded" PROVE LoadedIsUsable
  BY DEF LoadedIsUsable
<1> DEFINE c == OfFile(cfMem)
<1>1. Typed(c) /\ AllGood(c)
  BY DEF ConfigInv, ConfigTyped, Proper, LoadedAgrees
<1>2. \A s : Value([set |-> cfMem], s) = Value(c, s)
  BY DEF Value, OfFile
<1>0. \A s \in Required : Value(c, s) # "unset"
  BY <1>1, GoodIsNotEmpty
<1>3. \A s \in DOMAIN cfMem \ ({"languages"} \cup Unchecked) : cfMem[s] # "bad"
  <2>1. \A s \in DOMAIN cfMem : Value(c, s) = cfMem[s]
    BY DEF Value, OfFile
  <2> QED
    BY <1>1, <2>1, GoodIsNotBad
<1> HIDE DEF c
<1>4. /\ \A s \in FlagNames : Value(c, s) \in {"on", "off"}
      /\ \A s \in SizedNames : Value(c, s) \in {"low", "high", "unset", "bad"}
  BY <1>1 DEF Typed, Fits, Flag, Sized
<1>5. /\ Value(c, "port") # Value(c, "ssl_port")
      /\ Value(c, "cert") = Value(c, "cert_key")
      /\ Value(c, "letsencrypt") = "on" => Value(c, "email") = "on"
  BY <1>1, <1>4 DEF AllGood, CoreGood, ServerGood, PeopleGood, SSLGood, FlagNames
<1>6. Value(c, "preload") = "on" => Value(c, "include_subdomains") = "on" /\ Value(c, "hsts_age") = "high"
  BY <1>1, <1>4 DEF AllGood, PeopleGood, WebGood, Checked, FlagNames, SizedNames
<1>7. /\ Value(c, "require_2fa") = "on" => Value(c, "allow_2fa") = "on"
      /\ Value(c, "custom_domains") = "on" => Value(c, "orgs") = "on"
      /\ Value(c, "orgs") = "on" => Value(c, "users") = "on"
      /\ Value(c, "default_role") # "owner"
  BY <1>1, <1>4 DEF AllGood, PeopleGood, UsersGood, OrgsGood, DomainGood, FlagNames
<1>8. /\ Value(c, "idle_timeout") = "high" => Value(c, "max_age") = "high"
      /\ Value(c, "min_idle") = "high" => Value(c, "pool_size") = "high"
      /\ Value(c, "max_idle") = "high" => Value(c, "max_open") = "high"
  BY <1>1, <1>4 DEF AllGood, CoreGood, SessionGood, CacheGood, DatabaseGood, Checked, SizedNames
<1>9. Value(c, "rate") = "high" => Value(c, "burst") = "high"
  BY <1>1, <1>4 DEF AllGood, TailGood, TorGood, Checked, SizedNames
<1>10. {Value(c, "default_language"), Value(c, "fallback_language")} \subseteq Value(c, "languages")
  BY <1>1 DEF AllGood, CoreGood, I18nGood
<1>11. /\ Value(c, "format") = "custom" => Value(c, "custom") = "on"
       /\ Value(c, "compliance") = "on" => Value(c, "encryption") = "on"
  BY <1>1, <1>4 DEF AllGood, CoreGood, LogsGood, TailGood, BackupGood, FlagNames
<1> QED
  BY <1>0, <1>2, <1>3, <1>5, <1>6, <1>7, <1>8, <1>9, <1>10, <1>11 DEF LoadedIsUsable

LEMMA ConfigHolds == ConfigSpec => []ConfigInv
BY ConfigInitInv, ConfigStep, PTL DEF ConfigSpec

(* Whatever an operator wrote into server.yml and whatever environment and *)
(* flags the server is started with, the configuration Load returns has no *)
(* invalid setting among those Validate parses, none empty that needs a    *)
(* value and no two that contradict one another, though each of the 23     *)
(* sections is checked once and only in order.                             *)
THEOREM LoadedConfigIsUsable == ConfigSpec => []LoadedIsUsable
BY ConfigHolds, ConfigUsable, PTL

(* A server that is restarted with nothing edited runs with the settings,  *)
(* the port and the encryption key it had, whichever of its starts ended   *)
(* at which stage, whether the file was saved on the way, could not be     *)
(* opened or was saved again for a new address, and whatever random port   *)
(* it would draw; unless a start ended between emptying the file and       *)
(* writing it, or went on without having written it.                       *)
THEOREM RestartsKeepSettings == ConfigSpec => RestartKeepsSettings
<1>1. ConfigInv /\ [ConfigNext]_configVars =>
        [(cfStage' = "running" /\ ~cfTorn /\ cfRan.env = cfEnv /\ cfEnv \subseteq {"PORT", "SMTP_PASSWORD"})
            => cfMem' = cfRan.set]_configVars
  <2> SUFFICES ASSUME ConfigInv, ConfigNext, cfStage' = "running", ~cfTorn, cfRan.env = cfEnv, Settled(cfEnv),
                      ~UNCHANGED configVars
               PROVE  cfMem' = cfRan.set
    BY DEF Settled
  <2>1. RegisterTasks
    BY DEF ConfigNext, Load, WriteSaved, Saved, Save, Truncating, ApplyRuntimeEnv, EnsureEncryptionKey,
           SaveOnionAddress, ConfigStop, SetMode, EditConfig
  <2>2. Overlay(cfEnv, Reloaded(cfEnv, Kept, "p3").set) = cfRan.set
    BY DEF ConfigInv, FileRunsAgain
  <2>3. Overlay(cfEnv, Reloaded(cfEnv, Kept, "p3").set) = cfMem
    BY <2>1 DEF ConfigInv, FileIsOverlaid, RegisterTasks, Overlaid
  <2> QED
    BY <2>1, <2>2, <2>3 DEF RegisterTasks
<1> QED
  BY <1>1, ConfigHolds, PTL DEF ConfigSpec, RestartKeepsSettings
=============================================================================
