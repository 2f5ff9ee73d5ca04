-------------------------- MODULE CacheLockProofs --------------------------
(***************************************************************************)
(* The cache lock excludes, for any number of goroutines and nodes and any *)
(* ttl: whoever is inside within the ttl of its own claim is alone among   *)
(* those.                                                                  *)
(*                                                                         *)
(* LockExcludes is not inductive: that nobody enters beside a goroutine    *)
(* inside follows from the entry, which must be the one it stored itself   *)
(* for as long as its ttl runs.  Only a Delete could take it away; before  *)
(* its own ttl is over a Release deletes its own entry, by the same        *)
(* invariant, and after it the Get must have found its node's identifier.  *)
(***************************************************************************)
EXTENDS CacheLock, TLAPS

CacheSpec == CacheInit /\ [][CacheNext]_cacheVars

CacheType ==
    /\ entry.in \in BOOLEAN /\ entry.expires \in Nat
    /\ cacheNow \in Nat
    /\ lockPc \in [Lockers -> {"idle", "run", "get", "delete"}]
    /\ until \in [Lockers -> Nat]
    /\ sawOwn \in [Lockers -> BOOLEAN]
    /\ mistaken \in BOOLEAN

(* Nobody reaches the Delete without having found its node's identifier.   *)
DeletesMatched == \A w \in Lockers : lockPc[w] = "delete" => sawOwn[w]

(* Within its ttl a goroutine inside owns the entry.                       *)
Guarded ==
    \A w \in Lockers : InLock(w) /\ ~Overdue(w) =>
        entry.in /\ entry.by = w /\ entry.expires = until[w]

CacheInv == CacheType /\ DeletesMatched /\ (mistaken \/ Guarded)

-----------------------------------------------------------------------------
LEMMA InitCache == CacheInit => CacheInv
<1> SUFFICES ASSUME CacheInit PROVE CacheInv
  OBVIOUS
<1>1. CacheType
  BY DEF CacheInit, CacheType, NoEntry
<1>2. DeletesMatched /\ Guarded
  BY DEF CacheInit, DeletesMatched, Guarded, InLock
<1> QED
  BY <1>1, <1>2 DEF CacheInv

LEMMA StepCacheType ==
    ASSUME CacheType, DeletesMatched, [CacheNext]_cacheVars
    PROVE  CacheType' /\ DeletesMatched'
<1> USE CacheAssumption DEF CacheType, DeletesMatched
<1>1. ASSUME NEW w \in Lockers, SetNX(w) PROVE CacheType' /\ DeletesMatched'
  BY <1>1 DEF SetNX, LockGoto
<1>2. ASSUME NEW w \in Lockers, FnReturns(w) PROVE CacheType' /\ DeletesMatched'
  BY <1>2 DEF FnReturns, LockGoto
<1>3. ASSUME NEW w \in Lockers, ReleaseGet(w) PROVE CacheType' /\ DeletesMatched'
  <2>1. StoredHere(w) \in BOOLEAN
    BY DEF StoredHere, Present, Expired
  <2> QED
    BY <1>3, <2>1 DEF ReleaseGet, LockGoto
<1>4. ASSUME NEW w \in Lockers, ReleaseDelete(w) PROVE CacheType' /\ DeletesMatched'
  BY <1>4 DEF ReleaseDelete, LockGoto, NoEntry
<1>5. CASE Sweep
  BY <1>5 DEF Sweep, NoEntry
<1>6. CASE CacheTick
  BY <1>6 DEF CacheTick
<1>7. CASE UNCHANGED cacheVars
  BY <1>7 DEF cacheVars
<1> QED
  BY <1>1, <1>2, <1>3, <1>4, <1>5, <1>6, <1>7 DEF CacheNext

LEMMA StepGuarded ==
    ASSUME CacheInv, [CacheNext]_cacheVars, ~mistaken'
    PROVE  Guarded'
<1> USE DEF CacheType
<1>0. CacheType /\ DeletesMatched /\ (mistaken \/ Guarded)
  BY DEF CacheInv
(* A claim finds the entry gone or expired, so whoever else is inside is   *)
(* past its ttl.                                                           *)
<1>1. ASSUME NEW w \in Lockers, SetNX(w) PROVE Guarded'
  <2>1. Guarded /\ \A v \in Lockers : ~(InLock(v) /\ ~Overdue(v))
    BY <1>0, <1>1 DEF SetNX, Present, Expired, Overdue, Guarded
  <2>2. \A v \in Lockers : v # w => lockPc'[v] = lockPc[v] /\ until'[v] = until[v]
    BY <1>0, <1>1 DEF SetNX, LockGoto
  <2>3. \A v \in Lockers : InLock(v)' /\ ~Overdue(v)' => v = w
    BY <1>1, <2>1, <2>2 DEF SetNX, InLock, Overdue
  <2>4. entry'.in /\ entry'.by = w /\ entry'.expires = until'[w]
    BY <1>0, <1>1 DEF SetNX
  <2> QED
    BY <2>3, <2>4 DEF Guarded
<1>2. ASSUME NEW w \in Lockers, FnReturns(w) \/ ReleaseGet(w) PROVE Guarded'
  <2>1. UNCHANGED <<entry, cacheNow, until, mistaken>>
    BY <1>2 DEF FnReturns, ReleaseGet
  <2>2. \A v \in Lockers : InLock(v)' => InLock(v)
    BY <1>0, <1>2 DEF FnReturns, ReleaseGet, LockGoto, InLock
  <2> QED
    BY <1>0, <2>1, <2>2 DEF Guarded, Overdue
(* The Delete of Release takes its own entry or is the exception.          *)
<1>3. ASSUME NEW w \in Lockers, ReleaseDelete(w) PROVE Guarded'
  <2>1. Guarded /\ InLock(w) /\ sawOwn[w] /\ ~(entry.in /\ entry.by # w /\ Overdue(w))
    BY <1>0, <1>3 DEF ReleaseDelete, InLock, DeletesMatched
  <2>2. entry.in => entry.by = w
    BY <2>1 DEF Guarded
  <2>3. \A v \in Lockers : v # w => ~(InLock(v) /\ ~Overdue(v))
    BY <2>1, <2>2 DEF Guarded
  <2>4. \A v \in Lockers : InLock(v)' /\ ~Overdue(v)' => InLock(v) /\ ~Overdue(v) /\ v # w
    BY <1>0, <1>3 DEF ReleaseDelete, LockGoto, InLock, Overdue
  <2> QED
    BY <2>3, <2>4 DEF Guarded
<1>4. CASE Sweep
  <2>1. \A v \in Lockers : ~(InLock(v) /\ ~Overdue(v))
    BY <1>0, <1>4 DEF Sweep, Expired, Overdue, Guarded
  <2>2. \A v \in Lockers : ~(InLock(v)' /\ ~Overdue(v)')
    BY <1>4, <2>1 DEF Sweep, InLock, Overdue
  <2> QED
    BY <2>2 DEF Guarded
<1>5. CASE CacheTick
  <2>1. UNCHANGED <<entry, lockPc, until, mistaken>> /\ cacheNow' = cacheNow + 1
    BY <1>5 DEF CacheTick
  <2>2. \A v \in Lockers : InLock(v)' /\ ~Overdue(v)' => InLock(v) /\ ~Overdue(v)
    BY <1>0, <2>1 DEF InLock, Overdue
  <2> QED
    BY <1>0, <2>1, <2>2 DEF Guarded
<1>6. CASE UNCHANGED cacheVars
  BY <1>0, <1>6 DEF cacheVars, Guarded, InLock, Overdue
<1> QED
  BY <1>1, <1>2, <1>3, <1>4, <1>5, <1>6 DEF CacheNext

(* The lock excludes: two goroutines of any nodes are never both inside    *)
(* WithLock within the ttl of their claims, however many others overrun    *)
(* theirs, as long as no overdue Release deletes, after a Get that found   *)
(* its node's identifier, what another goroutine has stored.               *)
THEOREM LockExclusion == CacheSpec => []LockExcludes
<1>1. CacheInv /\ [CacheNext]_cacheVars => CacheInv'
  BY StepCacheType, StepGuarded DEF CacheInv, CacheType
<1>2. CacheInv => LockExcludes
  BY DEF CacheInv, LockExcludes, Guarded
<1> QED
  BY <1>1, <1>2, InitCache, PTL DEF CacheSpec
=============================================================================
