----------------------------- MODULE CacheLock -----------------------------
(***************************************************************************)
(* The memory cache driver and the lock built on it (src/cache/memory.go,  *)
(* lock.go): an entry is written under a mutex, expires lazily and is      *)
(* reclaimed by a janitor; WithLock claims a key with SetNX, runs the      *)
(* exclusive operation and releases the key with a Get and a Delete of     *)
(* their own.  Lockers of different nodes differ by the value they store.  *)
(***************************************************************************)
EXTENDS Integers, FiniteSets

CONSTANTS
    Lockers,     \* goroutines that call WithLock
    LockNode,    \* the nodeID of each
    CacheTTL,    \* the ttl they ask for
    MaxCacheTime \* bound: the clock stops here

ASSUME CacheAssumption == CacheTTL \in Nat \ {0} /\ MaxCacheTime \in Nat

VARIABLES
    entry,     \* the entry under the lock's key, and the goroutine that stored it
    cacheNow,  \* the clock
    lockPc,    \* where each WithLock is
    until,     \* when the ttl of each goroutine's claim runs out
    sawOwn,    \* the Get of each Release found this node's identifier
    mistaken   \* an overdue Release that had matched freed another's claim (history)

cacheVars == <<entry, cacheNow, lockPc, until, sawOwn, mistaken>>

Nobody == "none"
NoEntry == [in |-> FALSE, value |-> Nobody, by |-> Nobody, expires |-> 0]
Expired(e) == cacheNow > e.expires
Present(e) == e.in /\ ~Expired(e)
InLock(w) == lockPc[w] \in {"run", "get", "delete"}
Overdue(w) == cacheNow > until[w]

CacheInit ==
    /\ entry = NoEntry
    /\ cacheNow = 0
    /\ lockPc = [w \in Lockers |-> "idle"]
    /\ until = [w \in Lockers |-> 0]
    /\ sawOwn = [w \in Lockers |-> FALSE]
    /\ mistaken = FALSE

LockGoto(w, label) == lockPc' = [lockPc EXCEPT ![w] = label]

(* Acquire: SetNX stores over an absent or an expired entry.               *)
SetNX(w) ==
    /\ lockPc[w] = "idle"
    /\ ~Present(entry)
    /\ entry' = [in |-> TRUE, value |-> LockNode[w], by |-> w, expires |-> cacheNow + CacheTTL]
    /\ until' = [until EXCEPT ![w] = cacheNow + CacheTTL]
    /\ LockGoto(w, "run")
    /\ UNCHANGED <<cacheNow, sawOwn, mistaken>>

(* The operation returns, in time or not, and the deferred Release begins: *)
(* Get, ...                                                                *)
FnReturns(w) ==
    /\ lockPc[w] = "run"
    /\ LockGoto(w, "get")
    /\ UNCHANGED <<entry, cacheNow, until, sawOwn, mistaken>>

StoredHere(w) == Present(entry) /\ entry.value = LockNode[w]

(* Mutant: Release does not compare the value stored with its node's.      *)
ReleaseUnchecked(w) ==
    /\ lockPc[w] = "get"
    /\ sawOwn' = [sawOwn EXCEPT ![w] = StoredHere(w)]
    /\ LockGoto(w, IF Present(entry) THEN "delete" ELSE "idle")
    /\ UNCHANGED <<entry, cacheNow, until, mistaken>>

ReleaseGet(w) ==
    /\ lockPc[w] = "get"
    /\ sawOwn' = [sawOwn EXCEPT ![w] = StoredHere(w)]
    /\ LockGoto(w, IF StoredHere(w) THEN "delete" ELSE "idle")
    /\ UNCHANGED <<entry, cacheNow, until, mistaken>>

(* ... and Delete, of whatever is stored by then.                          *)
ReleaseDelete(w) ==
    /\ lockPc[w] = "delete"
    /\ entry' = NoEntry
    /\ mistaken' = (mistaken \/ (entry.in /\ entry.by # w /\ sawOwn[w] /\ Overdue(w)))
    /\ sawOwn' = [sawOwn EXCEPT ![w] = FALSE]
    /\ LockGoto(w, "idle")
    /\ UNCHANGED <<cacheNow, until>>

(* The janitor's sweep.                                                    *)
Sweep ==
    /\ entry.in /\ Expired(entry)
    /\ entry' = NoEntry
    /\ UNCHANGED <<cacheNow, lockPc, until, sawOwn, mistaken>>

CacheTick ==
    /\ cacheNow < MaxCacheTime
    /\ cacheNow' = cacheNow + 1
    /\ UNCHANGED <<entry, lockPc, until, sawOwn, mistaken>>

CacheNext ==
    \/ \E w \in Lockers : SetNX(w) \/ FnReturns(w) \/ ReleaseGet(w) \/ ReleaseDelete(w)
    \/ Sweep \/ CacheTick

-----------------------------------------------------------------------------
(* Whoever is inside WithLock within the ttl of its own claim is the only  *)
(* one: an operation that overruns its ttl meets others, but neither it    *)
(* nor its Release lets a further goroutine in beside a later claimant, as *)
(* the comment on Release asks.  The one exception is a Release that runs  *)
(* past its ttl and deletes after a Get that found its node's identifier.  *)
LockExcludes ==
    \/ mistaken
    \/ \A v, w \in Lockers : InLock(v) /\ InLock(w) /\ ~Overdue(v) /\ ~Overdue(w) => v = w

(* The comment on Release without the exception: "a value mismatch (the    *)
(* lock expired and was re-claimed elsewhere) is a no-op rather than a     *)
(* delete".  The lock can expire and be claimed again between the Get and  *)
(* the Delete, and another goroutine of the node stores the same value.    *)
ReleaseFreesOwn == ~mistaken
=============================================================================
