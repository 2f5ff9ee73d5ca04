------------------------------ MODULE RateLimit ------------------------------
(***************************************************************************)
(* The rate limit of one client (src/server/middleware/ratelimit.go) over  *)
(* the counters of server.db (ratelimitsql.go, the store startup wires).   *)
(* A request is billed to one bucket, and unless that is one of the        *)
(* authentication buckets also to the global one.  Billing is a            *)
(* transaction that reads the counts of the current and the previous       *)
(* window and, when the weighted sum leaves room, increments the current   *)
(* one; a store error lets the request through.                            *)
(***************************************************************************)
EXTENDS Integers

CONSTANTS
    RlReqs,      \* requests in flight at once
    RlBudget,    \* [bucket |-> requests per window], resolveBucket's result
    RlWindow,    \* the window, in clock units
    MaxRlTime,   \* bound: the clock
    RlFaults     \* bound: store errors that are not conflicts

ASSUME GlobalAssumption == "global" \in DOMAIN RlBudget
ASSUME RateLimitAssumption ==
    /\ RlWindow \in Nat \ {0} /\ MaxRlTime \in Nat /\ RlFaults \in Nat
    /\ \A b \in DOMAIN RlBudget : RlBudget[b] \in Nat \ {0}

RlBuckets == DOMAIN RlBudget

VARIABLES
    rlNow,     \* the clock
    rlCount,   \* rate_limits: [bucket, window start] -> count
    rlVersion, \* commits to server.db so far
    rlReq,     \* the requests in flight
    rlRetry,   \* when the last refusal told the client to come back; 0: none since a count
    rlFaults   \* store errors so far

rateLimitVars == <<rlNow, rlCount, rlVersion, rlReq, rlRetry, rlFaults>>

RlWindows == 0..(MaxRlTime \div RlWindow)
RlRequest(pc, bucket, at, cur, prev, version) ==
    [pc |-> pc, bucket |-> bucket, at |-> at, cur |-> cur, prev |-> prev, version |-> version]
RlIdle == RlRequest("idle", "none", 0, 0, 0, 0)
RlBegin(bucket, at) == RlRequest("begin", bucket, at, 0, 0, 0)

WindowOf(at) == at \div RlWindow
Elapsed(at) == at % RlWindow
CountIn(b, w) == IF w \in RlWindows THEN rlCount[b][w] ELSE 0

-----------------------------------------------------------------------------
(* classify: the authentication buckets first, then the class of the       *)
(* method.                                                                 *)
IsAuthBucket(b) == b = "login"
ClassifyRequest(q) ==
    /\ rlReq[q].pc = "idle"
    /\ \E b \in RlBuckets \ {"global"} :
          rlReq' = [rlReq EXCEPT ![q] = RlBegin(b, rlNow)]
    /\ UNCHANGED <<rlNow, rlCount, rlVersion, rlRetry, rlFaults>>

(* readWindows, in the transaction Allow begins.                           *)
ReadWindows(q) ==
    LET r == rlReq[q] IN
    /\ r.pc = "begin"
    /\ rlReq' = [rlReq EXCEPT ![q] =
          RlRequest("decide", r.bucket, r.at, CountIn(r.bucket, WindowOf(r.at)),
                    CountIn(r.bucket, WindowOf(r.at) - 1), rlVersion)]
    /\ UNCHANGED <<rlNow, rlCount, rlVersion, rlRetry, rlFaults>>

(* estimate + 1 > limit, multiplied by the window.                         *)
OverBudget(r) ==
    r.prev * (RlWindow - Elapsed(r.at)) + (r.cur + 1) * RlWindow > RlBudget[r.bucket] * RlWindow

(* A refusal is not counted and asks the client back at the end of the     *)
(* window.                                                                 *)
WriteRateLimited(q) ==
    LET r == rlReq[q] IN
    /\ r.pc = "decide" /\ OverBudget(r)
    /\ rlRetry' = [rlRetry EXCEPT ![r.bucket] = r.at + RlWindow - Elapsed(r.at)]
    /\ rlReq' = [rlReq EXCEPT ![q] = RlIdle]
    /\ UNCHANGED <<rlNow, rlCount, rlVersion, rlFaults>>

(* A snapshot transaction cannot write once another one has committed      *)
(* since its read (SQLITE_BUSY).                                           *)
\* Mutant: the write of a stale snapshot goes through.
NeverConflicts(r) == FALSE
TxConflicts(r) == r.version # rlVersion

(* Where an admitted request goes next: the global bucket, or on.          *)
AfterBucket(r) ==
    IF r.bucket = "global" \/ IsAuthBucket(r.bucket) THEN RlIdle
    ELSE RlBegin("global", r.at)

(* countRequest and the commit.                                            *)
CountRequest(q) ==
    LET r == rlReq[q] w == WindowOf(r.at) IN
    /\ r.pc = "decide" /\ ~OverBudget(r) /\ ~TxConflicts(r)
    /\ rlCount' = [rlCount EXCEPT ![r.bucket][w] = @ + 1]
    /\ rlVersion' = rlVersion + 1
    /\ rlRetry' = [rlRetry EXCEPT ![r.bucket] = 0]
    /\ rlReq' = [rlReq EXCEPT ![q] = AfterBucket(r)]
    /\ UNCHANGED <<rlNow, rlFaults>>

(* A store error: reported, and the request proceeds past the whole stage. *)
FailOpen(q) ==
    LET r == rlReq[q] IN
    /\ \/ r.pc = "decide" /\ ~OverBudget(r) /\ TxConflicts(r) /\ UNCHANGED rlFaults
       \/ r.pc # "idle" /\ rlFaults < RlFaults /\ rlFaults' = rlFaults + 1
    /\ rlReq' = [rlReq EXCEPT ![q] = RlIdle]
    /\ UNCHANGED <<rlNow, rlCount, rlVersion, rlRetry>>

RlTick ==
    /\ rlNow < MaxRlTime
    /\ rlNow' = rlNow + 1
    /\ UNCHANGED <<rlCount, rlVersion, rlReq, rlRetry, rlFaults>>

RateLimitInit ==
    /\ rlNow = 0 /\ rlVersion = 0 /\ rlFaults = 0
    /\ rlCount = [b \in RlBuckets |-> [w \in RlWindows |-> 0]]
    /\ rlReq = [q \in RlReqs |-> RlIdle]
    /\ rlRetry = [b \in RlBuckets |-> 0]

RateLimitNext ==
    \/ \E q \in RlReqs :
          \/ ClassifyRequest(q) \/ ReadWindows(q) \/ WriteRateLimited(q) \/ CountRequest(q) \/ FailOpen(q)
    \/ RlTick

-----------------------------------------------------------------------------
(* However the billing transactions of one client interleave, no bucket    *)
(* counts more requests in a window than its budget.                       *)
BudgetHolds ==
    \A b \in RlBuckets, w \in RlWindows :
        rlCount[b][w] <= RlBudget[b]

(* A client that waits as long as Retry-After says finds room, unless      *)
(* another of its requests was counted meanwhile (ratelimit.go Decision:   *)
(* "how long the client must wait before the budget frees up").  The       *)
(* previous window still weighs in full at the start of the next.          *)
RetryAfterIsEnough ==
    [][\A b \in RlBuckets : rlRetry[b] # 0 => rlRetry'[b] \in {0, rlRetry[b]}]_rateLimitVars
=============================================================================
