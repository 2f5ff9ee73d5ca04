-------------------------- MODULE RateLimitProofs --------------------------
(***************************************************************************)
(* No interleaving of the billing transactions counts a client over its    *)
(* budget, for any budgets, any window and any number of requests.         *)
(*                                                                         *)
(* BudgetHolds is not inductive: the count is checked against the value a  *)
(* transaction read, so the invariant says what that value is worth.  A    *)
(* transaction whose snapshot is current (no commit since) has read the    *)
(* count that is stored; any other fails to commit.                        *)
(***************************************************************************)
EXTENDS RateLimit, TLAPS

RateLimitSpec == RateLimitInit /\ [][RateLimitNext]_rateLimitVars

RlRequests ==
    [pc : {"idle", "begin", "decide"}, bucket : RlBuckets \cup {"none"}, at : Nat,
     cur : Nat, prev : Nat, version : Nat]

RateLimitType ==
    /\ rlNow \in 0..MaxRlTime
    /\ rlCount \in [RlBuckets -> [RlWindows -> Nat]]
    /\ rlVersion \in Nat
    /\ rlReq \in [RlReqs -> RlRequests]

(* What a current snapshot read is what is stored.                         *)
SnapshotTrue(r) ==
    r.pc = "decide" /\ r.version = rlVersion => r.cur = CountIn(r.bucket, WindowOf(r.at))

(* A billed request has a bucket and a time that has come.                 *)
Billed(r) == r.bucket \in RlBuckets /\ r.at <= rlNow /\ r.version <= rlVersion

SnapshotsTrue ==
    \A q \in RlReqs : rlReq[q].pc # "idle" => Billed(rlReq[q]) /\ SnapshotTrue(rlReq[q])

RateLimitInv == RateLimitType /\ SnapshotsTrue /\ BudgetHolds

-----------------------------------------------------------------------------
(* The window of a time that has come is one of the counted windows.       *)
LEMMA WindowType ==
    ASSUME NEW a \in 0..MaxRlTime
    PROVE  WindowOf(a) \in RlWindows /\ Elapsed(a) \in 0..(RlWindow - 1)
<1> DEFINE W == RlWindow  q == a \div W  m == MaxRlTime \div W
<1>1. W \in Nat \ {0} /\ MaxRlTime \in Nat
  BY RateLimitAssumption
<1>2. a \in Nat /\ a <= MaxRlTime
  BY <1>1
<1>3. q \in Nat /\ a = W * q + (a % W) /\ a % W \in 0..(W - 1)
  BY <1>1, <1>2
<1>4. m \in Nat /\ MaxRlTime = W * m + (MaxRlTime % W) /\ MaxRlTime % W \in 0..(W - 1)
  BY <1>1
<1>5. q <= m
  <2>1. SUFFICES ASSUME m + 1 <= q PROVE FALSE
    BY <1>3, <1>4
  <2>2. W * (m + 1) <= W * q
    BY <1>1, <1>3, <1>4, <2>1
  <2>3. W * (m + 1) = W * m + W
    BY <1>1, <1>4
  <2> HIDE DEF q, m, W
  <2> QED
    BY <1>1, <1>2, <1>3, <1>4, <2>2, <2>3
<1> QED
  BY <1>3, <1>4, <1>5 DEF WindowOf, Elapsed, RlWindows

(* A decision that leaves room leaves it in the current window alone.      *)
LEMMA RoomLeft ==
    ASSUME NEW r \in RlRequests, r.bucket \in RlBuckets, r.at \in 0..MaxRlTime, ~OverBudget(r)
    PROVE  r.cur + 1 <= RlBudget[r.bucket]
<1> DEFINE W == RlWindow  e == Elapsed(r.at)  b == RlBudget[r.bucket]  c == r.cur + 1  p == r.prev
<1>1. W \in Nat \ {0} /\ b \in Nat /\ c \in Nat /\ p \in Nat /\ W - e \in Nat
  BY RateLimitAssumption, WindowType DEF RlRequests, RlBuckets
<1>2. ~(p * (W - e) + c * W > b * W)
  BY DEF OverBudget
<1> HIDE DEF W, e, b, c, p
<1>3. p * (W - e) \in Nat
  BY <1>1
<1>4. c * W \in Nat /\ b * W \in Nat
  BY <1>1
<1>5. c * W <= b * W
  BY <1>2, <1>3, <1>4
<1>6. c <= b
  <2>1. SUFFICES ASSUME b + 1 <= c PROVE FALSE
    BY <1>1
  <2>2. (b + 1) * W <= c * W
    BY <1>1, <2>1
  <2>3. (b + 1) * W = b * W + W
    BY <1>1
  <2> QED
    BY <1>1, <1>4, <1>5, <2>2, <2>3
<1> QED
  BY <1>6 DEF b, c

LEMMA RequestType ==
    /\ RlIdle \in RlRequests
    /\ \A b \in RlBuckets, a \in Nat : RlBegin(b, a) \in RlRequests
    /\ \A b \in RlBuckets, a, c, p, v \in Nat :
          RlRequest("decide", b, a, c, p, v) \in RlRequests
BY DEF RlRequests, RlIdle, RlBegin, RlRequest

(* A step that counts nothing keeps every snapshot and every count.        *)
LEMMA UncountedStep ==
    ASSUME RateLimitInv, UNCHANGED <<rlCount, rlVersion, rlNow>>,
           NEW q \in RlReqs, NEW new \in RlRequests, rlReq' = [rlReq EXCEPT ![q] = new],
           new.pc # "idle" => Billed(new) /\ SnapshotTrue(new)
    PROVE  RateLimitInv'
<1>1. RateLimitType'
  BY DEF RateLimitInv, RateLimitType
<1>2. BudgetHolds'
  BY DEF RateLimitInv, BudgetHolds
<1>3. ASSUME NEW p \in RlReqs
      PROVE  rlReq'[p].pc # "idle" => Billed(rlReq'[p]) /\ SnapshotTrue(rlReq'[p])
  <2>1. rlReq'[p] = IF p = q THEN new ELSE rlReq[p]
    BY DEF RateLimitInv, RateLimitType
  <2> QED
    BY <2>1 DEF RateLimitInv, SnapshotsTrue
<1>4. ASSUME NEW r PROVE (Billed(r) => Billed(r)') /\ (SnapshotTrue(r) => SnapshotTrue(r)')
  BY DEF Billed, SnapshotTrue, CountIn
<1>5. SnapshotsTrue'
  BY <1>3, <1>4 DEF SnapshotsTrue, Billed, SnapshotTrue, CountIn
<1> QED
  BY <1>1, <1>2, <1>5 DEF RateLimitInv

LEMMA CountStep ==
    ASSUME RateLimitInv, NEW q \in RlReqs, CountRequest(q)
    PROVE  RateLimitInv'
<1> DEFINE r == rlReq[q]  w == WindowOf(r.at)
<1>1. r \in RlRequests /\ r.pc = "decide" /\ ~OverBudget(r) /\ r.version = rlVersion
  BY DEF RateLimitInv, RateLimitType, CountRequest, TxConflicts
<1>2. Billed(r) /\ r.cur = CountIn(r.bucket, w)
  BY <1>1 DEF RateLimitInv, SnapshotsTrue, SnapshotTrue
<1>3. r.at \in 0..MaxRlTime /\ r.bucket \in RlBuckets /\ rlNow \in Int /\ rlVersion \in Nat
  BY <1>1, <1>2, RateLimitAssumption DEF RateLimitInv, RateLimitType, RlRequests, Billed
<1>4. w \in RlWindows
  BY <1>3, WindowType
<1>5. rlCount[r.bucket][w] + 1 <= RlBudget[r.bucket]
  BY <1>1, <1>2, <1>3, <1>4, RoomLeft DEF CountIn
<1>6. /\ rlCount' = [rlCount EXCEPT ![r.bucket][w] = @ + 1]
      /\ rlVersion' = rlVersion + 1 /\ rlNow' = rlNow
      /\ rlReq' = [rlReq EXCEPT ![q] = AfterBucket(r)]
  BY DEF CountRequest
<1>7. BudgetHolds'
  <2>1. ASSUME NEW b \in RlBuckets, NEW v \in RlWindows PROVE rlCount'[b][v] <= RlBudget[b]
    <3>1. rlCount \in [RlBuckets -> [RlWindows -> Nat]] /\ rlCount[b][v] <= RlBudget[b]
      BY DEF RateLimitInv, RateLimitType, BudgetHolds
    <3>2. CASE b = r.bucket /\ v = w
      BY <1>3, <1>4, <1>5, <1>6, <3>1, <3>2
    <3>3. CASE ~(b = r.bucket /\ v = w)
      BY <1>3, <1>4, <1>6, <3>1, <3>3
    <3> QED
      BY <3>2, <3>3
  <2> QED
    BY <2>1 DEF BudgetHolds
<1>8. AfterBucket(r) \in RlRequests /\ (AfterBucket(r).pc # "idle" =>
          AfterBucket(r).pc = "begin" /\ AfterBucket(r).bucket = "global"
          /\ AfterBucket(r).at = r.at /\ AfterBucket(r).version = 0)
  BY <1>1, RequestType, GlobalAssumption DEF RlBuckets, AfterBucket, RlIdle, RlBegin, RlRequest, RlRequests
<1>9. RateLimitType'
  BY <1>3, <1>4, <1>6, <1>8 DEF RateLimitInv, RateLimitType
(* The commit makes every other snapshot stale.                            *)
<1>10. ASSUME NEW p \in RlReqs, rlReq'[p].pc # "idle"
       PROVE  (Billed(rlReq[p]) /\ SnapshotTrue(rlReq[p]))'
  <2>1. CASE p = q
    <3>1. rlReq'[p] = AfterBucket(r)
      BY <1>6, <2>1 DEF RateLimitInv, RateLimitType
    <3> QED
      BY <1>2, <1>3, <1>6, <1>8, <1>10, <3>1, GlobalAssumption DEF Billed, SnapshotTrue, RlBuckets
  <2>2. CASE p # q
    <3>1. rlReq'[p] = rlReq[p] /\ rlReq[p] \in RlRequests /\ Billed(rlReq[p])
      BY <1>6, <1>10, <2>2 DEF RateLimitInv, RateLimitType, SnapshotsTrue
    <3>2. rlReq[p].version \in Nat /\ rlReq[p].version <= rlVersion
      BY <3>1 DEF RlRequests, Billed
    <3> QED
      BY <1>3, <1>6, <3>1, <3>2 DEF Billed, SnapshotTrue
  <2> QED
    BY <2>1, <2>2
<1>11. SnapshotsTrue'
  BY <1>10 DEF SnapshotsTrue
<1> QED
  BY <1>7, <1>9, <1>11 DEF RateLimitInv

LEMMA InitRateLimit == RateLimitInit => RateLimitInv
<1> SUFFICES ASSUME RateLimitInit PROVE RateLimitInv
  OBVIOUS
<1>1. RateLimitType
  BY RateLimitAssumption, RequestType DEF RateLimitInit, RateLimitType
<1>2. SnapshotsTrue
  BY DEF RateLimitInit, SnapshotsTrue, RlIdle, RlRequest
<1>3. BudgetHolds
  BY RateLimitAssumption DEF RateLimitInit, BudgetHolds, RlBuckets
<1> QED
  BY <1>1, <1>2, <1>3 DEF RateLimitInv

LEMMA StepRateLimit == RateLimitInv /\ [RateLimitNext]_rateLimitVars => RateLimitInv'
<1> SUFFICES ASSUME RateLimitInv, [RateLimitNext]_rateLimitVars PROVE RateLimitInv'
  OBVIOUS
<1>a. rlNow \in Nat /\ rlNow <= MaxRlTime /\ MaxRlTime \in Nat /\ rlVersion \in Nat
  BY RateLimitAssumption DEF RateLimitInv, RateLimitType
<1>1. ASSUME NEW q \in RlReqs, ClassifyRequest(q) PROVE RateLimitInv'
  <2>1. PICK b \in RlBuckets : rlReq' = [rlReq EXCEPT ![q] = RlBegin(b, rlNow)]
    BY <1>1 DEF ClassifyRequest
  <2>2. Billed(RlBegin(b, rlNow)) /\ SnapshotTrue(RlBegin(b, rlNow))
    BY <1>a DEF Billed, SnapshotTrue, RlBegin, RlRequest
  <2> QED
    BY <1>1, <1>a, <2>1, <2>2, RequestType, UncountedStep DEF ClassifyRequest
<1>2. ASSUME NEW q \in RlReqs, ReadWindows(q) PROVE RateLimitInv'
  <2> DEFINE r == rlReq[q]
             c == CountIn(r.bucket, WindowOf(r.at))
             p == CountIn(r.bucket, WindowOf(r.at) - 1)
             new == RlRequest("decide", r.bucket, r.at, c, p, rlVersion)
  <2>1. r \in RlRequests /\ Billed(r)
    BY <1>2 DEF ReadWindows, RateLimitInv, RateLimitType, SnapshotsTrue
  <2>2. c \in Nat /\ p \in Nat
    BY <2>1 DEF Billed, CountIn, RateLimitInv, RateLimitType
  <2>3. rlReq' = [rlReq EXCEPT ![q] = new] /\ UNCHANGED <<rlCount, rlVersion, rlNow>>
    BY <1>2 DEF ReadWindows
  <2>4. new.bucket = r.bucket /\ new.at = r.at /\ new.version = rlVersion /\ new.cur = c
    BY DEF RlRequest
  <2>5. new \in RlRequests
    <3> HIDE DEF c, p
    <3> QED
      BY <1>a, <2>1, <2>2, RequestType DEF Billed, RlRequests
  <2>6. Billed(new) /\ SnapshotTrue(new)
    BY <1>a, <2>1, <2>4 DEF Billed, SnapshotTrue
  <2> HIDE DEF new
  <2> QED
    BY <2>3, <2>5, <2>6, UncountedStep
<1>3. ASSUME NEW q \in RlReqs, WriteRateLimited(q) \/ FailOpen(q) PROVE RateLimitInv'
  <2>1. rlReq' = [rlReq EXCEPT ![q] = RlIdle] /\ UNCHANGED <<rlCount, rlVersion, rlNow>>
    BY <1>3 DEF WriteRateLimited, FailOpen
  <2>2. RlIdle.pc = "idle"
    BY DEF RlIdle, RlRequest
  <2> QED
    BY <2>1, <2>2, RequestType, UncountedStep
<1>4. CASE RlTick
  <2>1. rlNow' \in 0..MaxRlTime /\ rlNow <= rlNow' /\ UNCHANGED <<rlCount, rlVersion, rlReq>>
    BY <1>4, <1>a DEF RlTick
  <2>2. RateLimitType' /\ BudgetHolds'
    BY <2>1 DEF RateLimitInv, RateLimitType, BudgetHolds
  <2>3. ASSUME NEW q \in RlReqs, rlReq[q].pc # "idle"
        PROVE  (Billed(rlReq[q]) /\ SnapshotTrue(rlReq[q]))'
    <3>1. rlReq[q] \in RlRequests /\ Billed(rlReq[q]) /\ SnapshotTrue(rlReq[q])
      BY <2>3 DEF RateLimitInv, RateLimitType, SnapshotsTrue
    <3>2. rlReq[q].at \in Nat
      BY <3>1 DEF RlRequests
    <3> QED
      BY <1>a, <2>1, <3>1, <3>2 DEF Billed, SnapshotTrue, CountIn
  <2>4. SnapshotsTrue'
    BY <2>1, <2>3 DEF SnapshotsTrue
  <2> QED
    BY <2>2, <2>4 DEF RateLimitInv
<1>5. CASE UNCHANGED rateLimitVars
  BY <1>5 DEF rateLimitVars, RateLimitInv, RateLimitType, SnapshotsTrue, Billed, SnapshotTrue,
     CountIn, BudgetHolds
<1> QED
  BY <1>1, <1>2, <1>3, <1>4, <1>5, CountStep DEF RateLimitNext

(* However the billing transactions interleave and whatever the store      *)
(* fails at, no bucket counts more requests in a window than its budget.   *)
THEOREM BudgetIsKept == RateLimitSpec => []BudgetHolds
<1>1. RateLimitInv => BudgetHolds
  BY DEF RateLimitInv
<1> QED
  BY <1>1, InitRateLimit, StepRateLimit, PTL DEF RateLimitSpec
=============================================================================
