# A verification project for redxt

redxt is a single-binary DNS platform. What this repository holds is mostly its
management plane: accounts, organizations, credentials, custom domains, a task
scheduler, cluster membership, secrets, backups, and the server around them. The
Go code is under `src/src` of this checkout; paths below are relative to it.

This directory holds TLA+ models of the parts whose correctness depends on the
order of things (several nodes on one database, several requests on one account,
a process that is killed between two system calls), TLC runs that check them on
small instances, and TLAPS proofs for the parts where the argument is worth having
for every instance.

## 1. The system's parts

| Part | State it keeps | What makes it hard | What makes it correct | Module |
|---|---|---|---|---|
| scheduler (`scheduler/`, `startup/scheduler.go`) | `scheduler_tasks`, `scheduler_history`, `cluster_locks`; one entry per task in memory | many nodes, leases, retries, restarts, times captured early | a lease excludes, no occurrence repeats on a node, no storm after an outage, Stop drains and returns | `Scheduler`, `TaskLease` |
| cluster membership (`database/cluster.go`) | `cluster_nodes` | liveness derived from age, no messages | dead nodes lose the role, working ones keep it, operator marks survive | `Cluster` |
| secrets (`database/secret.go`) | `app_secrets` versions | first use races, rotation during use | one value per version on all nodes, a rotated version lives through its window | `Secrets` |
| accounts (`server/service/auth.go`, `account.go`) | `users`, `user_sessions`, `password_resets`, `email_verifications` | chains of statements without a transaction | old sessions and tokens die with the password, a token works once | `Accounts` |
| second factor (`account.go`, `store/totp.go`) | `totp_secrets` | read-modify-write of the code list | a spent recovery code comes back only by a racing write of the list | `TwoFactor` |
| registration (`auth.go`, `org.go`, `user/mode.go`) | `users`, `organizations`, `invitations` | four transactions for one account | an invitation lets in no more accounts than it has uses | `Signup` |
| organizations and tokens (`org.go`, `token.go`) | `organizations`, `organization_members`, `zone_grants`, `invitations`, `api_tokens` | decisions on copies that are stale when the write comes | removed members are locked out, ownership comes from owners, quotas and single uses hold | `Orgs` |
| custom domains (`service/domain.go`) | `custom_domains` | a DNS lookup and an order between read and write, ids that come back | only a proven name is served | `Domains` |
| administrator (`server/admin`, `backup/setup.go`, `startup/service.go`) | `admins`, the setup token's hash | two databases, nodes that start together | the token a banner shows is accepted | `Admin` |
| HTTP surface (`server/middleware`, `server/handler`) | the request | stages whose decisions depend on later ones, three route tables | a request does what its credentials and its origin allow | `Requests` |
| rate limiter (`middleware/ratelimit*.go`) | `rate_limits` | concurrent billing, store errors let through | no bucket over its budget | `RateLimit` |
| cache and its lock (`cache/`) | entries with expiry | expiry and sweep between two calls | a lock has one holder within its ttl | `CacheLock` |
| server process (`startup/`, `pidfile/`, `signals/`, `server/server.go`) | what is up, the PID file, the ports | a failure half-way, kills, a second process, work in flight | what was started is stopped in order, stores outlive their users, a signal ends the process | `Lifecycle` |
| configuration (`config/`) | `server.yml` and its value in memory | repairs that feed each other, starts that fail half-way | what validation parses is usable, a restart changes nothing | `Config` |
| TLS certificates (`ssl/`) | chain and key files, responders, what is served | concurrent issuers, two files, failures | the listener serves its own matching pair | `Certificates` |
| backup (`backup/`) | archives and their records | overlapping runs, failed verification, tiers and a cap, kills | a sweep leaves a backup to restore from | `Backup` |
| logging (`logging/`, `security/redact.go`) | live and rotated files | system calls of a rotation, nested fields | no record lost, no line forged, nothing secret shown | `LogFile`, `LogLines` |
| overlay networks (`overlay/`) | a child process, a key, a port | a monitor, operations and Close on one mutex | the address persists, Close returns | `Overlay` |
| self update (`update/`) | the binary | transfers that break, two updaters | only verified releases are installed | `Update` |
| URL variables (`urlvars/`) | trusted peers, samples of host names | headers anybody may send, samples that age | strangers' headers count for nothing, a wildcard is earned | `UrlVars` |
| GeoIP (`geoip/`) | files and open readers | refresh under lookups, partial downloads | a refresh is all or nothing | `GeoIP` |

The parts meet in the database and in the process: the scheduler runs
`cluster_heartbeat`, backups, renewals, updates and the clean-up tasks, `NodeID` and
the setup token come from `EnsureSecret`, the middleware calls `ResolveSession` and
`AuthenticateToken` on every request, handlers call one service operation each, and
`Lifecycle` brings all of them up and down. There is no message passing between
nodes.

`PROJECT.json` lists every part with its files (also those that are not modelled,
with the reason), the places in the code that are hard to test (`hazards`), and for
each the property that would catch it.

## 2. Modules

Each component is a module with its state as variables and one action per statement,
transaction, critical section or channel operation of the code: that is the grain at
which other goroutines and nodes interleave. Definitions whose comment begins with
*Mutant* are deliberate wrong versions of the definition that follows them; no
specification uses them, they exist to show that the properties can fail.

### Scheduler

`Scheduler.tla` models every process of a deployment running `scheduler.Scheduler`
on one database.

* `rows` is `scheduler_tasks`, `locks` is `cluster_locks`, `history` is
  `scheduler_history`; `next`, `enabled` and `pc` are the fields of an `entry` and the
  position of its goroutine; `at` is the `now` that `runEntry` captures before it does
  anything; `wg` and `stop` are the WaitGroup and the stop channel.
* `Seed`, `Load`, `Persist`, `StartLoop` are `Start`; `Tick` is `tick`; `Begin`,
  `Acquire`, `Exec`, `RetryFires`/`RetryStopped`, `Exec2`, `Record`, `Release`,
  `Finish` are `runEntry` with `execute` and its deferred calls in their order; `Stop`,
  `LoopExit`, `StopReturns`, `Exit` are the end of the process.
* A schedule is a period: cron tasks are due at its multiples, `@every` tasks one
  period after they last began. Handlers are opaque: they succeed or fail.
* Faults (`MaxFaults`): the process dies at any point, a drain is aborted by its
  context, a statement fails (acquiring or releasing the lock, recording the run,
  writing the next time).
* `TaskLease.tla` is what a cluster-aware task is promised: a node enters a task only
  when nobody is inside within the term of a lease. `ImplementsLease` is that
  specification with `inside` taken to be the nodes that hold the task and are within
  the term they were granted.

### Cluster

`Cluster.tla` models `cluster_nodes`. Only differences of times matter, so a row
keeps the age of `last_seen`. `NodeState`, `EffectiveState`, `HealthyNodes`, `Primary`,
`HasQuorum` are the pure functions of the code, `Heartbeat`, `MarkNodeState`,
`PruneNodes` its statements. A heartbeat may be written late (`WriteDelay`) and ticks
may be dropped (`MaxSilence`).

### Secrets

`Secrets.tla` models one name of `app_secrets`. `EnsureSecret` is three statements
(read, insert-or-nothing, read again), `RotateSecret` a transaction with a time taken
before it, `PruneSecrets` one statement; a process may crash between any two. `issued`
and `deadline` remember what was first stored and what window was promised.

### Accounts

`Accounts.tla` models the credentials of one account. No service call runs in a
transaction, so each is a chain of statements held in `pc`/`arg` per request. `Abort`
ends a request after any of them: an error, a client gone, a crash. `doomed`,
`revoked`, `leftover` and `redeemed` are history. Sessions and tokens are random, so
each identifier is used once. `TwoFactor` and `Signup` are modules of their own.

### Orgs

`Orgs.tla` models one shared organization. An operation reads the organization
(`Request`), the caller's membership (`AccessMember`, with the permission checks of
each operation in `Checked`), for some the target's membership (`ReadTarget`), and
writes on those copies in one statement or transaction. Deletion cascades and foreign
keys forbid orphans as the schema says. Invitations are for one use; expiry, the
personal organization (whose operations are refused), profile fields and the audit
trail are left out. The configuration lets admins invite.

### TwoFactor, Signup, Admin

`TwoFactor.tla`: a request reads the `totp_secrets` row in one statement and writes it
in another. `StartTwoFactor`, `ConfirmTwoFactor`, the check of a code or recovery code and
`DisableTwoFactor` interleave freely; a recovery code is the seed it was issued with and
its position, so that a list written back late is told apart from the one it lands on.
`contested` remembers the codes that were spent while another request stood between
reading a list with them and writing it back: these, and no others, the code may accept
again.

`Signup.tla`: `Register` redeems the invitation, inserts the account, creates its
personal organization and joins the inviting one, each in its own transaction, and may
break off after any; `CreateOrg` competes for the same names.

`Admin.tla`: the first run of several nodes on one pair of databases, the setup
wizard, sign-in and sign-out, and `--maintenance setup`.

### Requests, RateLimit

`Requests.tla` follows one request through the chain of `middleware/chain.go` in its
order (normalisation, path checks, CORS, CSRF, access lists, rate limit, GeoIP,
authentication) to the guard of its route. The three route tables (REST, the
documentation of the REST API, pages) are transcribed as sets of routes with their
guard, operation and the permission the operation asks for; the property compares
what is enforced with what is documented. A request is any combination of route,
credentials, origin and CSRF token. `AuthWirings` lists the cookies the authentication
stage may have been told of: the code's own start names none, the middleware's
contract is one.

`RateLimit.tla` bills one client's requests: a transaction reads two windows, decides,
and increments; a snapshot that is no longer current cannot commit; errors let the
request through.

### Domains, CacheLock, Certificates

`Domains.tla` has claims with ids that SQLite may give out again, verification around
a DNS lookup, suspension, release and the certificate flag. `CacheLock.tla` has one key
of the memory driver, the janitor and `WithLock` as `SetNX`, the operation, `Get` and
`Delete`. `until` is when the ttl of each goroutine's claim runs out, whoever's entry is stored by
then. `Certificates.tla` has the lookup order, issuers (startup, renewal,
custom domains) that arm a responder, wait for the CA, write two files and install
the pair, any of them cut short; the CA and certbot are external.

### Lifecycle, Overlay

`Lifecycle.tla` has a server process from the bootstrap log to its end: the PID file's
check, removal of a stale one and write; configuration, databases, listeners, overlays,
scheduler; requests, tasks and a certificate order in flight; the signal channel; the
shutdown sequence with its drains; unwinding of a failed start; kills. Processes share
the PID file and the ports. `Overlay.tla` has a manager with its mutex, its monitor,
the operations that restart it, and `Close`; a start may fail before or after it has
stored a new key.

### Config, Backup, LogFile, LogLines, Update, UrlVars, GeoIP

`Config.tla` represents settings that are checked alike by one, keeps those that are
compared with one another apart, and runs `Load` (with its repairs in the order of
`Validate`), the environment, the flags, the generated key and port, and the registration
of the tasks that ends a start with an invalid schedule, over edits by an operator and
several starts; a configuration lists the settings that differ from `DefaultConfig`.
Every write of the file is `os.WriteFile`: `Save` empties it or fails, `WriteSaved` fills
it, and the process may end in between. `Backup.tla` has overlapping runs that write,
verify, record and sweep, and a restore file by file; files have sizes, and a sweep
deletes by tier and then the oldest until the rest fits the cap. `LogFile.tla`
has a rotation as its system calls, external rotation and retention. `LogLines.tla`
has routing, redaction and sanitizing as functions of a record. `Update.tla` has
releases that appear over time, two updaters, and the choice by branch, age and soak
window. `UrlVars.tla` has the resolution functions and the samples learned from
proxies. `GeoIP.tla` has the readers, the download task, the swap and lookups that
hold readers, which a swap or the shutdown may close under them.

### MC modules

`MCScheduler` instantiates the scheduler. `MCIdentity`, `MCTenancy`, `MCNode` and
`MCServer` each put several components side by side: a behaviour chooses one `part` at
the start, runs it and leaves the others in their initial state, so the state spaces
add up and do not multiply. `Parts` in a configuration restricts the choice. `MCServer`
has a VIEW that tells states apart by the variables of their part only and, for backups
and configuration, leaves out what neither a later step nor a property of the run reads:
what an idle backup run was last called with, the outcome of a restore that is over,
history that no longer decides a property, the file after the last start. The
components of a suite do not share variables; where they share state in the code, the
module that needs it has it (`Lifecycle` has the stores, the scheduler's tasks and the
certificate order; `Signup` the organizations).

### Proof modules

The proof modules extend the component modules and hold nothing but invariants, lemmas
and theorems. `SchedulerProofs`, `SecretsProofs`, `CacheLockProofs` and
`RateLimitProofs` are about one component each; `IdentityProofs` is about `Accounts`,
`TwoFactor`, `Admin`, `Signup` and `Requests`, `TenancyProofs` about `Orgs`, `Domains` and
`Certificates`, `NodeProofs` about `Cluster`, `Lifecycle` and `Overlay`, `ServerProofs`
about `Update`, `LogFile`, `LogLines`, `Backup`, `GeoIP`, `UrlVars` and `Config`. Where a component module has no `Spec` of its
own, the proof module writes it down (`BackupSpec`, `CertSpec`, ...): its `Init`, and
always its next-state relation, as the suites run it.

## 3. Runs

| Run | Instance | What it shows |
|---|---|---|
| `sched_cluster` | 2 nodes, 1 cluster-aware cron task with retry, 1 fault, 3 time units | `LeaseExclusion`, `LeaseHeld`, `NoStorm`, and the refinement `ImplementsLease` |
| `sched_single` | 1 node, a cron and an `@every` task, stops and restarts | `OncePerOccurrence`, `RunsAccounted`, `DisabledNeverRuns`, `NextRunNeverBack`, and with fairness `DueIsHandled`, `StopTerminates` |
| `identity` | accounts, second factor, sign-up, administrator, requests, rate limiter; 2 requests each | `AccountsSafe`, `EndedStaysEnded`, `TwoFactorSound`, `SignupSound`, `BannerTokenAccepted`, `RequestsSound`, `BudgetHolds` |
| `tenancy` | an organization (3 users, 4 requests), domains (2 organizations, 2 names), 3 lockers on 2 nodes, 2 hosts' certificates | `OrgsSafe`, `OwnershipFromOwners`, `DomainsSound`, `LockExcludes`, `CertificatesSound` |
| `node` | 2 cluster processes, 1 server, Tor or I2P with 4 starts and 2 faults | `MembershipSound`, `MarksAreSticky`, `AddressPersists`, and with fairness `MembershipSettles`, `TermStops`, `CloseCompletes` |
| `server` | secrets of 2 nodes, configuration over 2 edits and 2 starts, 2 server processes, backups, logs, updates, GeoIP, URL variables | `Agreement`, `CurrentNeverExpires`, `WindowKept`, `LoadedIsUsable`, `RestartKeepsSettings`, `LifecycleSound`, `ABackupSurvives`, `AckedIsKept`, `LinesPlainRedactedRouted`, `BinaryVerified`, `RefreshAllOrNothing`, `UrlVarsSound` |
| `sched_once` | 2 nodes, 1 cluster-aware task | fails: both nodes run one occurrence, one after the other |
| `accounts_resets` | 2 requests, 2 reset tokens | fails: a completed reset leaves another token redeemable |
| `requests_token` | a token narrowed to viewer, issued by an admin | fails: it performs what the admin may |
| `orgs_owner` | 3 users, 2 requests | fails: a removal overtaken by a transfer removes the new owner |
| `update_downgrade` | a hand-installed release inside the soak window | fails: the scheduled check installs an older one |
| `overlay_dead` | a Tor process that dies | fails: no reachable process ever replaces it |

A property named `...Sound` or `...Safe` is the conjunction of the module's type
invariant and its named safety parts, each with a comment of its own: for instance
`AccountsSafe` is `ChangeEndsSessions`, `ChangeRevokesResets` and `ResetSingleUse`,
`OrgsSafe` is `RemovedIsLockedOut`, `InviteNotOverused`, `NoOrphans` and
`QuotaOverrunBounded`, `LifecycleSound` is `NothingLeaks`, `StoresOutliveWork` and
`PIDNamesServer`.

The failing runs each check one sentence of the repository against the code; the
sentence is quoted in `PROJECT.json` under `findings`.

**Further disagreements.** Each of these is stated in its module, with the sentence of
the code it comes from, and fails on the instance of its suite: name it in a copy of the
suite's configuration in place of the properties, set `Parts` to the part and leave out
the VIEW of `MCServer`, which is made for the properties of its run.

| Property | Module, part of suite | What happens |
|---|---|---|
| `RemovedDoesNotRejoin` | `Cluster`, `cluster` of `MCNode` | a removed node whose row was pruned by age inserts a healthy one |
| `FirstWriterStands` | `Secrets`, `secrets` of `MCServer` | a first use delayed past a rotation and a prune stores version 1 again |
| `PasswordGuardsDisable` | `TwoFactor`, `twofactor` of `MCIdentity` | an enrollment begun before the confirmation of another replaces the confirmed one, without the password |
| `RecoveryAcceptedOnce` | `TwoFactor`, `twofactor` of `MCIdentity` | two requests read the list before either writes it back, and both accept one code; or the later write puts back the code the earlier one spent |
| `EarlierCodesReplaced` | `TwoFactor`, `twofactor` of `MCIdentity` | a request that spent a code writes the rest of the old list over a new enrollment's |
| `EveryAccountHasHome` | `Signup`, `signup` of `MCIdentity` | a registration that breaks off, or loses its slug, leaves an account without an organization |
| `RecoveryTokenAccepted` | `Admin`, `admin` of `MCIdentity` | the token the recovery command prints is not one the wizard accepts |
| `SignedInRecognised` | `Requests`, `requests` of `MCIdentity` | with the wiring of `startup/http.go` the session cookie is not looked at |
| `RetryAfterIsEnough` | `RateLimit`, `ratelimit` of `MCIdentity` | a client that waits as told is refused again |
| `VerificationNeverAssumed` | `Domains`, `domains` of `MCTenancy` | a verification activates a new claim that was given the old one's id |
| `ReleaseFreesOwn` | `CacheLock`, `cachelock` of `MCTenancy` | the entry expires and is claimed again between the `Get` and the `Delete` of `Release`, which then frees the new holder's lock; or another goroutine of the same node has claimed it, whose value is the same |
| `PairsIntact` | `Certificates`, `certificates` of `MCTenancy` | two issuers for one host leave a chain and a key that do not match |
| `VerifiedStaysRestorable` | `Backup`, `backup` of `MCServer` | the only backup is deleted in the sweep of the run that made and verified it: when it falls on a Sunday or a first day, whose tiers keep none by default, or when it alone is above `max_total_size` (10% of the volume by default); and a broken file of a failed write takes the place of the valid one in the next sweep |
| `NoSideEffects` | `Backup`, `backup` of `MCServer` | a run that wrote over a valid archive and fails verification deletes it |
| `NamesSortChronologically` | `LogFile`, `logfile` of `MCServer` | a rotation gets an earlier name than an older file once retention has freed it within the same second |
| `EverySettingRepaired` | `Config`, `config` of `MCServer` | an invalid task schedule or `max_total_size` is kept; the schedule then fails the start, the cap is ignored |
| `KeyIsKept` | `Config`, `config` of `MCServer` | a start killed between emptying `server.yml` and writing it leaves an empty file, and the next start generates another encryption key |
| `RuntimeEnvNotPersisted` | `Config`, `config` of `MCServer` | a value from the environment is written to `server.yml` with a later save |
| `FileFollowsLoad` | `Config`, `config` of `MCServer` | an empty setting replaced by its default is not written back |
| `NoLookupOnClosed` | `GeoIP`, `geoip` of `MCServer` | a lookup that took a reader before a swap uses it after the swap has closed it |
| `PreviousReadersStay` | `GeoIP`, `geoip` of `MCServer` | a downloaded file that does not parse replaces a working reader by none |

**Bounds.** The scheduler's clock stops at 3 with a lock TTL and a catch-up window of
1: a lease can run out, be taken over and be released late, and an outage can be
longer than the window. In `sched_cluster` the task is due at every instant and a VIEW
leaves out `ran` and `history`, which no action reads. `Cluster` needs no bound on
time; the ages 2/6/7/8 keep the 1:3 of heartbeat interval (30 s) and timeout (90 s)
and the order of the rest, and leave room for one dropped tick and a slow write.
`Secrets` has three versions so that a version can be superseded twice while a node is
stuck on the first. `Accounts` counts one failed login as enough to lock. Two requests
suffice for the races the code guards against (a token used twice, a statement between
two others); `MaxRequests` of `Orgs` is four because its longest scenario needs four.
`TwoFactor` has two seeds, so a write can land on a later enrollment, and two recovery
codes for each, so a late write can restore a spent one; `Domains` one id
and two tokens, so an id comes back for a new claim; `CacheLock` three lockers, two of
them of one node, over three times the ttl; `Certificates` three orders for two hosts,
of which one may fail or be cut short; `Overlay` four starts and two faults, enough for
a death, a failed restart and an operation in between; `Config` two edits before the
last start, two starts and a random port of its own for each start; `Backup` two days in
two tiers, of which the daily keeps two files and the weekly none, sizes one and three
under a cap of two, so that sweeps by tier and by size happen and a file can be above
the cap on its own (what is partly written has no size), and one failed write, kill or
restore; `LogFile` five records, one per file and one rotated file kept; `LogLines` messages of four character classes, enough for an escape
sequence within one; `Update` five releases of three kinds over seven days with a soak
of two; `GeoIP` four opened readers, so a refresh follows a refresh; `UrlVars` a window of
one unit over three. Faults are bounded by the `...Faults` constants. The identifiers
are interchangeable, so the safety runs use symmetry; the runs with liveness do not.

`CHECK_DEADLOCK FALSE` is set in every run: clocks, tokens, requests and starts run
out, and a server may be off for good.

**Fairness.** `Scheduler!FairSpec` assumes that the Go runtime runs every runnable
goroutine, that the ticker and the retry timer fire, and that handlers return; no
start, stop, fault or tick of the clock is forced. `Cluster!Fairness` assumes that time
passes and that a running process's heartbeat task is run, which is what the scheduler
does. `LifecycleFairness` assumes that the signal listener and the shutdown sequence
run and that a cancelled certificate order ends; requests and tasks may run forever.
`OverlayFairness` assumes that the monitor's ticker fires and that calls that hold the
mutex return. Nothing is assumed of operators, and nothing of faults.

## 4. What is proved

The theorems hold for any sets of nodes, tasks, requests and goroutines, any schedules,
budgets and bounds that satisfy the named assumptions of the modules.

`SchedulerProofs`

* `TypeCorrect`: `TypeOK`.
* `LeaseIsKept`, `MutualExclusion`: `LeaseHeld` and `LeaseExclusion`. The inductive
  invariant is `TypeOK /\ Past /\ LeaseHeld`, where `Past` says that the time a worker
  captured is not in the future. Exclusion is not inductive by itself, because the
  guard of `acquireLock` looks at the row and not at the other node; `LeaseHeld` ties
  the two: inside its lease a worker's row is its own, so no other node finds it free
  or expired.
* `LeaseRefinement`: `ImplementsLease`, the refinement of `TaskLease`. Every action
  but `Acquire` brings nobody inside and is a lapse (or a stutter) of the abstract
  lease; a successful `Acquire` finds nobody inside by the same invariant, so it is an
  `Enter`, unless its own term is over before it is granted, which is a stutter.
* `OffStaysOff`: `DisabledNeverRuns`. The invariant follows an entry through start-up:
  a row that is past `Seed` is seeded, an entry that is past `Load` agrees with its
  row, and a running entry is enabled.

`SecretsProofs`

* `TypeCorrect`, `NodesAgree`, `CurrentIsPermanent`, `WindowIsKept`: `TypeOK`,
  `Agreement`, `CurrentNeverExpires`, `WindowKept`. The invariant says that either no
  secret exists or exactly one version is on top: it is stored, has no expiry, and
  every version in its window has the value it was issued with; and that what a node
  holds is what was issued under that number. A second version 1, the counterexample to
  `FirstWriterStands`, lies below the top and is read by no one, which is why agreement
  survives it.

`CacheLockProofs`

* `LockExclusion`: `LockExcludes`. The invariant says that while anybody is inside within
  the ttl of its own claim the stored entry is its own (`until` is what it expires at),
  unless a `Release` was `mistaken`: so a claim or a sweep finds no such goroutine, and a
  `Delete` that follows a `Get` removes either the releasing goroutine's own entry or, if
  it is overdue by then, another's, which is what `mistaken` remembers and
  `ReleaseFreesOwn` shows. An operation that overran its ttl excuses nothing by itself.

`RateLimitProofs`

* `BudgetIsKept`: `BudgetHolds`. The decision is taken on counts read earlier; the
  invariant says that a transaction whose snapshot is current has read the stored
  count, and a commit makes every other snapshot stale. That room in the weighted sum
  is room in the current window is a lemma (`RoomLeft`).

`SchedulerProofs`, times and restarts

* `NoStormEver`: `NoStorm`. `TimesInv` follows a time from the row to the worker: an
  entry of a running loop lies within the window of its process's start, what a tick
  hands to a worker was due when the worker captured `at`, and what a worker runs was
  so captured.
* `StopIsDrained`, `RunsAreAccounted`: `RunsAccounted`. `CountInv` says that `wg` is the
  number of running entries plus one for the loop, so zero means nobody is left;
  `StopIsDrained` needs no restriction on faults. `RecordedInv` says that a run not yet
  in `scheduler_history` belongs to a worker about to record it; a failing `INSERT` or a
  kill breaks it, hence `faults = 0` in the statement, which is the instance
  `sched_single` checks.
* `NextRunOnlyForward`, `RunsOnce`: `NextRunNeverBack` and `OncePerOccurrence`, for one
  node (`Nodes = {the}`); with two nodes both are false (`sched_once`). `AheadInv` says
  that the time a loaded entry has in memory is not behind the row's. The first theorem allows any faults; the second does not,
  since a kill after the run and before the write of `next_run_at` repeats the
  occurrence. `BehindInv` puts every occurrence already run before
  the row's next one, or with the worker that has just run it.

`NodeProofs`

* `MembershipIsSound`, `MarksStick`: `MembershipSound`, `MarksAreSticky`. The age of a
  row is tied to what the processes of its node did: it is at least the silence of all
  of them (`AgedAsSilent`) and at most that of a working one plus a write's delay
  (`FreshAsBeaten`). The second needs `MaxSilence + WriteDelay < HeartbeatTimeout`, an
  assumption of `Cluster` which the code's 30 s and 90 s meet.
* `LifecycleIsSound`: `LifecycleSound`. `LifecycleInv` says for each stage of a start and
  a shutdown what the process holds, who owns the port, and which work may be in
  flight.
* `AddressIsKept`: `AddressPersists`. Unless another key was asked for since the service
  was last up (`ovRekeyed`), the stored key is the one behind the published address and
  can be read by the provider in use, so a start that fails, late or early, finds it and
  stores no other; and outside the critical sections nothing is alive but the current
  service. The
  property speaks of managers that run their service the same way each time
  (`ProviderStays`: Tor's, and I2P's unless i2pd comes and goes): neither I2P provider
  reads the other's key, so a manager that changes provider changes its address.

`IdentityProofs`

* `AccountsAreSafe`, `EndedIsOver`: `AccountsSafe`, `EndedStaysEnded`. For each place at
  which a request can stand, `AccountsInv` says what is still to be ended by it
  (`DoomedEnd`, `RevokedEnd`), that the one who redeemed a token is past the guarded
  update (`OneRedeems`), and that `ev-status` is reached with the address verified.
* `TwoFactorIsSound`: `TwoFactorSound`. Codes of seeds not yet stored are spent nowhere
  (`PendingFresh`, `FutureFresh`). Of a code that was spent and not contested no request
  is about to write a list with it, and the stored list has it only while the request
  that spent it is about to write its own (`SpentSettled`).
* `BannerIsAccepted`: `BannerTokenAccepted`, which is inductive with the shape of the
  state: a node announces only after its own insert, and the first insert stands.
* `RequestsAreSound`: `RequestsSound`, for any wiring and roles. `RequestsInv` carries
  along the chain what a later stage relies on: past the CSRF stage the request has
  passed it, what was done was let on by the route's guard, and CORS allows credentials
  to the server's own origin only. The route tables enter by facts about their rows (a
  guard is at least as strict as the credential documented for its operation).
* `SignupIsSound`: `SignupSound`. The uses counted cover the accounts let in and the
  registrations between redeeming and inserting (`UsesCover`), with the library's facts
  about cardinality.

`TenancyProofs`

* `OrgsAreSafe`, `OwnersMakeOwners`: `OrgsSafe`, `OwnershipFromOwners`. `OrgsBase` relates
  the copies a request decided on to what has been true since it began (`SinceMember`,
  `OwnersStand`) and the rows to one another (`RowsFit`, `JoinsOnce`); `QuotaInv` bounds
  the tokens by the cap and the requests that passed the count.
* `DomainsAreSound`: `DomainsSound`. A request between its read and its write holds a row
  that is unchanged, gone, or given to a new claim (`HoldsRow`); the last is the case the
  property sets apart and `VerificationNeverAssumed` shows.
* `CertificatesAreSound`: `CertificatesSound`, for every challenge; what it says of the
  responders is about http-01, which answers by token. Orders in flight are distinct and
  their tokens are exactly what the responders hold; what is served came from one order.

`ServerProofs`

* `BinaryIsVerified`: `BinaryVerified`. A download that is about to be renamed is the
  whole of a release that ships its checksums.
* `AckedStaysKept`: `AckedIsKept`. Between the choice of a rotated name and the rename no
  other file has that name, compressed or not (`NameIsOurs`).
* `LastBackupSurvives`: `ABackupSurvives`, for any counts, sizes and cap. The lemma behind
  it is that of the files the tiers keep a sweep spares the latest unless that one is
  above the cap alone, which `oversized` remembers; the sizes of a set of files add up by
  the library's facts about cardinality. The exceptions in the statement (a tier that
  keeps none, an oversized file, a valid file written over, a broken one counted) came
  out of the proof and out of TLC; `VerifiedStaysRestorable` is the statement without
  them, and fails.
* `RefreshIsAllOrNothing`: `RefreshAllOrNothing`. Readers in use, about to be installed
  and about to be closed are different ones (`ReadersApart`, with the facts about
  cardinality that make the readers of a load new), and a swap that replaces readers of a
  running server has everything fetched (`SwapEarned`).

* `LinesArePlain`: `LinesPlainRedactedRouted`, for messages of any length. `Sanitize`
  walks a message by a recursive function. In place of an induction rule, which the
  provers cannot instantiate, the proof looks at the last index at which the walk would
  go wrong, a least element of the distances from the message's end (`LeastExists`, from
  the library's theorem that every set of naturals has one).
* `UrlVarsAreSound`: `UrlVarsSound`. No stranger is among the trusted peers
  (`NoStrangers`), and every sample still in the window is one a trusted peer vouched for
  (`SamplesVouched`); a base domain is reported only if the samples in the window have
  enough distinct hosts under it, pruned or not.
* `LoadedConfigIsUsable`, `RestartsKeepSettings`: `LoadedIsUsable`,
  `RestartKeepsSettings`. Each of the 23 sections of `Validate` is described by the
  settings it may change, what it establishes of them, and that it changes nothing where
  that holds already (`Section`, `...Good`). No later section changes what an earlier one
  relies on (`CoreKept`, `PeopleKept`), so one pass makes them all agree
  (`ValidateSection`) and a file that agrees is loaded as it is (`GoodReloads`). A random
  port is drawn only with a warning, and a warning has the file written, so what is
  loaded once is loaded again (`LoadsAgain`). `ConfigInv` adds that outside a save the
  file stands for what is in memory and for what the server last ran with, key included,
  unless a start ended within a save (`cfTorn`), which `KeyIsKept` shows to be needed.

Only model-checked: the liveness properties `DueIsHandled`, `StopTerminates`,
`MembershipSettles`, `TermStops` and `CloseCompletes`, since the prover has no rules for
fairness. Every other property of a passing run is stated by a theorem above; where a
theorem has a hypothesis (one node, no faults), the property is false
without it, and its entry above, a failing run or the table of further disagreements
says how.

## 5. What is not modelled

Left out for good: formatting, wording, HTML, translation, flag parsing, SQL text,
cryptographic primitives (their outputs are unforgeable values), third-party protocols
(ACME, SMTP, Tor and I2P control, DNS), the calendar arithmetic of cron expressions,
GraphQL and OpenAPI (text over the same services), health and metrics (read-only), the
command line client, the agent, service installation. A statement or a transaction of
the database is one step; connection pooling and its timeouts are not modelled.

What the models leave out of the parts they cover is in the notes of `components` in
`PROJECT.json`: among them cache eviction and the driver that caches nothing, DNS-01
challenges, the replacement of the binary on Windows, and expiry of invitations.

Worth adding next: a composition of `Domains` with `Certificates`; the search of
`schedule.Next` checked against "the first matching minute".
