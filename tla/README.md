# Verification of the runner scaler

This directory holds a TLA+ development of `runner-manager`, a daemon that
watches GitHub for queued jobs and keeps the right number of self-hosted runners
alive on one host. The modules are read from the Rust source under `crates/`;
paths below are relative to the repository, in the table to `crates/`. `PROJECT.json` ties every definition
to the lines it models.

## 1. The system

One daemon process runs on a host. It is a single-threaded tokio executor
(`crates/app/src/cli/mod.rs`, `crates/app/src/cli/daemon.rs`): two tasks
interleave only where one of them awaits. The daemon first recovers every
attempt it finds in its journal, serially, and only then spawns one loop per
target (a repository or an organisation). Each loop polls GitHub, decides how
many runners its policy needs, starts them one at a time and supervises those it
has. Runners are processes of the operating system and outlive the daemon
(`KillMode=process`), as do their registrations on GitHub. Other processes touch
the same state: an operator's CLI rewrites the host record, a Windows watchdog
may terminate the WSL distribution the daemon runs in, and the service manager
restarts a daemon that died, up to a limit.

| Component | State it keeps | Operations | Talks to | What makes it correct |
|---|---|---|---|---|
| runner attempt (`domain/src/attempt.rs`) | state, outcome, runner id, process id of one attempt | `transition`, `conclude`, `recovery_decision`, `counts_against_capacity` | pure | edges are legal, one verdict per attempt, a terminal attempt never counts again |
| capacity allocator (`domain/src/capacity.rs`) | none | `headroom`, `allocate` | pure | a grant fits the host, the policy and the demand; no wrapping arithmetic |
| reconcile loop (`agent/src/reconcile.rs`) | demand and budget of one pass | `start_runners`, `allocate_only`, `clean` | allocator, journal, host record, lock, lifecycle | two loops never take one slot, one demand is answered once |
| native runner lifecycle (`agent/src/lifecycle.rs`) | child map, exit codes, files in the runtime directory | launch, `supervise`, `reconcile_one`, `terminate`, `deregister_runner`, `clean_or_quarantine` | GitHub, processes, journal | the journal's verdicts are true, a running runner keeps its slot, a dead one gives it back |
| attempt journal store (`domain/src/store.rs`) | one row per attempt | `record_attempt`, reads | SQLite | rows go forward only, although a write replaces the row unconditionally |
| target loops and startup (`app/src/cli/daemon.rs`) | the set of loops | start-up recovery, spawn, drain, heartbeat | everything above | recovery ends, no loop runs before it |
| WSL launch fence (`platform/src/wsl/fence.rs`) | a directory, a drain request, a heartbeat | claim, release, reclaim, clear, retire | guest and Windows through a file system | mutual exclusion of launch and termination with no lock and any crash |
| WSL recovery watchdog (`app/src/cli/wsl_watchdog.rs`, `platform/src/wsl/recovery.rs`) | `Tracker`: failures, generation, `fence_held`, confirmations | `observe`, `update_guest_quiescence`, `github_inventory`, `decide`, `recover_named` | fence, GitHub, WSL | terminates only on complete evidence and under the fence, and lets go again |
| scale policy (`domain/src/policy.rs`, `app/src/cli/policy.rs`) | policies and their revision | set, disable, remove | store, loops' copies | a change reaches every loop, and none is lost to an attempt under way |
| workspaces and slots (`agent/src/lifecycle.rs`, `app/src/cli/workspace.rs`, `platform/src/runner_root.rs`) | slot directories, leases in the journal | allocate, roll back, scrub, quarantine, set-workspace | lifecycle, loops, operators | one runner per slot, its work kept, its files gone, its slot given back |
| runner package cache (`agent/src/package.rs`) | version directories, manifests, leases, prints | install, reinstall, lease, release, prune | lifecycle, GitHub, jobs of the same account | nothing too old is run, nothing leased is removed, launches go on |
| GitHub demand (`github/src/demand.rs`, `rest.rs`) | shared readings and their gates, the rate-limit hold | reading of a repository, `hold_for`, `held`, `clear_hold` | all loops | quiet while GitHub asks for quiet, readings recent |
| polling (`agent/src/reconcile.rs`, `app/src/cli/daemon.rs`) | schedule, offline episode, wake permit | `next_poll_with`, sleep, wake, drain | demand, coordinator link, daemon | jobs are noticed, drains end and start nothing |
| coordinator (`coordinator/src/*`, `app/src/cli/coordinator.rs`) | invites and hosts (stored), registry and deliveries (in memory), the host's key and setting | enrol, revoke, connect, register, describe, wake; join, leave | several hosts, webhooks | the registry names who is served, a revoked host goes, a joined one comes online |
| daemon update (`app/src/cli/update.rs`) | binaries | drain (in `Polling`), replace | loops | every job ends first |
| isolated providers (`agent/src/oci.rs`, `lifecycle/windows_hyperv.rs`) | containers, virtual machines | prepare, start, destroy | lifecycle | not modelled (section 8) |
| secrets, service files, UI, logging, Docker and dependency caches | - | - | - | not modelled (section 8) |

What is hard here: several loops sharing one capacity; rows read once and written
back whole many awaits later; a daemon that dies between any two durable writes
and whose successor must infer what happened from files, a process table and a
sampled inventory; a deletion or registration whose answer is lost; two sides of
a file-system boundary that no lock spans; memory of a claim
(`fence_held`) that outlives the directory it stands for; and work that must end
(a slot returned, a directory cleaned, a fence freed, a job noticed, a drain
ended, a host online again); copies of a setting that another process rewrites;
connections of one host that overlap; directories that jobs, running under the
same account, may change. `PROJECT.json` lists these
under `hazards`, each at its line.

## 2. Modules

| Module | Models | Uses |
|---|---|---|
| `Attempt` | constant operators: states, `LEGAL` edges, terminal states, outcomes, `CountsAgainstCapacity`, `RecoveryDecision` and its parts | - |
| `AttemptJournal` | **abstract**: what the journal promises about an attempt | `Attempt` |
| `Allocation` | all target loops of a host, the lock, the journal as counted rows, the operator, daemon death | `Attempt` |
| `AllocationProofs` | the theorems about `Allocation` | `Allocation`, TLAPS |
| `Lifecycle` | launch, supervision, start-up recovery and cleanup of native attempts with GitHub, processes, files and crashes; implements `AttemptJournal` | `Attempt`, `AttemptJournal` |
| `LifecycleProofs` | the theorems about `Lifecycle`, the refinement of `AttemptJournal` among them | `Lifecycle`, TLAPS |
| `Fence` | guest and watchdogs over the fence, the request and the heartbeat | - |
| `FenceProofs` | the theorems about `Fence` | `Fence`, TLAPS |
| `Pacing` | constant operators: the rate-limit hold and the poll schedule | - |
| `Polling` | the target loops over the shared demand gateway, wakes, drains of the daemon | `Pacing` |
| `PollingProofs` | the theorems about `Polling` and the lemmas about `Pacing` | `Polling`, FiniteSetTheorems, TLAPS |
| `Coordinator` | the coordinator, its store and connections, one host's link and commands | - |
| `CoordinatorProofs` | the theorems about `Coordinator` | `Coordinator`, TLAPS |
| `PackageCache` | the package cache under launches, releases, crashes and jobs | - |
| `PackageCacheProofs` | the theorems about `PackageCache` | `PackageCache`, TLAPS |
| `Slots` | persistent slots under loops, launches, operators, jobs and restarts | - |
| `SlotsProofs` | the theorems about `Slots` | `Slots`, TLAPS |
| `MCAllocation`, `MCLifecycle`, `MCFence`, `MCPolling`, `MCCoordinator`, `MCPackageCache`, `MCSlots` | instances for TLC | |

### Allocation

`journal` maps an attempt to its state and owning policy, `capacity` is
`host_capacity` in the host record, `lock` the allocation lock, `loop[l]` the
locals of `start_runners` in target loop *l*. A pass is `Poll` (demand is read,
the number owned and the supply are counted), `Intend` (the unlocked pre-check),
then per runner `Acquire` or `AcquireBusy`, `Decide` (host record and journal
are re-read under the lock, budget is `min(budget, to_start)`), `Allocate` (the
row is journalled), `LaunchOk` or `LaunchErr`, with `ReadFails` and
`RefuseLaunch` (host fitness) for the early returns. `Advance` is any legal edge
any attempt may take meanwhile, so whatever `Lifecycle` does is covered.
`SetHostCapacity` is an unlocked rewrite by another process; `Crash` loses all
locals and the file lock. Persistent policies with fixed capacity are not in it.

### Lifecycle

State: the journal row (state, outcome, whether a runner id and a process id are
recorded), the runtime directory as the presence of each file a decision reads
(runner-id sidecar, identity, unresolved marker, terminate intent, the runner's
diagnostics), the process, GitHub's registration, the daemon's phase and memory,
and the one loop's locals, including `todo`, the rows a pass read once.

* Launch: `Allocate`, `Materialize`, `Register`, `WriteRunnerId`, `JitReceived`,
  `Spawn`, `PersistIdentity`, `RecordStarted`; `AbortSpawnedChild` and
  `LaunchFails` are the error paths. Each durable write, request and signal is a
  step, so a crash can fall between any two.
* Supervision and recovery share `reconcile_one`: `BeginPass`, `Visit`
  (`VisitCleaned`, `VisitTerminal`, `Inspect`), `Observe`,
  `WalkBeforeDeciding`, `Decide`, then the plan in the code's order:
  `RecordTerminateIntent`, `Terminate`, `Recheck`, `DeregisterRunner`, `Walk`,
  `Conclude`, `Clean`. `StepFails` aborts the pass where the code propagates an
  error, which during recovery ends the daemon.
* `Sweep` is the cleanup of another target's loop. The store reads of a sweep are
  synchronous, so it reads and writes a row in one step, but only where this loop
  awaits.
* The environment: `ListenerLogs`, `AssignJob`, `WithdrawJob`, `TakeJob`,
  `Exit`, `Retire`, `Straggle` and `DeadlinePasses`. A deadline is a flag that
  may be raised any time after a transition; recovery measures it from the last
  transition, as the code does.
* The service manager: `Restart` starts a daemon that is down, at most
  `START_LIMIT_BURST` times until `IntervalPasses`; then it gives up (`GiveUp`) and
  only somebody outside starts it again (`StartByHand`). A recovery that cannot
  decide an attempt ends the daemon, and so costs a start. That is systemd and the
  Windows scheduled task; launchd and the Windows service keep restarting.
* `history` records what really happened and is read by properties only.

`Faults` selects what may go wrong beside crashes: `unreachable` (GitHub does not
answer), `lost_delete` (a deletion fails or its answer is lost), `withdrawn` (an
assigned job is never taken), `straggler` (a child of the job writes the
directory back), `identity_write`, `slow_disk`, `step` (any call that can fail
does), and `recheck_refused` (the operating system refuses to describe a
process), which no run switches on: see section 6.

### Fence

`fence` is the directory, the owner recorded in it and whether it is past the
five minutes after which a claim counts as abandoned; `request` and `heartbeat`
are the files beside it; `watchdog[w]` is the `Tracker` and the place in
`observe`. The guest takes the fence around each launch (`GuestClaim`,
`GuestWriteOwner`, `GuestCheckRequest`, `GuestLaunch`, `GuestRelease`), or judges
a claim it finds, reads it again and removes it (`GuestJudge`, `GuestReread`,
`GuestRemove`). The watchdog probes (`ObserveHealthy`, `ObserveFailure`), claims,
reads the heartbeat and the inventory (`ReadHeartbeat`, `ReadInventory`), and
terminates (`Terminate`, `Verify`), or clears its own claim and request and
retires abandoned ones (`ClearOwner` ... `RetireRequest`, `Reset`).
Reading a claim, deciding about it and removing it are separate steps; removing a
directory may stop after the owner record is gone; creating a directory and
writing its record are two steps.

Assumed of time and not proved: a process does not stall for five minutes between
making the fence directory and writing its record (`FenceAges`), a live watchdog
refreshes its request (`RequestAges`), and generations, which are millisecond
timestamps, are unique. `Retire` reads the request and the owner in one step. The
circuit breaker and the clock-only evidence are a veto that may fall at any time.

### Pacing and Polling

`Pacing` holds the arithmetic: `HoldFor` extends, never shortens, the host-wide
quiet period after a rate limit and doubles it with each consecutive one;
`NextPolls` is the set of delays a pass may choose (jitter is a small set),
`WokenDeadline` what a wake may make of one. Times are counted down in ticks.

In `Polling` a loop walks through `Start`, `Poll` (it refreshes its policies
first, `Refreshed`), for each repository of its scope the gate (`TakeShared` of a
reading another loop left, `Suppressed` by the hold, or `Request`), `Serve` (GitHub
looks at its queue) and `Answer` or one of its failures, then `Settle` (the launch
or the outcome of the pass, the drain test `Drained` and the sleep `SleepFor`),
and ends its sleep by `Expire`, `TakeWake` or `HearDrain`. That GitHub looks
before its answer arrives is what makes a reading old. `AskStop`, `HearStop`,
`HearUpgrade`, `LoopLost` and `JoinLoops` are `run_generation`. `Tick` waits for a
loop that is ready to run: computing takes no time, requests and sleeps do. The
constant `Drains` says which ends of the daemon an instance has.

### Coordinator

The server's store (`invite`, `host`) survives its restarts; `registry`, `seen`
and the tasks in `conn` do not. A connection is two ends and three queues, so a
host may have hung up and connected again while its old task still reads
(`Connect`, `Verify`, `Register`, `ServerReads`, `Forward`, `Check`,
`Unregister`). On the host `cli` is the command under way, which writes key and
setting in two steps (`StoreKey`, `SaveSetting`; `DeleteKey`, `Forget`), and
`link` is `maintain_link`, with `Beat` for its tick. `LinkLost`, `Abandon`, the
restarts, the webhooks and changes of policy share one `budget`.

### PackageCache

`entry` is the directory of each version (absent, complete, or without a manifest)
with the age of its stamp, `print` what `TrustedTrees` remembers, `lease` the lease
files, possibly torn, `launch` the one launch that holds the allocation lock.
`Ensure` chooses a version or has it looked up: `Published` is GitHub naming it and
`Catalog` the answer read, up to `REQUEST_TIMEOUT` later (the client's timeout,
`github/src/lib.rs:1384`), when the clock that stamps the package is read too.
`Commit` installs one, `Check`, `Copy` and `Record` verify and copy it, `Lease` and `Prune` follow. Each
of them has its failure. `outdated` is GitHub's own view of how long a version has
been superseded, which the host never sees: `ReusedInTime` relates it to the
stamps the host does see.

### Slots

`stored` is the journalled setting of each profile, `loaded` the copy a loop took at
the start of its pass, `request` a `set-workspace` between its validation and its
transaction, `dir` the file system: for each `<root>/sN` what it is, whose runner
files it holds and what stands there as `_work`. A pass is `BeginPass`, per policy
`Supervise` with `PassOver`, `Conclude` and `CleanCopy` over the rows it listed,
then the sweep (`Sweep`, `EndSweep`), then `Allocate`, `Materialize`, `Start` or
`LaunchFails` under the allocation lock, then `EndPass`.
`Sweep` is `clean_terminal_attempts`, over the concluded attempts of the whole host,
whoever's they are. It lists and cleans in one step:
the daemon's runtime is `new_current_thread` (`crates/app/src/cli/mod.rs`) and the
function awaits nothing that yields between the two.

`serving` are the repositories this generation of the daemon has a loop for. A loop
keeps its last copy of a policy only when no profile of its repository is left
(`Refreshed`); then `WatchPolicySet` notices that the set of repositories changed
and asks every loop to drain, a loop ends when no runner it knows of counts
(`LocalActive`), and `Reload` begins a generation with the repositories left
(`NewGeneration`). So does `Restart` after a crash, at once and with the runners
still up. Attempts of a removed policy are then recovered and supervised by nobody;
a host with no repository runs no loop. What start-up recovery does to the attempts
of a policy that is left is what the first pass does to them; that recovery may fail
is `Lifecycle`'s subject. `RootsOf` are the roots the operators of a profile name,
`Demanded` the profiles GitHub has jobs for. Two roots overlap only when
equal, no policy is added, and `max_capacity` does not change.

## 3. Runs

All runs are exhaustive over their bounds.

| Run | Bounds | Shows |
|---|---|---|
| `allocation` | 2 loops (one native, one isolated with floor 1), 3 attempts, capacity 1 or 2, demand up to 2; 183 470 states | `TypeOK` (no wrapping), `PolicyCeiling`, `StartsWithinDemand`, `CapacityRespected` |
| `lifecycle_crash` | 1 attempt, every fault but `recheck_refused`, 2 crashes, a start limit of 2; 563 173 states | `TypeOK`, `AccountedRunner`, `OwnKillsAreOwned`, `CompletedMeansAssigned`; `Lifecycle` implements `AttemptJournal` |
| `lifecycle_live` | 1 attempt, GitHub unreachable, a delete lost, a job withdrawn, a straggler, 1 crash, a start limit of 2; 102 217 states | `SlotReturned`, `EventuallyCleaned` |
| `fence` | 1 watchdog, 2 generations, threshold and confirmations 1, 1 fault; 2.8 M states | `TypeOK`, `HeldIsHeld`, `LaunchNotInterrupted`, `ClaimsAreRespected` |
| `fence_live` | 1 watchdog, 1 generation, failing launches, 1 fault; 57 000 states | `LaunchesResume`, `FenceIsFreed` |
| `polling` | the loops of an organisation of 2 repositories and of one of them, 1 job, no drain; 1.05 M states under a `VIEW` | `TypeOK` (delays stay in their bounds), `HoldKept`, `ScheduleKept`, `SharedIsRecent` |
| `polling_live` | 1 loop over 2 repositories, the job in the second, shutdown and upgrade; 100 445 states | `NoStartWhileDraining`, `UpgradeLetsJobsEnd`, `JobNoticed`, `ShutdownEnds` |
| `coordinator` | 2 codes for one name, 2 hosts, 2 connections, 3 events; 1 320 997 states up to symmetry | `TypeOK`, `EnrolledOnce`, `RegistryIsServed`, `RegistryUndisturbed` |
| `coordinator_live` | 2 codes for two names, 2 connections, 1 event; 263 060 states | `GoneIsDisconnected`, `JoinedComesOnline` |
| `packages` | 2 attempts, 3 versions, answers up to 1 tick under way, 2 faults, budgets of 2; 1 995 495 states | `TypeOK`, `ReusedInTime`, `LeasedIsKept`, `LaunchesGoOn` |
| `slots` | 2 repositories, of which one is given 2 roots and the launches, ceiling 1, 2 launches, 2 changes, 1 restart; 312 905 states | `TypeOK`, `RunnerUndisturbed`, `CleanedLeavesNothing`, `WorkIsKept`, `SlotGivenBack` |
| `shared_root` | 2 profiles of one repository, 1 root | a violation of `RunnerUndisturbed`: section 6, finding 1 |

Why the bounds reach the interesting cases. *Allocation*: three attempts against
a capacity of two and two loops give contention for the last slot, capacity below
the number active, and a job taken between two launches of one pass; the
theorems remove the bound. *Lifecycle*: everything about one attempt's verdict is about that attempt,
the sweep that may overtake its loop is in the model, and two crashes cover a
crash during the recovery from a crash; a limit of two starts is reached by a
crash and one recovery without an answer. With one attempt no copy of a row goes
stale in the run, since a pass visits it before it first awaits;
`JournalImplemented` covers any number. *Fence*: two generations give a claim left by an earlier recovery beside
the present one; a threshold and a confirmation count of one make the evidence
easier to collect than the code's 3 and 2, and, since
a veto may keep the watchdog observing for any number of rounds with its claim in
hand, every termination the code performs is among those checked for safety; a fault is a crash of either side or a failed
file operation, and the whole sequence of either side can still follow it.
*Polling*: two loops that share one repository give every race for a gate and a
reading; the thresholds keep the order of the real ones. `VIEW` drops the history
and what a loop overwrites before it reads it; it is used where no liveness is
checked. The live instance needs one loop, since gates are handed out in order,
and two repositories, so that one can fail again and again before the other is read.
*Coordinator*: two connections are the old and the new one of a host; three events
let a lost connection, a restart and a late message meet. *PackageCache*: three
versions are one in use, one superseded and one new. *Slots*: with a ceiling of
one every launch wants the same slot, so each late cleanup meets the next lease;
two changes are a setting and another one, a setting and the removal of its profile,
or the removal of both profiles. The second repository is there for the loop that
remains when the first is removed; it is given no jobs, since a launch of its own
touches no slot.

The caps on what one poll of GitHub reads (`demand.rs:249-267`, runs and pages) are not
in `Serve`: `JobNoticed` is about backlogs under them.

Deadlock is checked in `Allocation`, `Lifecycle`, `Fence` and `PackageCache`. A
daemon that was told to stop has stopped (`Polling`), and a coordinator without
hosts or a daemon whose last policy was removed (`Slots`) has nothing to do.

## 4. Fairness

*Lifecycle*. Weak fairness on `Restart \/ GiveUp` (the service manager goes on up to
its limit and nobody need start the daemon after that: the liveness properties end
in "or the daemon was given up"), on the daemon's own steps (an executor runs what is ready) and on `DeadlinePasses` (clocks
advance). Strong fairness, per attempt, on an observation that GitHub answers
(`unreachable` is retried every pass and does not last for ever) and on a cleanup
that succeeds. Nothing is assumed of processes, jobs or GitHub retiring
registrations. Crashes are bounded, so recovery is not starved by them.

*Fence*. Weak fairness on the guest's launch path, on each watchdog's steps and on
ageing. The distribution need not come up: the liveness properties are
conditional on `wsl = "up"`.

*Polling*. Weak fairness on a loop's own steps, on timers and on the daemon's tasks;
strong fairness on what waits for a gate, which tokio's mutex hands out in order,
on `HearDrain`, because `select!` picks at random among what is ready, and, for each
repository, on a request GitHub serves: each repository is readable time and again,
not always. Nothing is assumed of wakes, jobs or runners.

*Coordinator*. Weak fairness on the server's tasks and on the link's own steps, strong
fairness on a connection attempt that succeeds. Lost connections and restarts are
bounded. Nothing is assumed of operators.

*PackageCache*. Weak fairness on the launch under way and on beginning one, on the
conclusion of attempts a dead daemon left and on cleanup.

*Slots*. Weak fairness on the pass of each loop there is, on the launch under way, on
the watch on the policies (a timer) and on the reload once every loop has ended;
strong fairness, per attempt, on a cleanup that nothing refuses, by the loop that
supervises it or by the sweep of any other. Nothing is assumed of jobs and
operators: a job may keep a drain from ending for ever. `SlotGivenBack` would fail
if a loop swept only its own repository's attempts.

## 5. Proofs

Every safety property that a passing run checks, invariant, action property or
refinement, is also a theorem, for every value of the constants that satisfies the
assumptions named below. Seven modules hold the proofs, one per state machine.

### Allocation

`AllocationProofs` proves, for any set of loops, any finite set of attempts, any
capacities, floors, ceilings and demand:

| Theorem | Property |
|---|---|
| `TypeCorrect` | `TypeOK` |
| `NoDoubleGrant` | `GrantStillFits`: the slot a loop was granted under the lock is still free when it journals the attempt |
| `CeilingHolds` | `PolicyCeiling` |
| `DemandAnsweredOnce` | `StartsWithinDemand` |
| `CapacityKept` | `CapacityRespected` (action property) |

Assumptions, all from the code's validation: attempts are finite
(`FiniteAttempts`), capacities are positive and each policy's floor does not
exceed its ceiling (`CapacityAssumption`), the isolated loops are loops
(`LoopsAssumption`). TLC evaluates them in the run `allocation`.

The argument is one inductive invariant, `IInv`, the conjunction of the four
state properties with what they need:

* `LockHeld`: a loop past `Acquire` is the one the lock names. Without it two
  loops could be between reading and journalling.
* `GrantStillFits` itself is kept because, while the lock is held, attempts only
  walk legal edges and no such edge occupies a slot (`EdgesNeverOccupy`,
  `AdvanceShrinks`): the count can fall, not rise. An operator's rewrite does not
  matter, since the grant is against the capacity that was read.
* `GrantWithinPolicy`: at the point of journalling the policy is below its
  ceiling. `PolicyCeiling` alone says nothing about the next allocation.
* `FreshPass` and `StartsWithinDemand`: a pass begins with nothing started, and
  what is started plus what is left of the budget never exceeds the demand
  clamped to the policy. The second needs the first.
* `RowOwned`: an existing row has a loop for owner, so that counts per policy are
  about policies.

The lemmas `AllocateTakesOne` (an allocation raises both counts by exactly one)
and `GrantIsBounded` (what `ToStart` returns) carry the arithmetic; `Resting` and
`Moving` treat all steps that leave the journal alone.

### Fence

`FenceProofs` proves, for any thresholds and any bounds on generations and faults:

| Theorem | Property | Condition |
|---|---|---|
| `TypeCorrect` | `TypeOK` | any watchdogs |
| `RememberedClaimIsHeld` | `HeldIsHeld` | one watchdog (the property itself says so) |
| `FenceExcludes` | `LaunchNotInterrupted` | one watchdog |
| `ClaimsRespected` | `ClaimsAreRespected` (action property) | one watchdog |

The condition is necessary: see section 6, item 7.
The only other assumption is `FenceAssumption` (the bounds are naturals), and the
time assumptions built into `FenceAges` and `RequestAges` (section 2). The
inductive invariant is `TypeOK` with `Custody`, a chain of custody of the
directory:

* `GuestClaims`: a guest past its claim owns the record; a guest that just made
  the directory finds it as it made it and no watchdog is doing the same; a guest
  that judged a claim stale still finds that claim there, and still stale, when it
  removes it. This is what the re-read in `reclaim_unheld` cannot give by itself.
* `WatchdogClaims`: the same for a watchdog about to write its record or to remove
  a directory; a watchdog that remembers a claim has a generation (so that a
  failed probe mints no new one); a watchdog about to terminate remembers a claim.
* `RecordNeedsDirectory`: a record is in a directory, so a `create_dir` that
  succeeds found no owner.
* `ClaimIsHeld`: a watchdog that remembers a claim has it.

Each is kept because the other side's removals are confined to directories that
carry the other side's record, or none and are old; `WatchdogsUnconcerned` is that
argument for the guest's steps, `WatchdogMoves` for the watchdog's.

### PackageCache

`PackageCacheProofs` proves, for any attempts, number of versions, window, check
interval, budgets and number of faults:

| Theorem | Property |
|---|---|
| `TypeCorrect` | `TypeOK` |
| `PackagesReusedInTime` | `ReusedInTime` (action property) |
| `LeasesAreRespected` | `LeasedIsKept` (action property) |

The only assumption is `PackageCacheAssumption` (bounds are naturals, budgets
positive, an answer takes no longer than the window). The inductive invariant is
`TypeOK` with `VersionChosen` (a launch past its choice has a version) and
`AgedAlong`: the published version is not outdated, a version whose answer is under
way has been superseded for no longer than that, and every installed package, and
the one being downloaded, has been superseded for no longer than its stamp is old
and an answer may take. That is the argument of the comment on `is_stale`, with the
latency the comment leaves out: the stamp is taken when the answer is read. It would
fail if the stamp were taken at the commit. `LeasesAreRespected` needs only the types.

### Lifecycle

`LifecycleProofs` proves, for any set of attempts, any faults and any number of
crashes:

| Theorem | Property | Condition |
|---|---|---|
| `TypeCorrect` | `TypeOK` | |
| `JournalImplemented` | `JournalKeepsItsPromise`: `Lifecycle` implements `AttemptJournal` | |
| `CompletedJobsWereAssigned` | `CompletedMeansAssigned` | |
| `OwnKillsOwned` | `OwnKillsAreOwned` | |
| `RunnersAccounted` | `AccountedRunner` | `"recheck_refused"` is not among the faults |

The condition of the last is necessary: see section 6, item 5. The assumption on
the constants is `FaultsAssumption` (faults are known ones, crashes are bounded by
a natural). The refinement mapping is the identity on `journal`: what has to be
shown is that every write of a whole row, from a copy read many steps before, is a
step of `AttemptJournal` or changes nothing. Four invariants carry the five theorems:

* `CInv`, the copies of rows. `record_attempt` replaces a row unconditionally, so
  everything rests on what the writer holds. `TodoIsCurrent`: a row still to be
  visited says what the journal says, unless it was concluded when it was read and
  has been cleaned by another loop since. `RowIsCurrent`: the row a launch or a
  visit without verdict works on is exactly the journal's, and the place in the
  code fixes which states it can be in. `TodoOfAPass` (no rows are held between
  passes), `NoRowIsBlank` and `PlanIsSound` (a visit walks only to what GitHub
  lists; only a runner that idled or registered too late is stopped) complete it.
  Each step lemma proves both that `CInv` is kept and that the journal makes a legal
  move (`NextC`), since one needs the other.
* `AInv`, for `CompletedJobsWereAssigned`: a job that GitHub shows, that the
  diagnostics show, or that the row or the decision in hand speaks of, was
  assigned at some time.
* `KInv`, for `OwnKillsOwned`: once a runner was stopped, the intent stays on disk
  until its attempt has a verdict (`IntentStays`), and the verdict in hand is not
  one that blames the runner (`OwnedPlanned`). `VerdictLast` (no verdict before a
  terminal state) lets `IntentStays` be dropped where the property takes over.
* `DInv`, for `RunnersAccounted`: a reading "dead" in a visit is still true when
  it is acted on (`DeadWhenRead`), because a launch has no identity file before it
  writes it (`NotYetIdentified`) and a dead process does not come back.

`DecisionFacts` says once what `recovery_decision` can answer and `ReconcileSound`
what a visit makes of it; `OpenRefines`, `WalkRefines`, `ConcludeRefines` and
`CleanRefines` are the four kinds of write, each mapped to a step of the abstract
journal; `VisitEnds`, `VisitGoesOn` and `LaunchGoesOn` treat the copies.

### Slots

`SlotsProofs` proves, for any profiles, repositories, roots, ceiling, attempts,
changes of setting and restarts:

| Theorem | Property | Condition |
|---|---|---|
| `TypeCorrect` | `TypeOK` | |
| `CleanedIsGone` | `CleanedLeavesNothing` | |
| `WorkKept` | `WorkIsKept` (action property) | |
| `RunnersApart` | `RunnerUndisturbed` | `[]RootsApart`: no two profiles ever launch in one root |
| `DisjointRootsApart` | `RunnerUndisturbed` | the operators of no two profiles name one root |

`RootsApart` is a hypothesis about the behaviour because the code does not ensure
it: two profiles of one repository may name one root, and the run `shared_root`
shows what then happens (section 6, finding 1). Where the roots the operators name
are disjoint, and so with one profile, it is proved: `RootsGiven` says that a
setting, a request, a loop's copy and a lease are of a root given to that profile.
The assumption on the constants is `SlotsAssumption` (a positive ceiling no larger
than the bound on slots, every policy has a repository and a set of roots). The inductive invariant is
`TypeOK` with

* `HeldOnce`: no two attempts of a profile hold one slot, where an attempt holds its
  slot until it is cleaned *and no pass still has it in the rows it listed*. The
  journal alone is not enough: a pass may clean its copy of a row once more after
  the slot was leased again, and only this rules it out.
* `FilesOwned`: runner files in a slot belong to an uncleaned attempt leased there.
* `CopiesOfThePass`, `LaunchIsAllocated` and `Journalled`: rows are held only during
  supervision, the launch under way is at `allocated`, a lease names a slot under
  the ceiling.
* `LinkIsBare`: a slot that was replaced by a link holds no `_work` of its own; for
  `WorkKept`.

`RunnerHasFiles` (a runner at work has its files) is inductive only under
`RootsApart`, so it is kept apart from `IInv`.

### Coordinator

`CoordinatorProofs` proves, for any codes, names, connections, limits of queues
and memory, and numbers of hosts and events:

| Theorem | Property |
|---|---|
| `TypeCorrect` | `TypeOK` |
| `HostsEnrolledOnce` | `EnrolledOnce` |
| `RegistryServed` | `RegistryIsServed` |
| `RegistryGenuine` | `RegistryIsGenuine`: who is registered as a host signed with its key (stated with the proofs; no run checks it) |
| `RegistryKept` | `RegistryUndisturbed` (action property) |

Assumed is `CoordinatorAssumption`: the two limits are positive, as the constants
of the code are, at least one host can be enrolled, every code has a name. The
inductive invariant adds to the types and the properties themselves:
`CodesAreSpent` (the code of every recorded host is used; without it a code could
enrol again), `CommandHasCode` and `LinkHasConnection` (what a command or the link
is waiting for exists), and `Genuine` (a connection past verification signed with
the key of the host it claims to be). `RegistryIsServed` is kept because a
connection slot is used again only when free, and the registry names none that is.

### Polling

`PollingProofs` proves, for any loops, scopes, jobs, intervals, caps and waits that
GitHub asks for:

| Theorem | Property |
|---|---|
| `TypeCorrect` | `TypeOK` |
| `FetchedOnce` | `OneFetchPerRepository`: no two loops fetch one repository at once (stated with the proofs; no run checks it) |
| `QuietPeriodKept` | `HoldKept` (action property) |
| `PollsOnSchedule` | `ScheduleKept` (action property) |
| `SharedReadingsRecent` | `SharedIsRecent` (action property) |
| `DrainStartsNothing` | `NoStartWhileDraining` (action property) |
| `UpgradeWaitsForJobs` | `UpgradeLetsJobsEnd` (action property) |

Assumed are `PacingAssumption` (the order of the intervals and caps that the code's
constants have) and `PollingAssumption` (scopes are not empty, `"none"`, which marks
a free gate, is not the name of a loop). The inductive invariant is `TypeOK` with

* `LoopsPaced`: a loop that reads has a repository to read; a loop that drains has
  its token cancelled and holds no demand, which is why the reload of policies does
  no harm; a sleep shorter than scheduled was cut by a wake the loop could honour.
* `DoneIsDrained` and `ShutdownIsHeard`: a loop that ended for an upgrade had no
  runner left, and before a shutdown no loop drains for one.
* `GateHeld`: a loop that fetches holds the gate of its repository.
* `NewJobsWait`, `ReadingCovers` and `AnswerCovers`: a job absent from a reading, or
  from an answer on its way, has waited no longer than the reading's age, which is
  counted from before the request. That is the argument for `SharedIsRecent`;
  counted from the answer it would fail.

The doubling of delays is an exponential; its type comes from the cardinality of a
power set (`PowerTyped`), since no induction is available.

### Only model-checked

The ten liveness properties: `SlotReturned`, `EventuallyCleaned`, `LaunchesResume`,
`FenceIsFreed`, `JobNoticed`, `ShutdownEnds`, `GoneIsDisconnected`,
`JoinedComesOnline`, `LaunchesGoOn` and `SlotGivenBack`. They rest on weak and strong
fairness, that is on ENABLED, which the prover does not handle. The invariants the
proofs add were checked by TLC on the instances of the runs before they were proved.

## 6. Where the code and its documents differ

1. `shared_root` (a run of its own): two profiles of one repository count as one
   owner of a root, so they may name the same one, while slots are leased per
   profile. A concluded attempt of the one is cleaned in a slot where the other's
   runner is at work, which the comment on `clean_terminal_attempts` calls
   impossible. It takes a failed launch that was rolled back, or a cleanup that
   removed the files and not the row, so that the slot looks empty.

The following are read from the models and have no run of their own; each says
how to see it.

2. `lifecycle.rs:3310`: after a crash between the signal and the verdict, an idle
   runner stopped for its idle timeout is concluded as
   `TerminatedAfterRegistrationTimeout`, documented as a runner that "had not
   registered" (`Lifecycle`, one crash).
3. `lifecycle.rs:3661`: a registration whose deletion failed is documented as
   visible to a later pass; the attempt is terminal by then and no pass asks
   (`Lifecycle`, `lost_delete`).
4. `lifecycle.rs:2440`: a daemon that dies between the spawn and the identity file
   leaves a running runner whose attempt is concluded, while a comment promises
   the journal knows of every live process across a crash. In the same way a
   runner whose identity could not be written keeps its slot for ever, because
   every later inspection refuses (`identity_write`).
5. `lifecycle.rs:2794`: `is_alive` turns an error of `recheck` into "dead"; add
   `recheck_refused` to `Faults` in `LifecycleCrash.cfg` and `AccountedRunner` fails.
6. `daemon.rs:943`: a guest that cannot read its policies reports no targets, and
   an inventory of no targets counts as a complete one (`Fence`).
7. `wsl_watchdog.rs:232`: a login-mode or hand-started daemon watches the
   distribution beside the lifecycle companion; the one that sees a healthy probe
   retires the claim the other still remembers as held. `HeldIsHeld` is therefore
   about a lone watchdog and its guest; without that condition it fails with
   `Watchdogs = {w1, w2}` in `Fence.cfg`.
8. `daemon.rs:2404`: "A shutdown arriving mid-upgrade supersedes it, deadline and
   all" cannot happen: once an upgrade drains, `run_generation` only joins the loops
   and never sends the shutdown, so a stop waits for every job to end. In `Polling`,
   `daemon.stop ~> ~Alive` fails under `LiveSpec`.
9. `daemon.rs:2276`: the drain deadline is documented as the exception, but
   `begin_drain` cancels the token the drain's own polls use, so they end as
   cancelled, count no runners and a shutdown with a policy still enabled in the
   store lasts until the deadline.
10. `demand.rs:841`: a wake drops the shared reading, but a fetch begun before the
    job was queued may still be in flight and is stored afterwards; the woken loop
    is then handed a reading without the job, and finds it one interval later.
11. `package.rs:1480`: a version directory without a manifest is never replaced,
    since the rename into it fails; the version is lost to this host until a newer
    one is published (`LaunchesGoOn` excludes exactly this). `sweep_staging`
    (line 1884) has no caller but a test.
12. `lifecycle.rs:1064`: a loop that launches with the copy of a setting replaced
    during its pass puts an attempt under a root its policy does not name. It is
    quarantined; the remedy it prints, to correct the path, is refused by
    `set-workspace` while the attempt is uncleaned, and removing the directory
    changes nothing because the root is compared first. `SlotGivenBack` excludes
    it by `current`. A repository removed and added again leases slot numbers
    anew while rows of the removed policy may still be uncleaned.
13. `package.rs:1279`: reuse is documented as "bounded exactly" by the window, but the
    stamp is the clock read after the lookup's answer (line 1353), and a version
    released while it was under way is missed. The bound is the window and the
    answer's latency, at most the client's timeout of 30 s: with `REQUEST_TIMEOUT`
    taken out of `ReusedInTime` it fails in `packages`.
14. `daemon.rs:407`: a recovery that GitHub does not answer ends the daemon, and after
    five such starts systemd or the task scheduler gives up (`service.rs:1668`). The
    slot of an attempt that never started is then held until somebody starts the
    service, long after GitHub is back: without `daemon = "failed"` in it
    `SlotReturned` fails in `lifecycle_live`.
15. `daemon.rs:2163`: the comment keeps the copy of a removed policy so that "any
    runner still up is supervised". With another profile of the repository left the
    copy is dropped at once, and after a crash the next daemon has no loop for it:
    its runner goes on unsupervised, and its attempt counts against the host for
    ever. On a host left without a repository concluded attempts stay uncleaned
    (`serving = {}` in `SlotGivenBack`, which fails without it).
16. `workspace.rs:853`: two `set-workspace` commands for different repositories both
    pass the check on overlapping roots before either commits, and the transaction
    confirms a revision and a count only (`store.rs:1268`): both then keep slots in
    one root. Give both profiles of `slots` both roots (`RootsOf <- AnyRoot`) and
    `stored` shows it.
17. `cli/coordinator.rs:675`: after `leave`, a session that ends for another reason
    than the changed setting leaves its status record behind. A connection that
    verified earlier and registers later replaces a newer one; both ends recover,
    and `JoinedComesOnline` holds.

Some windows the models contain and no property forbids, because no order of the
program's own calls can close them: a runner observed idle may take a job before
the signal that stops it, and a starting runner may take one after the
watchdog's last inventory (`ROADMAP.md` of the self-healing work, G6, claims
more: "never produce `terminate` while work may exist"). Likewise a job that
starts and crashes between two samples of an idle runner is recorded as an idle
exit.

## 7. Plan

Done: all state machines of section 2, each with the proofs of its safety
properties. Left:

1. Facts the liveness arguments of section 4 use and that are safety in themselves,
   such as that no step of another loop takes back the cleanup of an attempt, as
   theorems beside the model-checked liveness.
2. `FenceProofs` with several watchdogs under a hypothesis on their behaviour in
   place of the number of watchdogs, as `RootsApart` is for `Slots`.
3. Components of section 8 whose state is small enough to be worth a machine of
   their own: launch health and the file locks.

## 8. Not modelled

Secrets, the device flow, service-file generation, terminal UI, logging and
paths are I/O, formatting or presentation. Docker and dependency caches are calls
to external tools over file trees, as are the isolated providers: their attempts
take edges of `Attempt` that `Allocation` counts. Of the package cache, pins, the
extraction of archives and the seeds of macOS are left out, and a host that trusts
every tree (Windows) is not an instance. Of slots, the override of the host's
root, `remove --purge`, a changed `max_capacity` and policies that are added are left
out. Of GitHub,
pagination, conditional requests and the traffic log are left out. Of the
coordinator, signatures, TLS and the wire format are left out. SQL text and migrations are below the level
at which the store is used (a row is replaced atomically). The operating system's
process groups and job objects appear as what the lifecycle relies on: an
identity is live, gone or unknown, and a stop may return before a process that is
not a child is gone. Timestamps are deadlines that have or have not passed.
