# ghr verification

TLA+ specifications of `ghr`, the daemon that keeps pools of ephemeral GitHub
Actions runners on one host, model-checked with TLC on small instances; the host
capacity budget, the validation it rests on and a group's scaler are also proved with
TLAPS for every configuration. Paths such as `capacity/lease.go` are below
`src/internal/` unless they start with `src/`.

## The system

One daemon serves several *groups*. Every group has a scale set on GitHub, a
listener (`actions/scaleset`, an external SDK) that polls it, and a *scaler* that
starts and tears down runner processes. A host-wide *allocator* hands out leases
so that all groups together stay within the host's memory and CPU. A *health
monitor* looks at every runner at an interval and kills dead, stuck and idle ones.

| Component | State it keeps | Operations | What makes it correct |
|---|---|---|---|
| Allocator (`capacity/allocator.go`, `lease.go`, `admission.go`, `wake.go`, `resources.go`) | what is in use; per group: held, waiting, wait number, waker, closed, saturated; leases; one-slot channels for wake-ups and changes | `Register`, `Unregister`, `Acquire`, `SetSaturated`, `Capacity`, `Lease.Release`, `Lease.Cancel`, the wake loop and the notify loop of `Run` | never more reserved than the host has; minimums always payable; each lease counted once; strict priority; no lost wake-up |
| Advertised share (`capacity/advertise.go`) | none: a function of the allocator's state | `planAdvertised` | each free runner advertised once, none kept back, priority and waiting order kept |
| Scaler (`controller/scaler*.go`) | idle and busy maps, leases by runner, last count, advertised value, three mutexes | `HandleDesiredRunnerCount`, `HandleJobStarted`, `HandleJobCompleted`, `Wake`, `CapacityChanged`, kills, exit watchers, `Shutdown` | one owner per teardown; reservation as long as the runner; maximum kept; no job ended by trimming that GitHub was asked about; no deadlock |
| Group controller (`controller/group.go`, `controller.go`, `controller_capacity.go`) | scalers, retained scalers, stale runner names | run loop with back-off, stale registrations, snapshots, shutdown | no runner forgotten when a listener restarts; leftovers deregistered |
| Health monitor (`health/`) | issues, per group: desired count, degraded since, failures | `runChecks`, `UpdateGroupStats`, `Status`, the reports of each tick | acts on a snapshot without harm; never blocks the scaler for good; a group is degraded only when it is; every kill is named to the notifier, as far as sends end |
| Process manager (`runner/`) | workdirs, PID files, processes | `Prepare`, `Start`, `Stop`, `Cleanup`, `CleanupStale`, `KillOrphanRunners` | what a startup cleans up and deregisters is of dead daemons only |
| Binary cache (`runner/binary.go`, `download.go`, `copy.go`) | cached versions with a completion marker, a mutex per version | `EnsureBits`, removal of old versions | no release served that is not whole; what is new is kept; every start settles |
| Cgroups (`cgroup/`) | one cgroup per limited runner | `Setup`, `SweepStale`, `Create`, `Destroy` | limits apply to the runner and its children; no leftovers |
| Daemon and command line (`cli/`, `api/server.go`, `launchd/`) | PID file, state file, socket; the service and its plist | `run` and its actors, watchdog, `start`, `stop`, `restart`, `purge` | a daemon replaces what its predecessor left; a stop lasts if launchd carries it out; otherwise the daemon comes back |
| Configuration (`config/`) | none | `validate` | accepts what the allocator can honour, and nothing else |
| GitHub client, credentials, breaker (`github/`, `auth/`) | circuit breaker, credentials file | thin calls, one after the other | - |
| API handlers, notifications, Uptime Kuma, logging, doctor | none that others depend on | reporting | a report says what the tick found |

How they interact:

- `cli/run.go` runs the controller, the allocator, the monitor, the API, log
  cleanup, a watchdog and the signal handler as actors; when one returns, the
  contexts of the others are cancelled, and after all have returned
  `GroupController.Shutdown` tears the pools down within `shutdown_timeout`.
- A listener calls its scaler for one message at a time: job events, then the
  assigned count. The scaler reconciles: tell the monitor the target, trim surplus
  idle runners, ask the allocator for leases, start runners with its lock held.
- A released lease puts a token in the wake channel; the allocator's wake loop
  calls `Wake` on every waiting scaler in priority order, which reconciles again
  with the last count. Every change puts a token in the change channel; the notify
  loop calls `CapacityChanged` on every scaler, which recomputes what it
  advertises to GitHub through the listener.
- The monitor takes its own lock, asks the controller for snapshots (each scaler's
  lock), and calls back into the controller to kill runners. Reconcile calls into
  the monitor. The order of these locks is one of the hazards.
- GitHub assigns jobs to registered runners at any moment, and the messages about
  it arrive later; it refuses to remove a runner that has a job.

The hard behaviours are the concurrency of listener, wake loop, monitor, exit
watchers and shutdown over one pool; one-slot signal channels; values computed
before and set after an unlock; the death of the daemon between any two of a
runner's steps, and of several daemons, commands and a service manager that know each other by
files and PIDs only; downloads of several groups into one cache; and admission under
several groups' minimums and priorities.
`PROJECT.json` lists the hazards at their lines with the properties that cover them.

## Modules

| Module | Models | Correspondence |
|---|---|---|
| `Sums` | sums over finite domains, without recursion | tokens counted by `Cardinality`, so that proofs can use finite-set theorems |
| `Resources` | `capacity/resources.go` | an amount is a function of two dimensions; a total of 0 is "not limited" |
| `Budget` | abstract specification of the budget | only `held`; a group may grow only if every minimum stays payable |
| `Capacity` | the allocator | one action per method, since each runs under one mutex; the loops of `Run` take a token, then call one waker per step |
| `Advertise` | `planAdvertised`, pass by pass | operators on `Capacity`'s state: claims, headroom, deal to saturated groups, deal to all, the loose last runner |
| `Listeners` | who sets the advertised value and when | extends `Advertise`; compute and set are two steps under `advertiseMu`, taken by the listener and by the notifier; a report of assigned jobs is judged in one step and told to the allocator in the next |
| `Scaler` | one group's scaler with the monitor, watchers, listener restarts and shutdown | one step per stretch of code between two unlocks or waits |
| `Recovery` | what a runner leaves outside the daemon's memory, over deaths and restarts | one step per external effect: registration, workdir, cgroup (made, placed, destroyed, swept, each of which may fail half-way), process, PID file; what a startup kills or searches for may survive; another host may use the same scale set |
| `Binaries` | the cache of runner releases and every group's `EnsureBits`, over deaths of the daemon | one step per effect on the cache directory: cleared, extracted, marked, removed file by file; the mutex of each version |
| `Health` | the monitor's ticks beside scalers, jobs and exits, and the goroutines that report | one step per check of one runner or group, the monitor's mutex held from the first to the last; kills as in `KillRunner` and `KillIdleRunner`; a send of a report, or one that a scaler makes with its lock held, may never end |
| `Lifecycle` | processes of `ghr run`, the service manager, the commands and the three files they meet in | stages of `runRun`; one step per call of a command that another process may come between, each of launchctl's with success and failure |
| `Config` | what `validate` accepts, and the allocator built from it | one operator per validation; the sum of minimums in 64 bits |
| `SumTheorems`, `CapacityProofs` (with `Config`'s), `AdvertiseProofs` (with `Listeners`'), `ScalerProofs`, `BinariesProofs`, `LifecycleProofs`, `HealthProofs`, `RecoveryProofs` | proofs | see below |
| `MC*` | the instances for TLC | constants, symmetry and state constraints; `MCCapacity` also evaluates `Config` on bounded inputs |

How they compose. `Advertise` extends `Capacity` with the function that shares it out,
and `Listeners` extends `Advertise` with those who ask for it at the same time.
`Capacity` in turn is shown to implement `Budget`: `Promise == INSTANCE Budget WITH ...`
maps the holdings to themselves and leaves out everything else, and `ImplementsBudget`,
the abstract specification, is a property of the run `capacity_leases` and a theorem.
`MCCapacity` extends `Capacity` and `Config` and has TLC check that `validate` accepts
the hosts the runs take. `Scaler`, `Recovery`, `Health`, `Binaries` and `Lifecycle` each
take one aspect of the daemon; what they leave to one another is listed below.

Notes on the abstraction.

- *Wait numbers.* `waitSeq` only ever serves to compare; `Capacity` keeps the
  order itself, `ahead[g]`, the groups that began to wait before `g`. That removes
  an unbounded counter and nothing else.
- *Leases.* Identities are drawn from a finite set and drawn again after the caller
  dropped its last reference (`Forget`). A second `Release` or `Cancel` of the same
  lease is a stuttering step in the code; what shows that it must be one is the
  mutant of `Finish` that does not look at `done`.
- *The shares.* The loops of `planAdvertised` are recursive functions over the order of
  service. The code deals until a round deals nothing; `Deal` takes the round at which
  that is so among the first `Sum(MaxRunners)`, and that there is one is proved
  (`DealReaches`: each other round gives out a runner).
- *The callers in `Capacity`* are any scalers: they ask for any number up to their
  maximum once they registered, also after their listener ended (a wake pass may be
  under way), and finish any lease they hold. So what is shown of the allocator
  does not depend on how scalers behave. `Scaler` in turn lets the allocator grant
  any part of what is asked.
- *Time* is not modelled, except in `Health`, where it is counted in ticks of the
  monitor up to `DivergenceTimeout`. A timeout may pass whenever the code waits: an
  idle or busy timeout is a choice (`Ages`, the monitor in `Scaler`), `Stop` may fail,
  the shutdown may end with teardowns open (`Exit`), a command stops waiting.
- *GitHub* may refuse or fail every call. It removes no runner that runs a job.
  In `Recovery` it may register a runner and lose the answer. In `Scaler` its answer may
  leave out the runner's ID (`unnumbered`, `github/client.go:118-120`): such a runner is
  never deregistered, and trimming stops it unasked.
- `recBy = "wake"` passes the capacity actor's context to the process it starts, so
  that it dies with that context (`bound`). The context an SDK callback gets is not
  in the repository; runners started by a listener are left unbound.
- *What the models leave to one another.* `Scaler` has the locks of reconcile and
  monitor and the progress of every teardown; `Health` takes a kill as one step, whose
  inside is `Scaler`'s. `Recovery` has every effect of a start and a teardown on the
  host; `Scaler` only their outcome. `Lifecycle` knows of a daemon's runners only that
  it has some (`workers`), since `Recovery` follows each of them. Of what a startup
  does before the daemon serves, `Binaries` has the cache.
- *`Recovery`* assumes that a PID in a workdir is the runner's. It does not assume that
  the cleanup of a startup works: the workdirs' directory may not be readable, a kill may
  fail and is only logged, `pgrep` or `ps` may fail or show another command line
  (`runner/cleanup.go:81-83`, `:103-105`, `:111`, `:116-118`), so that any set of
  processes survives `KillOrphanRunners`. The names found are kept in memory only. The
  scale set may change from one start to the next; the group then sees none of its former
  registrations, which is what `group.go:166` skips. `abroad` are the runners of another
  host in the same scale set.
- *`Binaries`*: a release is a version whose directory holds nothing, a part, something
  whole that is not what was published (`bad`), or the release. `RemoveAll` takes files
  one by one, which a copy or an extraction beside it may meet (`spoiled`). The times
  of the markers are kept as an order: each marker has the set of those that are newer.
  `condemned` and `fresh` are auxiliary: what any
  removal has chosen, and what this run of the daemon downloaded.
- *`Lifecycle`*: processes are identities, `Gone` every process that has ended. `broken`
  is a configuration or a credentials file that does not load. Each command is a
  sequence of steps that holds the PID it has read; PIDs are not given again while a
  command holds one. `disturbed` is auxiliary: processes beside which another daemon
  ran, which nothing in the code prevents (`ghr run` in a terminal), or whose files
  `purge` removed, and of which the code promises nothing. `claim` is auxiliary, too: what the last command said
  of itself, and, of a stop, whether the bootout it does not look at had succeeded.
- *`Health`*: a runner's `late` and `over` are an idle and a busy time past their limits.
  `deferring`, `untold`, `behind` and `apart` are auxiliary. That a runner is *told* of
  means that the issue was handed to the notifier; its filters and the sends that fail,
  which are logged, are left out. The clients of Discord and of the webhook have no
  timeout (`notification/discord.go:45`, `notification/webhook.go:33`): the send at which a
  report gets stuck may be any, and what is behind it is `behind` for good. `stuck` are the
  groups whose scaler hangs in such a send with its lock held (`controller/scaler.go:103-136`).
  A runner in a pool has a PID, so that the skip of others (`checks.go:101`) is idle.
- *`Config`*: a size is the number `ParseByteSize` makes of it, or `Invalid`; CPUs are in
  ten thousandths and rounded as `CPUMilli` does. `ScaleSetName` is a constant function,
  so that names which differ in case only collide as they do in the code.

## What is checked

`OnlyLeases`, `OnlyShares` and `OnlyListeners` leave out parts of the state space another
run covers, as state constraints or, where the invariants are costly, as the steps that
stay inside (`SharesSpec`); `OneCgroup` and `TwoReports` bound what two
runners or two reports do at the same time without touching one another. Each is commented
in its MC module.

| Run | Instance | Shows |
|---|---|---|
| `capacity_leases` | 3 groups (one outranking, one with a minimum, one without reserve), 3 leases, CPU limited, memory not; `Config` over 1600 pairs of groups | types; accounts exact; never overcommitted; minimums protected and admitted at once; nobody in the line whom no one can wake; no wake-up lost; the allocator implements `Budget`; `validate` accepts such hosts and no others |
| `capacity_run` | 2 groups, 1 lease, fair loops, daemon may stop | a group that waited when capacity was released is called |
| `advertise_shares` | 3 groups, two of equal priority, of different minimum and size, 3 leases, memory limited | waiting groups form one line, somebody is first, nobody overtakes beyond its minimum; shares count each free runner once, leave none, respect that line |
| `listeners_fresh` | 2 groups, 2 leases | once nothing is pending, what polling groups advertise is current |
| `scaler_pool` | 2 runner names, maximum 1, budget | one owner, exact reservation, pool bound, trimming spares jobs |
| `scaler_live` | 1 runner name, fair | reconcile ends; a dead runner's reservation returns |
| `recovery` | 2 runner names, any number of deaths, with and without cgroups (one at a time), another host | a pass over stale names removes no live runner; stale names are tried again |
| `binaries` | 2 groups, 3 releases, 2 kept, any number of deaths | nothing served that is not whole; new releases kept; every start settles |
| `lifecycle` | 2 processes, launchd and systemd, 1 fault, 2 commands, watchdog threshold 2 | files and runners replace a predecessor's; a stop lasts, for good if its bootout succeeded and over reboots if not; the daemon comes back |
| `health` | 1 group, 1 runner name, up to 2 wanted, timeout of 2 ticks, 2 reports under way, any of which may hang | degraded only after the timeout; every kill is named to the notifier, behind a hanging send excepted |
| `scaler_idle_kill`, `health_deferred` | as above | disagreements between documents and code, see Findings |

Why the bounds are enough to see the interesting cases. Three groups are the
fewest in which one is outranked, two compete as equals and one has a minimum;
with three leases a group can go past its minimum while another is below its own,
and a call can grant two leases of which only the second is refused or allowed.
Two runner names with a maximum of one let a runner be torn down, slowly, while
its replacement is already running, which is where owners, reservations and counts
can go wrong; a third name adds interleavings of the same pairs. A name is reused
once nothing refers to it, so that behaviours are unbounded in length. `Recovery`'s
runners interact only through the daemon's phases; two suffice for one to be
cleaned while the other is not. In `Binaries` one of two groups downloads while the
other serves, removes or waits for the same mutex, and three releases are one more than
are kept, so that something is removed. In `Lifecycle` the host may begin with what a
killed daemon left, which counts as a fault for free; with two processes one may be on
its way out, or started by hand, while the other serves, and two commands are enough
for a stop beside a `ghr run` or after a start. A tick of `Health` treats groups one
after the other and independently; one group that wants up to two runners and can have
one meets every case of the divergence check, and two reports may overtake each other; a third
tick begins when one of them is done. A group with a hanging scaler stops all ticks, so
that a second group would add nothing but more of them that wait.

Deadlock is not checked where the daemon really stops (`CHECK_DEADLOCK FALSE`: it
exits, or every loop has returned; the monitor of `Health`, once a send hangs with a
scaler's lock held) or where the constraint cuts steps off.

### Properties of each run

- `LeaseAccounting` relates three pieces of state kept apart in the code: the flag
  in each lease, `held` of each group and `used` of the host.
- `FloorsProtected` and `FloorAlwaysAdmitted` state the two halves of the promise of
  `min_runners`: admissions of *other* groups keep it payable, and so the group's
  own admission never fails below it.
- `NobodyWaitsUnheard` is about calls that outlive their listener: a wake pass or a
  reconcile asks once more after `Unregister`, and what it is refused must not join the
  line, where nobody would wake it and priority would hold back the others.
- `NoLostWake` is about the one-slot channel: a group that waited at a release has
  a token or a place in the running pass. `owed` is an auxiliary variable for it.
- `NoOvertaking` is an action property over one call, which may grant leases below
  the minimum first and is then held to the line.
- `EachCountedOnce` allows one shared runner per group only while nobody waits, as
  the code and README.md:125 do.
- `FreshOnceServed` needs its premise: a group that goes on waiting for more or for
  fewer runners notifies nobody (`capacity/allocator.go:107-113`), and the value is
  then current only because nobody waiting could be admitted.
- `OneOwner`, `ReservedWhileItLasts`, `ReservedWhileRunning` follow a runner through
  every teardown path, failing cleanups and starts included.
- `ServedWhole` follows a release through downloads, failures and deaths at every step.
  Its exception, `condemned`, is real: `gcOldVersions` holds the mutex of the new version
  only, and a `RemoveAll` cut short by a death may have left the marker.
- `FreshKept` is about several downloads whose removals overlap; the premise is that
  they are not more than the cache keeps.
- `StartSettles` says that a failure of one group ends the others wherever they are, and
  that no return keeps a mutex.
- `FilesFollow` and `NoOldRunners` follow what a daemon finds at its start, from every
  stage at which its predecessor may have been killed.
- `StopSticks` holds from the moment `stop` says so, over crashes, respawns and reboots,
  although `stop` sends its signal before it takes the service from the manager. If its
  bootout failed, all that holds is that the plist is gone and no reboot loads it.
- `Comeback` is liveness of watchdog, manager and startup together: if the service stays
  loaded and is not told to end, the socket is answered again and again.
- `DegradedDeserved` relates an issue to the ticks before it, counted by an auxiliary
  variable that is not the code's timer.
- `KillsTold` would fail if the goroutine that reports read the monitor's list, which the
  next tick empties. It excepts what is behind a send that never ends, and all kills once
  a scaler never gives its lock back: the code has no timeout to end either.
- `AcceptedFits`, `AcceptsWhatFits` and `WrapIsAccepted` (assumptions that TLC evaluates)
  compare `validate` with what it is for, over pairs of groups and a sum of four bits.
- `ReconcileTerminates` fails if the monitor is told the target with the scaler's
  lock held (its mutant), the deadlock the comment at `controller/scaler_capacity.go:107`
  warns of.
- `TrimSparesJobs` excepts runners whose ID is not known: GitHub is not asked about those.
- `LiveSpared` relates names that were found in workdirs before the daemon served to the
  runners it has started since, and to those of another host in the same scale set.
- `StaleRetried` says that a name taken out for a removal that fails or is refused comes
  back, however often the listener fails; it is about one life of the daemon.

Every property has a mutant, a small change of a mapped definition under which TLC
finds the property violated; `PROJECT.json` lists them, and they stand beside the
definitions they change.

### Fairness

- `Capacity`: weak fairness of the loops' steps. A Go `select` in a loop takes a
  ready case, and a loop is blocked only by the calls it makes. Nothing obliges
  callers to ask, release or register.
- `Scaler`: every goroutine goes on with what it has begun (weak fairness of each
  step); one that waits for a mutex gets it in the end although others take it again
  and again (strong fairness of `UpdateGroupStats`, `Snapshots`, `CheckLiveness`,
  `WatcherFires`, which Go's mutexes provide by their starvation mode); a listener
  is restarted and does not fail for ever; GitHub ends the job of a dead runner and
  delivers its event in the end. No count need arrive and no check need begin, so
  that `DeadReleased` shows the watcher at work and not the monitor. A send under the
  scaler's lock is assumed to end, which only the other side's answer or the end of the
  daemon's context brings about; `Health` does without that assumption.
- `Recovery`: the listener goes on with its pass and restarts; every job ends, at
  GitHub's time limit at the latest; and GitHub does not refuse for ever every removal it
  could carry out (strong fairness of all of them together). Deaths and boots have no
  fairness.
- `Binaries`: a group goes on with what it has begun (the HTTP client gives up after ten
  minutes, files are removed in finite time) and gets a mutex that is free; `Run` returns
  when all have. Weak fairness suffices, because nobody takes a mutex twice. Boots and
  deaths have none.
- `Lifecycle`: a process goes on, its probes being on a ticker; the manager starts what is
  due; the calls of a command return. Faults, commands and repairs have none.
- `Health`: the steps of a tick end, since a kill gives up after its grace period, unless
  the tick waits for a lock that is never given back. A report ends when all is sent or
  when a send never ends: the action is then the last that is seen of it. No tick need
  begin.

### Findings

Each is a run that TLC ends with a counterexample, and a quoted sentence it refutes.

1. `scaler_idle_kill`: an idle timeout kills a runner that GitHub has given a job
   whose `JobStarted` has not been handled, although trimming takes care not to.
2. `health_deferred`: what waits for capacity is deducted by the divergence check and not
   from what Uptime Kuma is told, so that deferred demand shows as an outage
   (`health/checks.go:37`) although README.md:126 says that it never degrades a group.

Observed while modelling and not given a run, because no document says otherwise, or
because the fact is plain from the code:

- A teardown keeps its lease while its replacement starts, so `held`, and with it the
  advertised capacity, may pass `max_runners` for a moment (README.md:125 says "always
  within `max_runners`").
- A runner that a wake pass started dies with the capacity actor's context
  (`runner/process.go:95`, `cli/run.go:89`) while it is registered, before the shutdown
  that README.md:185 describes deregisters it.
- Without a capacity block each restart of a listener builds a new scaler
  (`controller/controller_capacity.go:32`), which does not know the processes of the one
  before it.
- A stale registration that could not be removed is tried again only when the listener
  reconnects, not at some later time (`controller/group.go:184`), and its name is in memory
  only: if the daemon dies again before, and the workdir is gone, nobody knows it.
- `releaseSurplusRunner` stops a runner without asking GitHub if its ID is 0
  (`controller/scaler_capacity.go:172`), whatever job it has.
- A startup goes on when it could not kill a runner it found, or could not look
  (`runner/cleanup.go:81-83`, `:103-137`); the process then runs beside the new pool.
- `stop` says "ghr stopped" also when the bootout failed (`launchd/service.go:85`,
  `cli/stop.go:60-66`): the service is still loaded and launchd may start it again, until
  the host restarts.
- `HandleJobStarted` notifies with the scaler's lock held, and the clients of Discord and
  of the webhook have no timeout. A server that never answers there stops that scaler; the
  next health tick waits for it with the monitor's lock, and every group's reconcile
  then waits to report its target. In `HandleJobCompleted`, which notifies without the
  lock, it stops its listener only, and in a report of the monitor what is behind it.
- `gcOldVersions` may remove a release that another group serves from, if more releases
  are in use than the cache keeps.
- An idle timeout counts a zombie killed in the same tick as idle (`health/checks.go:184`)
  and may so go below `min_runners` until the next reconcile.
- Nothing outside tests calls `RecordStartFailure`; the group-level
  `health.runner_timeout` (`config/types.go:42`) is read by nobody; the divergence timer is
  neither counted nor reset while the desired count is zero (`health/checks.go:220`).
- `purge` looks for a daemon under launchd only (`cli/purge.go:78`), so that beside one
  under systemd it deletes scale sets and workdirs that are in use.
- `start` is content with whatever PID the file holds, a dead daemon's included
  (`cli/start.go:118`). `restart` asks launchd twice, and if the daemon ends in between
  it signals PID 0, its own process group (`cli/restart.go:30-34`).
- The sum of the minimums wraps at 64 bits (`config/validate_capacity.go:68`), and a
  number of CPUs beyond 64 bits is converted to one (`config/resources.go:40`).
- One group that cannot fetch its binary stops all (`controller/controller.go:98-103`); a
  registration whose JIT answer is lost is known to nobody; a container that mounts the
  workdir itself and not a directory below it is found by the first loop of
  `selectJobContainers` and not by the second.

## What is proved

`CapacityProofs` holds for any finite sets of groups and leases and any priorities,
minimums, maximums, reserves and total, under two assumptions: `GroupsAssumption`
(types, priorities being any integers, and minimum at most maximum) and `FloorsFit` (the minimums fit the host),
both of which `config/validate*.go` enforces before an allocator is built: that is
`AcceptedIsHonourable`, for any number of groups.
`AdvertiseProofs` adds `NamesDiffer`, that groups have different names, which
`config/validate.go` enforces too; it takes any order of the names.
`ScalerProofs` holds for any finite set of runner names and any minimum and maximum,
with and without a budget, under `ScalerAssumption` (types, and minimum at most
maximum), which the same validation enforces.
`BinariesProofs`, `LifecycleProofs`, `HealthProofs` and `RecoveryProofs` hold for any
finite set of groups, releases, processes or runners and any bound on commands, faults
and reports, under the type assumption of their module.

| Theorem | Says |
|---|---|
| `TypeCorrect` | `Spec => []TypeOK` |
| `LeasesAccountForUse` | `Spec => []LeaseAccounting` |
| `FloorsStayProtected` | `Spec => []FloorsProtected` |
| `NeverOvercommitted` | `Spec => []NoOvercommit` |
| `FloorsAreAdmitted` | `Spec => []FloorAlwaysAdmitted` |
| `CapacityImplementsBudget` | `Spec => ImplementsBudget` |
| `WaitersFormALine` | `Spec => []OneLine` |
| `NoWakeIsLost` | `Spec => []NoLostWake` |
| `WaitersAreHeard` | `Spec => []NobodyWaitsUnheard` |
| `SomebodyIsAlwaysFirst` | `Spec => []SomebodyIsFirst` |
| `NobodyOvertakes` | `Spec => NoOvertaking` |
| `SharesAreCountedOnce` | `Spec => []EachCountedOnce` |
| `SharesRespectPriority` | `Spec => []SharesByPriority` |
| `SharesLeaveNothingOver` | `Spec => []NothingLeftOver` |
| `DeferredDemandIsFirst` | `Spec => []DeferredDemandFirst` |
| `SharesInvariance` | the invariant of the allocator's state that these four rest on |
| `ListenersUseTheAllocator` | `AdvSpec => Spec`: the listeners' behaviours are the allocator's |
| `ListenersTyped` | `AdvSpec => []AdvTypeOK`, which no run checks |
| `FreshShares` | `AdvSpec => []FreshOnceServed` |
| `ScalerTypeCorrect` | `Spec => []TypeOK` |
| `RunnersHaveOneOwner` | `Spec => []OneOwner` |
| `PoolStaysWithinMax` | `Spec => []PoolWithinMax` |
| `ReservationsLast` | `Spec => []ReservedWhileItLasts` |
| `ProcessesAreReserved` | `Spec => []ReservedWhileRunning` |
| `TrimSpares` | `Spec => TrimSparesJobs`, runners without an ID excepted |
| `BinariesTypeCorrect` | `Spec => []TypeOK` of `Binaries`; a group inside `EnsureBits` holds its release's mutex |
| `FreshReleasesKept` | `Spec => FreshKept` |
| `ReleasesServedWhole` | `Spec => []ServedWhole` |
| `LifecycleTypeCorrect` | `Spec => []TypeOK` of `Lifecycle` |
| `FilesFollowDaemon` | `Spec => []FilesFollow` |
| `OldRunnersGone` | `Spec => []NoOldRunners` |
| `StopIsFinal` | `Spec => []StopSticks` |
| `HealthTypeCorrect` | `Spec => []TypeOK` of `Health` |
| `DegradedOnlyWhenDue` | `Spec => []DegradedDeserved` |
| `KillsAccounted` | an untold kill is in the tick's list, in a report still to be sent or behind a send that never ends, the safety half of `KillsTold` |
| `RecoveryTypeCorrect` | `Spec => []TypeOK` of `Recovery` |
| `LiveRunnersSpared` | `Spec => LiveSpared` |
| `CleanupSparesOwn` | what a start cleans up and deregisters is never a runner of this daemon, nor one of another host |
| `AcceptedIsHonourable` | what `validate` accepts meets `Capacity`'s assumptions, as long as the sum of the minimums stays within 64 bits |
| `ScaleSetsAreDistinct` | no two groups of an accepted configuration share a scale set |

The argument. `NoOvercommit` is not inductive: a host that is full has no trace of
what it owes. The inductive invariant is

    Inductive == TypeOK /\ LeaseAccounting /\ FreshLeases /\ FloorsProtected

`FreshLeases` (an identity nobody refers to is not finished) makes issuing a lease
add exactly one live lease. `LeaseAccounting` makes a release subtract what was added,
so that `used` stays a natural number (`HoldMore`, `HoldLess`). `FloorsProtected`
(used plus all that is owed below minimums fits the host) survives a call that grants
several leases because only its last grant matters (`GrantsKeepFloors`): below the
group's minimum a grant turns something owed into something used; above it, admission
has just checked the others' floors and nothing is owed to the group any more.
`NoOvercommit` and `FloorAlwaysAdmitted` follow from it.

The refinement. `Budget` sums, for every group, the larger of what it holds and its
minimum; that is what `Capacity` has in use and owes (`CommittedSplits`, from
`SumAdd` of `SumTheorems`), so the inductive invariant says exactly that the holdings are honourable.
A step that issues leases is then `Grow`, one that finishes a lease `Shrink`, every
other one a stutter.

The line. `OneLine` is inductive given the types: a group joins behind all the
others (`JoiningKeepsLine`) or leaves and nobody is behind it (`LeavingKeepsLine`).
`NoLostWake` needs one fact more, `OwedWait`: who is owed a call still waits and has
a waker, so that the pass which takes the token finds it. The pass calls all it took
because the order it calls them in has no repetition (`PassCallsAll`, by counting).
`NobodyWaitsUnheard` is proved with what the shares need (`SharesInv`): only a group that
has not been closed joins the line, and none asks before it was registered.
`SomebodyIsFirst` is not an induction: among the waiting groups take one whose set of
blockers is minimal; a blocker of it would have a smaller one. `NoOvertaking` looks at
the last lease a call grants: if it was admitted past the minimum, priority did not
block the group, and whoever outranks it would have.

The shares. Every pass of `planAdvertised` is a loop of single takes, so that what one
take keeps is true of the plan (`LoopStays`, `ShareStays`): that what is in use, planned
and owed below minimums fits the host (`TakeKeepsFit`), and that whoever got past its
minimum came first (`TakeKeepsPriority`). The order of service is a total order of the
groups that take part (`ServiceIsOrdered`, from `OneLine` and `NamesDiffer`) and so lists
each of them (`OrderIsRight`, by counting). `NothingLeftOver` and `DeferredDemandFirst`
need the reverse, that a refusal lasts. The last deal ends with a round that deals
nothing, and in such a round nobody could take (`SettledRound`); the loose last runner
comes only when nobody waits and takes no room from a group that was refused. A group
refused while demand was claimed is refused for lack of room, which only shrinks as the
plan grows (`BudgetMonotone`: a runner uses at least what it was owed), or because
another outranks it that itself still waits (`RefusedStaysRefused`).

The listeners. A step that leaves no announcement behind is `Silent` (`StepSilent`): what
is in use, who takes part, who waits and in which line stay the same; only how much is
waited for, and what a group without reserve holds, may change. `planAdvertised` does
read how much is waited for. But when nobody who waits could be served, the claims give
nothing out (`NothingClaimed`), no later pass gives a waiting group anything
(`IdleStays`), and among such plans two silent states admit alike (`AdmitAlike`), so that
every pass ends alike (`RoundAlike`, `DealAlike`, `ShareAlike`): the values that are right
before the step are right after it (`CapacityAlike`). `FreshInv` says that in such a state
each value shown or computed is right or its group is on the notifier's list;
`ListenerInv`, that at most one value per group is under way (`advertiseMu`) and that the
notifier's is for a group on its list. Without the latter `FreshInv` is not inductive: a
late value of the listener could replace the notifier's.

The scaler. The proofs stand on one another, and `OwnerSteps` says once what each
action may do to the pool, to the teardowns and to the runner being started:
somebody takes a runner out of the pool, a teardown goes on, a start goes on, the
daemon shuts down or exits, or nothing of the kind happens.

- `Control` is inductive by itself: the types; a runner is being started only by a
  reconcile that holds `mu` and has a grant left (`StartsUnderGrant`); whoever
  reconciles knows a count (`ReconcileKnows`).
- `Owned` adds that a runner being started is in nobody's hands (`StartingIsNew`).
  Without it `OneOwner` is not inductive: a started runner joins the pool.
- `PoolWithinMax` then rests on `NeedBounded`: what a reconcile asks for, computed
  again once it holds `mu`, fills the pool to the maximum at most, and from there on
  only its own starts add runners, each for one of the grant.
- `Kept` says for each runner what its reservation, process and teardown have to do
  with one another: no step is planned twice and stopping comes before cleaning up;
  once only the cleanup is left the process is gone; the runner has a reservation if
  and only if it is in the pool or its cleanup is planned. `ReservedWhileItLasts` and
  `ReservedWhileRunning` follow.
- `Spared` says that a runner which a reconcile is about to stop has been
  deregistered and has no job, unless it has no ID. It is kept because GitHub assigns jobs to registered
  runners only and nothing registers a name that is in use. A trim takes such a
  runner only (`TakenWasAsked`).

The cache. `Control` is the types and the mutexes: a group between its lookup and its
return has a release and nobody else is there for the same one (`Alone`). For
`FreshKept`, `Newest` says that a marker set since the daemon started is newer than all
others, so that whatever `gcOldVersions` lists has `CacheKeepVersions` newer markers and
is not among that many fresh ones (`OldIsNotFresh`, by counting). For `ServedWhole`,
`Whole` follows one release through `EnsureBits`: no marker while it is downloaded, a
marker only on what is whole or was condemned, and whatever may lose files was condemned.
The first attempt at this proof failed for a release that one group serves while another
one clears and downloads it again: with three groups the model let it be served half
removed. The exception for condemned releases now lasts as long as anybody serves the
release or removes it, which two groups cannot tell from the shorter one.

The process. `Control` holds the course of every command (`CommandTyped`), that the
manager's job is a process that runs, that a service is installed only where none is
loaded (`BootedOut`), and what no command reaches without launchctl (`Unsupported`).
`FilesFollow` and `NoOldRunners` are not inductive beside a second daemon; the invariant
`Lone` says that an undisturbed process is the only one (`Solo`) and that what each of its
stages has written is still there (`Own`). A step of another process then is one among
disturbed ones. `StopSticks` needs `OneJob`: of what the manager started, only its job is
not on its way out, so that a boot-out reaches everything there is.

The monitor. A group's clock is advanced when a tick begins and looked at when the tick
comes to the group, so that it is behind the ticks the group was apart by one, or not
(`ClockHeld`, `Pending`). A `degraded` issue is about a group that this tick has passed
(`CalledWhenDue`). `Accounted` holds because a kill and the issue that names the runner
are one step, a tick ends by handing its list over, and a report is dropped only when all of
it is sent or what is left is behind a send that hangs (`BehindStays`).

Recovery. What is left to do for a runner is always the rest of one of the few lists the
code has (`Plans`), and nothing is left for a runner in the pool (`Planned`). With the
`Foreign` invariant a daemon that cleans has no runners, and the names it keeps for the
listener are none of its own; this rests on names being new (`Unused`: a runner's name is
random in the code). `LiveSpared` is the same about the names under way: none is registered
by another host or in use here.

The configuration. `ScaleSetsAreDistinct` is not immediate because the code compares
each group with the first group of its scale set only; among the groups with a given
scale set there is a first (`FirstOfNaturals`), and two that share one differ from it
in turn. `AcceptedIsHonourable` needs its hypothesis on the sum: `WrapIsAccepted` in
`MCCapacity` shows a configuration that is accepted without it and does not fit.

The type invariant of `Listeners` is proved only. Every safety invariant and action property of the passing runs has its theorem. Liveness
(`OwedIsServed`, `ReconcileTerminates`, `DeadReleased`, `StaleRetried`, `StartSettles`,
`Comeback`, `KillsTold`) is model-checked only, being out of the prover's reach.

## Not modelled

`PROJECT.json` lists every component with its reason. In short:

- The text of the configuration (sizes, name patterns, durations, environment), the
  credentials, log files, rendering, doctor checks and payloads keep no state that
  others depend on.
- The circuit breaker guards a few requests that the commands make one after the other;
  its races cannot arise as it is used.
- The back-off of a group's loop and the creation of its scale set change nothing but
  time and GitHub.
- The containers of a job: their removal ignores docker's failures, nothing reads them,
  and no document promises that they are gone.
- What `purge` deletes at GitHub and in the workdirs; docker and download calls, which
  are I/O; the checks of the kernel in `cgroup.Setup`.
- The scale set SDK is external and modelled by how `src/` uses it. PID reuse and clock
  changes are outside every model; a second daemon on the same state directory is in
  `Lifecycle` only.

## Plan

Written, in this order: the budget (1), because everything else rests on it; its
shares and how listeners learn of them (2); one group's scaler with everybody who
works on its pool (3); recovery over deaths of the daemon (4); the monitor (5); the
cache of releases (6); the daemon's process, its service manager and the commands (7);
validation, and what it means for the budget (8); and for each its theorems. Next:

9. `Host`: two `Scaler`s composed with `Capacity` through leases, to discharge what
    each assumes of the other: the scaler asks as `Capacity`'s callers do, and returns
    each lease once.
10. Pure functions: `ParseByteSize`, `selectJobContainers`, `ScaleSetName`, checked
    against reference definitions.
