# lobsterd in TLA+

`lobsterd` runs each tenant in a Firecracker micro VM on one Linux host. It is a
command-line program without a database or a server of record: its commands and its
watchdog are separate processes that agree through one JSON file. This directory holds
TLA+ models of that program, TLC runs that check them on small instances, and proofs,
checked by TLAPS, of the theorems that hold for every instance.

Contents: 1 the system, 2 what is hard about it, 3 the modules, 4 the runs, 5 bounds,
6 assumptions and fairness, 7 the proofs, 8 what the checks found, 9 what is not
modelled, 10 the plan.

## 1. The system: inventory

| component | source (under `src/src/` unless said) | state it keeps | operations | modelled in |
|---|---|---|---|---|
| registry file and lock | `config/loader.ts` | `registry.json`, `registry.json.lock`, a temporary file | `loadRegistry`, `saveRegistry` (`acquireLock`, write, `mv`, `releaseLock`) | `RegistryStore` |
| watch command | `commands/watch.tsx` | the registry object, the in-flight set, shared by both loops | start, stop | `WatchDaemon` |
| health loop | `watchdog/loop.ts`, `watchdog/state.ts` | one health state per tenant | tick: reload and merge, checks, state machine, repair | `WatchLoop`, `WatchState` |
| scheduler | `watchdog/scheduler.ts` | sentinels, wake timers, idle times, the in-flight set | idle poll, `triggerSuspend`, `triggerResume`, sentinels, timers, start-up | `Scheduler`; the poll against users in `Holds`; times in `Wakes` |
| suspend, resume | `commands/suspend.ts`, `resume.ts` | snapshot files, chroot, VM process, the entry | pause, snapshot, copy, kill / spawn, load, remove snapshot | `TenantOps`; `Wakes` |
| repair | `repair/*.ts` | VM process, `vmPid`; device, rules, routes | kill everything of the VM, boot, save; TAP, Caddy, gateway | `TenantOps` (VM), `Host` (TAP, Caddy), `Holds` (gateway) |
| spawn, evict | `commands/spawn.ts`, `evict.ts` | counters for addresses, ports, uids; rules; entry | allocate, build with an undo stack / tear down | `Host`, `HostCommands`, `Subnets`; `TenantOps` |
| holds; molt, exec, logs | `commands/hold.ts`, `molt.ts`, `exec.ts`, `logs.tsx` | a hold on the agent with a time to live | resume if suspended, hold, renew, work, release | `Holds`; `TenantOps` |
| guest agent | `guest/lobster-agent.mjs` (under `src/`) | holds, the gateway's token and process, deferred runs | answers of the agent | `Holds`, `Wakes` |
| network rules | `system/network.ts` | iptables chains, TAP devices | add and remove in pairs | `HostCommands`, `Host` |
| health checks | `checks/*.ts` | none | VM, agent, TAP, Caddy | `TenantOps`, `Host`, `Holds` |
| init, uninit | `commands/init.ts`, `uninit.ts` | directories, chains, base configuration of the proxy, service | install / remove | `Host` |
| REST server | `reef/index.ts` | writes `config.json` when there is none | runs the commands in one process | `BuoyStarts` of `Host`; `Pid` of `RegistryStore` |
| host tools | `system/*.ts` | none | calls of programs | as steps that succeed or fail |
| tank, snap, UI, web site, image builds | `commands/tank.tsx`, `snap.ts`, `ui/`, `src/web`, `src/guest/build-rootfs.sh` | none of interest | display | not modelled |

How they interact:

- Every command reads the registry file at its start, works for seconds to minutes, and
  writes the **whole** file back at its end. The lock of `saveRegistry` covers the write.
- In the watchdog process the health loop and the scheduler share one registry object.
  The loop replaces the tenants in it from the file at each tick; the scheduler marks a
  tenant suspended in it before the suspend is done, and reverts that if it fails.
- The scheduler calls `runSuspend` and `runResume` in its own process; those use the file,
  not the object. The repair of the loop saves the object.
- A sentinel is a TCP server on the address of a suspended tenant: a request that reaches
  it resumes the tenant. A timer does the same ahead of the tenant's next job.
- Scheduler and commands talk to the guest agent over one TCP call per request, each with a
  time limit. The agent asks the gateway in its turn, with a time limit of its own.
- Commands change the host by running `ip`, `iptables` and the like and by calling the API of the
  proxy; what a tenant has there is found again by its name, its address or its port.
- A process is single threaded; control changes hands at each `await`.

What makes each component correct: the lock excludes, is not left behind and survives the
death of its holder, and the file always parses (registry); one operation per tenant at a
time, a suspended tenant can be reached and wakes for its jobs, and bookkeeping ends with
its operation (scheduler); a failing tenant is repaired a bounded number of times and
nothing but its resume makes a suspended tenant active (loop); memory is never lost or
replaced by an older one, and at most one VM writes to an overlay (suspend, resume,
repair); allocated numbers are distinct, whatever was built is removed, and nothing of another
tenant is touched (spawn, evict, repairs of the network); a tenant in use stays awake and one
that is deserted sleeps (holds, agent, idle poll); the timer precedes whatever the
tenant has to do, and it stays awake until that is done (wake times).

## 2. What is hard to test

`PROJECT.json` lists the hazards at their lines. In groups:

- **Crash**: a process dies inside the lock, or between the creation of the lock file and
  the write of its id (which may also throw, with the process alive); the watchdog restarts with suspended tenants; the host restarts and
  keeps its files but neither chains nor devices.
- **Interleaving at each await**: an idle poll that looked at the status before it asked
  the agent; a sentinel started twice; a sentinel removed while one is started; an index
  into a list that the other loop has spliced; a poll whose later one is answered first; two
  resumes of one tenant; two spawns that read the same counters.
- **Stale data**: registry entries that are minutes old are written back (suspend, resume,
  repair, molt); a count of connections that is older than a hold.
- **Partial failure**: a suspend that paused and did not snapshot; a resume that removed
  the snapshot and did not save, or ended before it removed it; a repair that booted and did not
  save; a `pkill` and an `rm -rf` whose results nobody looks at; a continuation
  that throws and leaves the tenant in flight; a stage of a spawn that broke half-way; a
  rule that could not be removed.
- **Timeouts**: a wake time that passes while the suspend is under way; a request to the
  agent whose caller gave up and that is handled later, such as a renewal that overtakes
  the release of its hold; a command that timed out after it had its effect.
- **Numbers**: the arithmetic of the next heartbeat, a delay `setTimeout` cannot keep, a wake time tested before and computed
  again after the snapshot, grace against deferred runs, addresses as 32-bit integers.
- **Something must happen in the end**: an exited gateway comes back, a killed command's
  hold expires, a deserted tenant sleeps, a lock of a dead process is reclaimed.

## 3. The modules

| module | models | main state |
|---|---|---|
| `RegistryStore` | `loader.ts`: each system call and each `await` of `saveRegistry` is a step | `lock`, `registry`, `tmp`, `pc` and `seen` of each task, `alive` processes |
| `WatchState` | `state.ts`: the health state machine as operators | none |
| `DaemonState` | what both loops share | `disk`, `wake`, `mem`, `inFlight`, `watch` |
| `WatchLoop` | `loop.ts`: the tick, step by step | `tick`, `spree` (history: repairs in a row) |
| `Scheduler` | `scheduler.ts` with its calls of `runSuspend` and `runResume` | `poll`, `boot`, `susPc`, `resPc`, `listener`, `mapped`, `timer`, `idle`, ... |
| `WatchDaemon` | composes the loop and the scheduler, restarts, and other commands' saves | `restarts` |
| `TenantOps` | suspend, resume, repair, molt, evict of one tenant: the VM, its processes, the chroot, the snapshot directory and the entry | `entry`, `proc`, `guest`, `sock`, `image`, `store`, `pc` of each command |
| `Lifecycle` | abstract: what all of that promises of one tenant | `status`, `running`, `memory` |
| `HostCommands` | the programs: which command of which operation creates, uses or removes which thing, in which order, with which undo | none |
| `Subnets` | addresses from an index | none |
| `Host` | runs the programs: init, spawn with rollback, evict, network repairs, uninit | `host`, `registry`, `lockdown`, and of each operation `kind`, `stage`, `step`, `undoing`, `read`, ... |
| `Holds` | one tenant between holds, connections, jobs, idle polls that overlap, and the gateway's health with the state machine of `WatchState` | `agent`, `watch`, `session`, `call`, `wire`, `poll`, `quiet`, `idle`, ... |
| `Wakes` | times: schedules, wake time, timer, guest clock, poke, grace | `job`, `since`, `lag`, `cron`, `beat`, `timer`, `poke`, `idle` |
| `MC*` | constants for TLC | |
| `*_proofs` | theorems and proofs of `RegistryStore`, `WatchDaemon`, `TenantOps`, `Host`, `Holds`, `Wakes`; `Lifecycle_proofs` the refinement; `HostCleanup_proofs` what operations on the host leave | |

Correspondence with the code. A label of a `pc` names the point at which a chain of
`await`s is suspended; an action is the code from there to the next point. Data are
reduced to what the properties tell apart:

- In `RegistryStore` the content of a file is a state (`absent`, `whole`, `torn`) and the
  lock file holds nothing, or a process id. Tasks are calls of `saveRegistry`; `Pid` assigns
  them to processes, so that two calls in one process (the REST server, the watchdog) share
  an id. The time limit of the lock may run out at any attempt. Every file operation may fail; a task whose write
  of the process id threw is `thrown`: it has returned, and its lock file is still there.
- In `DaemonState` an entry is its status and whether it has `suspendInfo`. `disk` is a function
  by name (the file has each tenant once); `mem` is a sequence, because the code works with
  indices into it. `wake` is `nextWakeAtMs` relative to now: none, ahead, due. It
  becomes `none` with the save that clears `suspendInfo`.
- `WatchLoop`: check results are nondeterministic. A tick can skip, in one step, tenants it
  only looks at. `fresh` is the file as the tick read it, `current` the health state it took before the checks
  and passes to the state machine after them. A member "recheck" of `MayFail` is the second read of the file, just before a
  repair, that fails: the code then repairs all the same. The other reads are "load".
- `Scheduler`: `Polls` are overlapping idle polls (the interval does not wait for the last one).
  The agent's answer is idle or busy. `mapped` and `listener` are separate because the code
  awaits between changing the map and the socket. `susIdx` is the index the code keeps.
  A continuation that throws (an index out of range, a port that is taken) ends there and
  leaves the name in flight: `Throws`.
- `WatchDaemon`: the command of another process is its save; `runEvict` saves twice.
- `TenantOps`: a command is one of a set `Ops` of chains, each with the entry it read (`read`). A
  guest's memory is a value of `Memory`; `Works` changes it. `sock` is the process that answers on the
  API socket in the chroot: removing the chroot leaves the process running without one.
  The two snapshot files are one, `Torn` after the first copy began; the three reads at the
  start of molt (its own, its hold's, its resume's) are one. A failure that the code heeds and the death of a command's process
  come to the same: the command ends and what it did to the host stays (`Fails`). `EndsEarlyAt` sorts the steps by what
  is then left: "host" before there is a VM, "late" with a VM no entry names, "midway" in a resume with the snapshot loaded (or loaded
  without an answer) and not removed, "save". The failures that the code does not heed are in the steps themselves: what a removal
  of a directory leaves (`AfterRm`, "rm") and whether `pkill` finds anything (`Slays`, "pkill").
- `Lifecycle` has no hosts, processes or files. `TenantOps` maps to it (`Promise`): the status is the
  entry's, the VM runs if some guest does, the memory is the one the tenant was last in.
- `HostCommands` writes an operation as data: a sequence of stages, each with its commands and with those
  that undo it. A command is what it does to one thing: `append` and `drop` change its number by one
  (an iptables `-A` or `-D`, a route, a process), `create` fails if it is there, `make` (`-C || -I`, `mkdir -p`, a
  copy) and `clear` (`rm -rf`, `ip link del`) settle it, `use` needs it, `empty` and `remove` concern a chain, the
  proxy's server or a directory, `mark` and `save` the registry. A `Soft` one's failure is ignored by the code.
- `Host`: `host[i]` is how many there are of item i, an item being a thing with the name, the address, or
  both, by which the code finds it again. The four counters of the registry always go up
  together: the index of a tenant stands for its address, port, context id and uid. A command that
  fails by a timeout may have had its effect. `debris` and `torn` are histories of what a failure may have left.
- `Subnets`: an octet is a quotient and a remainder, which is what the shifts and masks of signed 32-bit
  integers yield wherever the sum wraps.
- `Holds`: a tick is a minute; calls are over within seconds, so none is pending at a tick. `wire` holds
  the requests the agent has not handled, also those whose caller gave up. The poll
  counts the connections, asks the gateway, and counts the holds last, in the agent's order. A poll does not wait for the last
  one (`scheduler.ts:264`): two are under way for one tenant when the earlier was held up at the tenants before it, which are asked in turn,
  up to 3 s each (`vsock.ts:196`); the interval is 5 s by default. A gateway is gone, up, or "deaf": it lives and does not answer. The agent waits
  10 s for a deaf one, longer than the host for the agent, so such a poll ends without an answer. `watch` is the watchdog's
  state of the tenant: a check that fails repairs, a repair counts whatever it came to, and a tenant that is FAILED is not repaired. The cooldown
  only delays a check, and checks have no time here. `since` and `misses`
  are histories. A resume sets the guest's clock forward by any amount, or fails to.
- `Wakes`: times are relative to the host's clock and come closer with each tick; `lag` is how
  far the guest's clock is behind, which is what its answers are computed with. No unit is fixed. `SetTimeout` is what the
  runtime makes of a delay: above 2^31 - 1 ms (`MaxDelay`) it fires at once.

How the models meet. `TenantOps` and `WatchDaemon` meet at the saves: the steps `working` of the scheduler's
suspend and resume stand for the chains that `TenantOps` spells out. `Holds` has the suspend as three
steps (decided, paused, asleep) of which `TenantOps` has the middle, and the answers of the agent that are
idle or busy in `Scheduler`. `Wakes` yields the times that are ahead or due in `DaemonState`. `Host` has the VM as
a thing among others and no suspend; `TenantOps` has it in full.

Operators whose comment begins with "Slip" are not part of a model: each is the
definition it precedes with a plausible mistake in it, kept to show that a property
notices.

## 4. The runs

| run | module, cfg | states | question |
|---|---|---|---|
| `registry_store` | `MCRegistryStore` | 65,741 | three savers in own processes, two deaths, failing file operations: exclusion, who leaves a lock behind, stale locks reclaimed (liveness), a file that parses |
| `daemon_faults` | `MCWatchDaemon_faults` | 1,850,000 | one tenant; load, check, suspend, resume failing; one restart; stale reads; late wake times |
| `daemon_commands` | `MCWatchDaemon_commands` | 314,000 | one tenant while other processes spawn, suspend, resume and evict it |
| `daemon_wake` | `MCWatchDaemon_wake` | 36,814 | is a sleeping tenant always woken: liveness and its state invariants, two overlapping polls, failing suspends, one restart |
| `tenant_ops` | `MCTenantOps` | 32,854 | one command at a time, with operations of the host and saves failing at any step but one (section 5): memory, VMs and entry agree, and all of it is a `Lifecycle` |
| `tenant_resumable` | `MCTenantOps_resumable` | 5,738 | removals of directories and `pkill` fail, saves do not, no molt: can every suspended tenant be resumed? |
| `tenant_molt` | `MCTenantOps_molt` | violation | does molt of a suspended tenant leave it resumable? |
| `host` | `MCHost` | 1,089,067 | two tenants, one operation at a time, one failure, kill or restart of the host: what is left, what is touched |
| `host_race` | `MCHost_race` | violation | do two spawns at the same time take different addresses? |
| `host_reboot` | `MCHost_reboot` | violation | do the isolation rules come back with the TAP device? |
| `holds` | `MCHolds` | 299,155 | users against two overlapping idle polls and the health loop, with lost, late and reordered requests; two liveness questions |
| `wakes` | `MCWakes` | 860,748 | the times of a job and a heartbeat through suspend, wake and poke |

Properties, besides one type invariant per model:

- `LockMatchesHolderWhileAllAlive`, `ReturnedTaskOwnsNoLock`, `RegistryWholeIfSeparate`,
  `StaleLockReclaimed` (liveness).
- `OneOperationAtATime`: suspend and resume of a tenant exclude each other, and the
  in-flight set says exactly which tenants are busy. `MarkIsTemporary`: the in-memory
  status that `triggerSuspend` sets ahead of the operation does not outlive it.
  `SentinelsListen`: the map does not promise a socket that is not there. `RepairBudget`.
  `OnlyResumeActivates` (action property). `WakeOnRequest`, `WakeServed`, `OperationsEnd` (liveness), and
  the states they rest on: a tenant that sleeps (`Sleeps`: suspended, not in flight, start-up done) has a sentinel that
  still answers (`SentinelsKept`) and, with a wake time, a timer (`TimersKept`), and no continuation of a
  suspend throws and leaves its tenant in flight for good (`NobodyStranded`).
- `MemoryKept` (action property): no step of a suspend or resume, failed ones included, loses
  the memory the tenant last ran with. `RunningIsCurrent`: no guest goes on from an older
  snapshot. `OneRunning`, `RepairedIsAlone`, `RecordedVmIsTheVm`. `SuspendedIsResumable`: between commands a suspended tenant
  has a snapshot of its last state.
  `ImplementsLifecycle`: refinement; in particular no VM runs on after an evict began
  to report the tenant as removed.
- `RegistryDistinct`, `AddressesDistinct`: names and addresses are a tenant's own, in the file and on
  the host. `OnlyDebrisLeft`: after rollback or evict there is only what a failed command left, in the
  stage that broke or in a removal. `TapHasRules`: the check looks at the device alone, which stands
  for rules that are there exactly once. `OthersUntouched` (action property).
- `HoldCovers`: a working command's hold outlasts one lost renewal. `BusyIsKept` (action property): a user who
  is there at the pause has come since the agent counted its kind for the poll that started the suspend, or is a job of a gateway that did not
  answer. `DesertedSleeps`, `GatewayReturns` (liveness): a deserted tenant sleeps unless its gateway is deaf or the watchdog finds
  it unhealthy; an exited gateway comes back unless the tenant is FAILED.
- `TimerAhead`: the timer of a suspended tenant is the wake-ahead before the first of all that it has to do, if `setTimeout`
  reaches that far.
  `WokenJobRuns` (action property): it is not suspended again before the job it woke for.
  `NextBeatIsNext`: the agent answers with the first beat that is not past by its own clock, whatever beats were slept through.

Each property has a mutant of a mapped definition in `PROJECT.json` under which TLC finds it
violated.

Further configurations show known behaviours of the code and are run by hand; TLC finds each violated:

| cfg | module | question |
|---|---|---|
| `MCRegistryStore_crash` | `MCRegistryStore` | is the lock of every crashed holder reclaimed? (an empty lock file is not) |
| `MCRegistryStore_thrown` | `MCRegistryStore` | is a lock left behind by crashes alone? (a write of the process id that throws leaves one, with every process alive) |
| `MCWatchDaemon_late` | `MCWatchDaemon` | does a wake time that passes during the suspend wake the tenant? |
| `MCWatchDaemon_deaf` | `MCWatchDaemon` | does wake-on-request survive a manual resume? |
| `MCWatchDaemon_repair` | `MCWatchDaemon` | is a tenant under repair left alone by the idle poll? |
| `MCWatchDaemon_two` | `MCWatchDaemon` | do two tenants suspended together both stay suspended? |
| `MCWatchDaemon_unread` | `MCWatchDaemon` | is a suspended tenant left suspended when the file cannot be read before a repair? |
| `MCTenantOps_race` | `MCTenantOps` | do two resumes of one tenant leave one VM? |
| `MCTenantOps_midway` | `MCTenantOps` | is there one VM if a resume may end between the load and the removal of the snapshot? |
| `MCTenantOps_rm` | `MCTenantOps` | ... if a removal of the snapshot and the save after it may fail? |
| `MCTenantOps_orphan` | `MCTenantOps` | is a repaired VM alone if an earlier repair failed late and `pkill` may fail? |
| `MCHolds_overlap` | `MCHolds` | is no answer that counts a user on its way when the VM is paused? (with one poll there is none) |
| `MCWakes_far` | `MCWakes` | does a tenant sleep until its wake time? (a delay beyond `setTimeout` wakes it at once) |

Deadlock is not checked: a finished set of savers, a daemon whose only tenant was evicted, a
tenant that is gone and a guest that is lost for good have nothing left to do.

## 5. Bounds

- `registry_store`: three tasks are the least in which two waiters judge the same stale
  lock while a third holds a new one; `MaxDeaths` = 2 lets a holder and a waiter die.
- `daemon_*`: `MaxRepairAttempts` 1 or 2 (the code's value is a setting), `MaxRestarts` at most 1, one or two
  overlapping polls. The passing runs have one tenant: what operations on one tenant do to it
  meets there in full. What tenants do to each other through the one registry is the
  subject of `MCWatchDaemon_two`, which fails; the theorems of section 7 cover any number of tenants where
  they do not say otherwise. `MarkIsTemporary` is checked where checks do not fail, and `OnlyResumeActivates` where the file can be read
  before a repair: section 7 says what happens without.
- `tenant_*`: three process ids (the recorded one, an orphan and a new one; an id is used
  again when nothing refers to it), two values of memory (the last one and an older one).
  `tenant_ops` has one command at a time, any number of them one after the other, because with two
  the property fails as `MCTenantOps_race` shows, and contained faults, because otherwise a suspended tenant's VM runs and is started again:
  `MCTenantOps_midway`, `MCTenantOps_rm`, and with a molt of a suspended tenant (whose repair kills the VM just resumed) whenever `pkill` fails.
  `tenant_resumable` leaves out what violates its invariant: molt (`tenant_molt`), and
  saves that fail, since `runResume` removes the snapshot before it saves; and `pkill` fails there without the VMs that a repair or resume
  leaves unrecorded. The theorems have the same conditions (`Contained`, `Orderly`), and what they prove for removals and `pkill` goes for the properties of `tenant_ops` too.
- `host*`: two names, the least for "another tenant"; `MaxIndex` = 2 indices, since an index is not used again and
  a history of two tenants, or of one that was evicted or rolled back and spawned again, needs two; `MaxFaults` = 1, anywhere, so that a run has
  every single failure, also of the rollback of a spawn that cannot go on (no chains, no images), which is no fault;
  `MaxCopies` = 1 ends histories in which spawns pile up copies of a rule that an earlier failure left. One
  operation at a time, because `host_race` shows what two do.
- `holds`: one command (commands meet only in the count of live holds, and the theorems have any number), `Ttl` = 3 and `Keepalive` = 1
  for the code's five and two minutes: the same room for one lost renewal and not for two. The theorem has
  all `Ttl > 2 * Keepalive`. Two polls, the least that overlap; the theorem has any number. `MaxRepairAttempts` = 1: the tenant is FAILED after one repair in vain. Boots, which lose the
  token, are not bounded.
- `wakes`: `WakeAhead` = 3, `Threshold` = 2, `PokeDelay` = 1, `Every` = 6, `JobEvery` = 7 keep the order of the code's
  defaults, threshold and delay below the wake-ahead, and intervals without a common divisor let job and beat meet in every order; `MaxDelay` = 3
  is within reach of some of the delays and not of others;
  `MaxSleep` = 6 ends a sleep that nothing ends. The theorems have any values.

## 6. Assumptions and fairness

- Weak fairness of the steps of one task (`RegistryStore`); of the tick, start-up, each poll,
  each suspend and resume, each timer and the passing of a wake time (`WatchDaemon`). The code justifies
  it: each is a callback whose awaited call has a time limit or whose timer fires.
  Nothing is assumed of other commands, of clients, or of a tenant ever being idle.
- `Holds!FairSpec`: weak fairness of time, of the check of the gateway, of the idle clock, of the end of a snapshot, and, over all polls together, of the
  beginning of a poll and of the arrival of an answer that came in time. Strong fairness of such answers, over all polls together, and of the pause: a poll may time out and a suspend
  may be skipped or fail, each again and again; but what is tried again and again, every `trafficPollMs`, succeeds at some time. A poll of a tenant
  with a deaf gateway is never answered, so nothing is assumed of it.
  Nothing is assumed of users, of jobs, of the gateway staying up or answering, or of the injection after a boot.
- `QuickStart`: start-up is over before the first poll (`trafficPollMs` is 5 s). `FreshReads`: nothing
  changes between the tick's read of the file and its use. `LateWake` = FALSE: a wake time
  does not pass during the suspend. The liveness runs assume the first two and, where
  `MCWatchDaemon_late` is not the point, the third; `daemon_faults` assumes none of them.
- `WakeOnRequest` and `WakeServed` are checked with failing suspends only: after a failed resume the
  timer is gone (a hazard in the list), and a repair that overlaps a resume saves a
  stale `suspended` entry.
- A timer fires any time after it was set in `WatchDaemon`, and exactly when it is due in `Wakes`.
  A removal of a directory may fail in `TenantOps` as in `Host`, within the conditions of section 5.
- Files are changed by lobsterd alone. `rename` is atomic.

## 7. The proofs

All proofs are checked by TLAPS with SMT, Zenon and LS4.

`RegistryStore_proofs`: for any tasks, processes and assignment `Pid`.
`Invariance` proves an inductive invariant: types, that the lock file belongs to a task inside, to one that died or to
one whose write of the process id threw, and that while no process has died a task inside owns the file, so that nobody is beside it,
or beside the file of a task that threw. The theorems `TypeCorrect`, `LockIsALock`, `ReturnReleases` and
`RegistryIsWhole` follow. That no process has died is needed because a stale lock is removed by name, after a
check that may be outdated; `RegistryIsWhole` holds nevertheless if each saver is
a process of its own, since temporary files are named by process.

`WatchDaemon_proofs`: for any finite set of tenants, number of overlapping polls, bounds, faults, restarts and
commands, unless a hypothesis is named. Each invariant below extends the types, and all but the first two rest on the third.

- `OneOperation` proves `OneOperationAtATime` from `OpInv` (types of the in-flight set and the
  program counters, and the property itself, which is inductive given that every `trigger`
  checks the set in the step in which it enters it). `MappedSentinelsListen` proves `SentinelsListen` from
  `SentinelInv`: the entry is made after the socket is there, and `stopSentinel`
  removes the entry before its resume goes on.
- `DaemonTypeCorrect` proves `DaemonTypeOK`. What is not obvious is the list, which each tick rebuilds from
  those that are kept and those that are new, while suspends hold indices into it: an index that is used
  lies in the list, since one that does not makes the continuation throw.
- `IndicesStayRight` says that such an index is still the tenant's own and that no tenant is listed twice (`PlaceInv`). It needs
  `Steady`: there is one tenant, or no command spawns or evicts. Otherwise a tick can splice the list between two awaits of a
  suspend, and the suspend then writes into another tenant's entry. For the second half, every registry that is read or will be saved has the
  tenants of the list (`Fixed`).
- `RepairsWithinBudget` proves `RepairBudget` under `Steady`. `Counted` ties the repairs in a row to the state
  machine's `repairAttempts`; `Judged` says that the health state a tick took before the checks is still the tenant's after
  them, and is what could fail: a poll, a restart or a tick would have to change it meanwhile. Without `Steady` TLC finds no
  violation to the depth it reaches, but a stale index can rename the entry that is under repair.
- `MarksAreTemporary` proves `MarkIsTemporary` under `Steady` and `Reliable` (health checks do not fail). `Marked` says which suspend
  has put each mark and not taken it back, `Registers` that no registry anybody read or may save has a mark without
  `suspendInfo`. Both hypotheses are needed, TLC finds the property violated without either: the repair after a
  failed check saves the list with its marks, and with two tenants an evict moves the index with which a suspend takes its mark back.
- `OnlyOwnResumeActivates` proves `OnlyResumeActivates` under `Alone`: one tenant, at most two polls at a time, no suspend and
  resume command beside the daemon, and the file can be read before a repair. `ActInv` follows a repair
  that saves a list: while one is under way and the file says suspended, the list does not say active (`SavesMasked`), because a suspend marks the
  entry before it saves (`Masked`), and nothing is under way that would say so afterwards: a poll that was left asking
  (`AsksOne`, at most one, since the other's answer began the suspend) finds no idle clock when it is answered (`Calm`). That is what
  `idleSince.delete` at the end of a suspend is for. Each part of `Alone` is needed: `MCWatchDaemon_two` and `MCWatchDaemon_unread` show two tenants and an
  unread file, a resume by hand activates by definition, and three polls violate the property (section 8).
- `SleepersHeard` (`SentinelsKept`), `SleepersTimed` (`TimersKept`) and `SuspendsReturn` (`NobodyStranded`) hold under `Undisturbed`: one tenant that
  no command suspends, resumes or evicts, at most two polls at a time, `QuickStart`, `FreshReads`, no `LateWake`, and checks and resumes that do
  not fail. Suspends, loads of the file and repairs fail and the watchdog restarts as often as they like, and the tenant may be spawned while the watchdog runs. The
  invariant `SleepInv` says for each step of a suspend and a resume what the file and the one entry of the list hold, whether there
  is a sentinel, a map entry and a timer (`Placed`), that polls never find a sentinel missing (`PollsCalm`), and of the poll
  that was left asking what `OnlyOwnResumeActivates` says (`LastAsks`). So `triggerSuspend` always finds the map without an entry and the port free.
  The hypotheses are sharp. TLC finds the first two theorems' invariants violated without any single part of `Undisturbed`: a start-up that
  overlaps a poll, an outdated read of the file (the entry is active in the list, so the poll suspends what is suspended, and
  the failure leaves it so), a late wake time, a failed resume (timer and sentinel are gone), a
  failing check (for the sentinel), commands of others, two tenants (a save loses the other's change), three polls. `NobodyStranded` survives late wake times and three polls
  in TLC's runs; without `QuickStart` or `FreshReads`, with failing resumes or with resumes by hand it is violated too. What the code has for the bounds on time: `getActiveConnections` gives up after 3 s
  (`system/vsock.ts:196`) and `trafficPollMs` is 5 s by default, so that a third poll overlaps two others only with an interval
  below 1.5 s; the schema allows 1 s.

`TenantOps_proofs`: for any set of commands, processes and memory contents.
`TenantTypeCorrect` proves `TenantTypeOK` for any number of commands at a time, whatever fails. The other
theorems hold for commands that follow each other (`Serial`: `Ops` has at most one member) and faults that are `Contained`:

- no resume ends between the load of the snapshot and its removal ("midway" is not in `MayFail`);
- where removals of directories or `pkill` may fail, saves do not and there is no molt;
- where `pkill` may fail, no repair or resume ends with a VM that no entry names ("late").

These are the limits of the code rather than of the proofs: `MCTenantOps_race`, `MCTenantOps_midway`, `MCTenantOps_rm`, `MCTenantOps_orphan` and
`tenant_molt` show what happens beyond them.
The theorems are `OneVmRuns` (`OneRunning`), `NoOlderSnapshotRuns` (`RunningIsCurrent`), `RepairIsAlone`
(`RepairedIsAlone`), `HealthCheckIsSound` (`RecordedVmIsTheVm`) and `MemoryIsKept`
(`MemoryKept`). They rest on three invariants, inductive together, proved one command at a time:

- `VmInv` follows the running VM. None of its parts is inductive alone. While the entry is active the
  VM that runs, if any, is the one behind the socket, so a pause stops it, although
  after a repair that failed late the entry names another process. A tenant that is
  suspended and still has a snapshot has no running VM, so a resume that finds one to
  load starts the only VM. Each `...Knows` says what a command relies on between its steps.
- `MemoryInv` follows the memory on top of that. The guest behind the socket of an active tenant is
  the tenant, even if a failed suspend left it paused; the snapshot of a suspended
  tenant is its last state; a live recorded process is the one behind the socket.
- `OrphanInv`: where `pkill` may fail, every process that lives is the one the entry names or one the command under way has started, so
  that a repair's SIGKILL of the recorded process is enough.

The order "remove the snapshot, then save" in `runResume` is what both rest on: with the
two swapped (the slip `DropsLater`) a failed save leaves a suspended tenant with a
running VM and a snapshot to resume from, and the proof fails at that step. Its price is the other failure: that
save fails, and the tenant is suspended without a snapshot. `SuspendedCanResume` (`SuspendedIsResumable`) is therefore proved under `Orderly`: `Contained`, no molt, no failing save. `ResumableInv` follows the snapshot from the copy that `runSuspend` makes to the save of the resume
that removed it; copies that fail half-way, pauses, snapshots, loads, starts of VMs, removals, `pkill` and VMs that die at any time are all in it.

`Lifecycle_proofs`: `CommandsImplementLifecycle` shows `ImplementsLifecycle` under `Contained`. Each step of `TenantOps` maps to
one step of `Lifecycle` or to a stutter; that at most one thing changes in the abstract at a time follows from the invariants
above and from `ReadsWereThere` (what a command read was an entry that existed).

`Host_proofs`: for any tenants, operations at a time, kinds and faults. `SubnetsDistinct` is arithmetic: the four octets
determine the number, and the default base plus four times an index below 2^22 has no carry into the first one.
`RegistryStaysDistinct` says that the registry is sound *whatever* overlaps: it rests on `Sound` (indices of the file are
below `next`, names and indices are distinct), which every registry an operation read has too, and the tenant
a spawn adds has the `next` of what it read and a name that is not in it. The race of two spawns is
therefore not in the file, where the later save drops the earlier tenant, but on the host (`host_race`).
`OthersAreLeftAlone` is about the host, needs one operation at a time (`OneAtATime`) for that reason, and
rests on `WorkInv`: an operation's tenant has an index nobody else has, and the programs of all operations but init and uninit
consist of commands that change one thing with the key of that tenant (`GentlePrograms`).

`HostCleanup_proofs`: the same generality and `OneAtATime`, over whole lives of tenants: any spawns, evicts, repairs, failures, kills,
restarts of the host, init and uninit, one after the other. `NothingElseIsLeft` (`OnlyDebrisLeft`), `DeviceStandsForRules` (`TapHasRules`) and
`AddressesStayDistinct` (`AddressesDistinct`, for indices within `Indices`, whose addresses differ by `SubnetsDistinct`) follow from `CleanInv`:

- `Claimed`: whatever is there belongs to a registered tenant, to the one under work, or is debris. `AtMostOnce`: what is there twice is debris.
- `Progress` says where an operation stands in its program. Of a spawn, the stages before the present one are there, those
  after it are not, and the present one is as far as its step; of a rollback, the stages undone are gone. An evict has taken what precedes its step.
  Without it `Claimed` is not inductive: that a rollback or an evict ends with nothing left needs each of its steps to have
  removed what the spawn made, the number of copies included.
- `Untended`: a tenant nobody works on has the device and all its rules or neither, unless it is `torn` (its repair broke or its
  evict died half-way). `NoLockdown`: an operation that read that there is no lockdown leaves none of its rules behind.

The programs are data, so most of the proof is a table: for each stage which things it makes, that its undo
takes the same ones, and that no two stages share one.

`Holds_proofs`: for any number of commands and all times with `Ttl > 2 * Keepalive`. `HoldsCover` needs that a hold
`Reaches` far enough: counting the renewal that is under way, it has at least `Ttl` less one `Keepalive`, less another one if a renewal failed,
plus the time to the next renewal; and `CallsInOrder`: no release of a command that still works is on its way, so that late
requests can only prolong a hold. `UsersAreKept` follows each of any number of polls
(`CountInv`): when its answer is quiet, all that is busy is in its `since`, and it stays so while the suspend it starts is in flight.

`Wakes_proofs`: for any times. `TimerIsAhead` rests on `TimerInv`, which compares `plan`, what the test saw, with the
schedules as they come closer during the snapshot: while the first is still more than `WakeAhead` away,
filtering a second time removes nothing from it. It holds for any `MaxDelay`, with what `SetTimeout` makes of the delay. `WokenJobAlwaysRuns` rests on `OwedInv`: while the job is owed, a deferred run is
pending that comes before the grace and the threshold have passed. It needs `Threshold > 0`: with 0 the tenant
may be suspended in the very tick in which the deferred run is due. `NextBeatIsRight` (`NextBeatIsNext`) is the agent's arithmetic for
every interval: rounding up gives the first multiple that is not below (`CeilIsNext`). `WakesTypes` (`WakesTypeOK`) bounds how far
each time is past or ahead (`RangeInv`); the deferred run is bounded because the job it is counted from is never further ahead than its interval.

Only model-checked are the liveness properties (`StaleLockReclaimed`, `WakeOnRequest`, `WakeServed`, `OperationsEnd`, `DesertedSleeps`, `GatewayReturns`):
liveness and `ENABLED` are out of this prover's reach. Every invariant and action property of a passing run is
stated by a theorem, under the hypotheses named above.

## 8. What the checks found

Runs that fail, with the document they disagree with in `PROJECT.json`:

1. `tenant_molt`: molt of a suspended tenant kills the VM it has just resumed, boots it
   afresh and records it as suspended without a snapshot (`commands/molt.ts:90`).
2. `host_race`: two spawns at the same time give two tenants one subnet, port and uid, and the later save
   drops the earlier tenant (`commands/spawn.ts:99`).
3. `host_reboot`: after a restart of the host the repair of the TAP device fails half-way on the chains that only
   `init` makes, and is not called again, because the device is there (`repair/network.ts:19`).

Further configurations of section 4:

4. A wake time that passes during the suspend sets no timer (`watchdog/scheduler.ts:129-133`), although a comment says that it was
   tested before (`commands/suspend.ts:221`).
5. An empty lock file, of a process that died between creating it and writing its id, is never taken for stale (`config/loader.ts:50`). A write
   of the id that throws leaves one too, with its process alive: it is outside the `try` whose `finally` removes the file (`config/loader.ts:36-39`).
6. A sentinel left from before a manual resume is used up by a request during the
   next suspend, and is not replaced (`watchdog/scheduler.ts:109`).
7. The poll's look at the health state is outdated when it suspends (`watchdog/scheduler.ts:289-322`).
8. Saves of a registry read minutes before lose other tenants' changes (`commands/suspend.ts:286`).
9. Two resumes of one tenant leave two VMs on one overlay (`commands/resume.ts:59`).
10. A tick copies a read of the file that is older than a suspend over the list, which calls the tenant active again. The second look at the file,
   before the repair, catches that; but when the file cannot be read just then, the repair goes ahead and saves the suspended tenant as active
   (`watchdog/loop.ts:152`).
11. A resume that ends after its VM runs and before the snapshot is removed leaves the tenant suspended, with a VM and a snapshot: the
   next resume starts a second VM on the overlay. It takes a command killed between the two, an answer to `loadSnapshot` that is lost (`commands/resume.ts:133-155`),
   or a removal that fails unnoticed before a save that fails.
12. A repair boots beside an orphan of an earlier one when its `pkill` fails, whose result nobody looks at (`repair/vm.ts:33`), although the comment above it gives
   the orphan as the reason for the call. (The pattern begins with `--`, which an option parser may take for an option; the model has only that the call may fail.)
13. Polls overlap: a poll that counted nobody may be answered late and start a suspend after a later poll has found a user, whose answer then only deletes
   `idleSince` (`watchdog/scheduler.ts:300-333`). `BusyIsKept` holds of the poll that suspends, not of the last one.
14. A wake time more than 24.8 days ahead, of a monthly job for instance, is beyond `setTimeout`: the timer fires at once, the tenant is resumed, found idle,
   and suspended again, and so on (`watchdog/scheduler.ts:136`).

Met while modelling, without a run of their own:

- A poll does not wait for the last one. With three that have asked the agent at the same time, the answer to the first suspends the
  tenant, the second restarts the idle clock, and the third, if that runs out before it is answered, suspends the tenant again; this fails, sets
  the status in memory back to active, and a repair that is still under way saves it so
  (`watchdog/scheduler.ts:239-251`). With two it cannot happen (`OnlyOwnResumeActivates`).
- A suspend keeps the index of its tenant across its awaits; a tick that removes an evicted tenant meanwhile moves the list, and the suspend
  writes its result, or takes its mark back, in another tenant's entry (`watchdog/scheduler.ts:223-251`).
- `README.md:242-245` says that a hold prevents a suspend in the middle of an operation. A hold placed after the poll has counted and before
  the pause is not seen; `BusyIsKept` says exactly that much.
- `README.md:247-250` speaks of inbound and outbound connections; the agent counts established ones to the gateway's port
  alone.
- `README.md:261` gives 30 s as the default of `cronWakeAheadMs`; the code has 15 s.
- After a repair's boot, a failed injection of the secrets is ignored (`repair/vm.ts:132`); the agent then has no
  token and does not launch the gateway, at any later repair either. `GatewayReturns` therefore excepts it.
- When the last heartbeat is a whole number of intervals ago, the agent answers with a beat that is
  now (`guest/lobster-agent.mjs:611`), which the host drops as not ahead.
- A molt of a suspended tenant whose `pkill` fails runs two VMs: the one its hold has just resumed is not the one recorded in the entry it repairs.
- A gateway that lives and does not answer keeps its tenant awake: the agent waits 10 s for it, the host 3 s for the agent
  (`guest/lobster-agent.mjs:456`, `system/vsock.ts:196`). Its check finds it healthy, since it asks for the process alone (`checks/network.ts:50`).
- The host waits 5 s for the schedules, the agent up to 10 s for its gateway: with a slow gateway a
  suspend goes on without schedules.
- A resume by hand leaves no trace of a wake, and a suspend by hand sets no wake timer in a
  watchdog that runs (`watchdog/scheduler.ts:269`).

## 9. Not modelled

- Stopping the watchdog in an orderly way (it clears timers and ends), the dashboard, wording.
- `saveConfig` (one file, no lock, no concurrent writer in the program).
- The REST server's tokens and schemas. It runs the commands; several commands in one process are covered by `Pid`.
- Downloads and installed binaries of init are one thing, the images.
- tank, snap, the UI, the web site and the scripts that build images: they read and display, or run before anything else.
- Of the agent, the requests for logs, statistics and the SSH key: nothing else depends on them.
- Firecracker, jailer, iptables, Caddy and ssh inside: each call is a step that succeeds, fails, or fails after its effect
  (in `TenantOps`, a command that ends early at the step that follows). The calls that
  configure a VM before it starts are one use of it.
- Names are not spelled out, so that `pkill -f` matching a longer name is only a listed hazard; that `pkill` fails is modelled.
- Two tenants in a passing run of the daemon: see section 5.
- In `Holds`, resumes and the repairs of anything but VM and gateway do not fail; the cooldown between repairs has no length.
- Liveness after a failed resume, and the wake timer of a tenant suspended by hand: they do not hold.

## 10. The plan

Done, in this order: `RegistryStore`; `WatchState`, `DaemonState`, `WatchLoop`, `Scheduler`, `WatchDaemon`;
`TenantOps`; `Lifecycle` and its refinement; `HostCommands`, `Subnets`, `Host`; `Holds`; `Wakes`; the proofs of section 7,
which state every invariant and action property of the passing runs.

Next, most important first:

1. What `SentinelsKept` and `OnlyResumeActivates` become for two tenants whose commands do not overlap.
2. Wake-on-request after a failed resume: the poll restores the sentinel, which is liveness and needs a longer list of what may fail.
3. `Holds` and `Wakes` in one model, for the poll that reads a schedule while a command places its hold.
4. `Host` with two operations of different tenants that do not both allocate.
