# Formal models of the enablement platform

TLA+ models of the concurrent core of the Dynatrace enablement framework's
operations server: the queues, locks, slots, container watching and session
teardown that a fleet of workers runs on, and the control plane above them:
paced provisioning, live workshops, and the machines that are bought and given
back for them. TLC checks the models on small
instances; TLAPS proves the safety properties for every instance. Every
definition is translated from the code under `src/`; `PROJECT.json` names the
lines each one stands for.

Contents: [the system](#the-system) · [inventory](#inventory) ·
[modules](#modules) · [runs](#runs) · [bounds](#bounds) ·
[fairness](#fairness) · [proofs](#proofs) · [disagreements](#disagreements) ·
[not modelled](#not-modelled) · [plan](#plan) · [running it](#running-it)

## The system

A master host runs Redis, the dashboard (FastAPI, `dashboard/app.py`), the
webhook receiver, the nightly scheduler and a worker manager
(`workers/manager.py`). Remote hosts run a worker agent each
(`worker-agent/agent.py`). All talk through Redis and nothing else:

```
 webhook, nightly ──RPUSH──► queue:test:{arch} ──BLPOP──► worker agents, master
 dashboard ─ provision ─► job:running:{id} (HSET), queue:… (RPUSH, paced)
 dashboard ─ terminate ─► terminating=1 (HSET), then PUBLISH ops:terminate
 pacer, in the dashboard: queue:pending:{queue} ──LMOVE──► queue
 control loop, in it:  live:session:{ws} ─► workshop:fleet:{ws}, EC2, worker:{id}
 agents, master ─► running:lock:{repo}:{branch}:{arch}  (SET NX EX)
                   deferred:{repo}:{branch}:{arch}      (RPUSH / LPOP)
                   jobs:completed, job:final:{id}
                   worker:{id}                          (heartbeat, TTL)
```

An agent is one asyncio process. A job that it pops becomes a coroutine that
passes three gates in order: the agent's semaphore, the weighted scheduler
(budget and heavy lane), and the pool of pre-warmed Sysbox containers. A test
runs and returns; a daemon (a learner's environment) runs until its container is
gone, which a reaper notices by polling Docker. The `finally` of the coroutine
gives everything back, writes the history and deletes the running record.
Beside the job coroutines run a listener for `ops:terminate`, a reconciler that
rescans `job:running:*` every 15 s, a heartbeat and the reaper. The master runs
the same job protocol, a reconciler of its own (which also reaps the records of
workers that are no longer registered) and an expiry reaper.

The dashboard is one asyncio process too. A learner's request for an environment
passes a guard (one live session per user and training), writes the record, and
is paced: a token bucket per queue admits it or parks it in a pending list that
the pacer drains. A trainer's workshop has a state, a roster, those who joined
and the tenant each is bound to; *provision all* pushes environments to the
learners of the trainer's own tenant and sets a flag that makes the others' apps
pull theirs. The control loop buys machines ahead of a workshop, tags them, binds
the workshop to a pool of its own, and after the end stops its sessions, waits for
its hosts and terminates them; at the end of each pass it brakes hot shared
workers and buys one more when seats are short. The fleet's owner cordons, reaps
and launches by hand beside it.

What makes it hard:

- *Interleaving.* Every `await` gives up the event loop and every Redis command
  of one process interleaves with all others; no transaction or script is used.
- *Five deleters.* `job:running:{id}` is written by the dashboard, the agent and
  the master and deleted by five parties: the `finally` of the coroutine (the
  agent's or the master's), the reconcilers of both, and the dashboard when a
  workshop ends.
- *Stable names.* A slot's container has the same name before and after it is
  rebuilt, so a name outlives the session it was recorded for.
- *Failure.* Containers die, docker commands fail, pub/sub messages are lost,
  processes restart, locks and registrations expire.

## Inventory

State, operations and correctness of each part. The status is that of this
directory; `PROJECT.json` lists every part with its sources.

| Part | State it keeps | Operations | Correct means | Status |
|---|---|---|---|---|
| Weighted scheduler (`scheduler.py`) | two counters behind a Condition | `acquire`, `release` | counters exact, lane and budget hold, nobody sleeps on room | modelled |
| Container reaper (`reaper.py`) | `_watched` futures, `_terminating`, `_attempts` | `watch`, `request_terminate`, `forget`, `tick`, `stop` | truthful, once, always; only targeted sessions are killed | modelled |
| Slot pool (`agent.py`, `SysboxPool`) | asyncio queue of slots, readiness counters and events | `init`, `acquire`, `release` | a slot is in one place; it is lost only to failed rebuilds; warm-up ends and reports | modelled but for `shutdown` |
| Test lock and deferred lists (`agent.py`, `manager.py`) | lock, queue, deferred lists, running record, history | pop, lock, defer, run, report, drain, recover | one run per branch; each test in one place; locks go | modelled |
| Session teardown (`app.py`, `agent.py`, `manager.py`) | hash with owner, flag and container name; `_terminated_jobs`, `_job_slots` | provision, terminate, expire, sweep, reap, kill, finish | no session vanishes; kills hit their own; termination converges | modelled |
| Agent life cycle | registration, draining, borrow cap | register, heartbeat, cordon, shutdown | no job popped while cordoned; shutdown frees all | partly |
| Job executor (`executor.py`) | none beyond the job | clone, set up, watch, replay | the outcome reflects the set-up | partly |
| Worker manager (`manager.py`) | semaphores, `active_jobs` | five consumers, reconciler, expiry, training, sync | permits respected; expired daemons end | partly |
| Pacer (`dashboard/pools.py`) | token buckets in memory, pending lists in Redis | `enqueue_paced`, `drain_pending`, `pacer_loop`, bind | arrival order, rate, everyone parked is admitted | modelled |
| Dashboard API (`dashboard/app.py`) | records in Redis | provision, terminate, `api_live_*`, `api_fleet_*`, … | one live session per user and training | partly |
| Workshop fleet (`workshop_fleet.py`, `fleet.py`) | fleet record per workshop, tagged EC2 instances | prewarm, teardown, orphans | no orphaned machine, none taken from a workshop that is on, all come back | modelled |
| Self-service fleet (`workshop_fleet.py`, `fleet_policy.py`) | pressure counts, flags in `worker:{id}`, launches noted | daily pass, apply, scale-down, reap | a cordon bites, a brake comes off | partly |
| Live sessions (`live_sessions.py`) | session hash, roster, joined, bindings, settled | create to delete, join, bind, provision all | who is asked for is served, an end stops what was built | partly |
| Codespaces, content, sign-on, telemetry, tools, synchronizer, shell framework | see `PROJECT.json` | | | not modelled |

## Modules

| Module | Stands for | Lines of code |
|---|---|---|
| `WeightedScheduler` | `worker-agent/scheduler.py` | whole file |
| `ContainerReaper` | `worker-agent/reaper.py` and the coroutine around it | whole file; `executor.py` 886-900, `agent.py` 1416-1422 |
| `ContainerWatch` | what the reaper promises a waiter (abstract) | |
| `SysboxPool` | `agent.py`, class `SysboxPool` | 213-546 |
| `BranchLock` | the test protocol | `agent.py` 1230-1458, `manager.py` 721-1015 |
| `TestLedger` | what becomes of a test (abstract) | |
| `SessionTeardown` | a session's end | `agent.py` 636-869 and 1142-1458, `manager.py` 533-688, `app.py` 4728-4913 and 5774-5804, `workshop_fleet.py` 1104-1195, `executor.py` 674-960 |
| `RequestLife` | what becomes of a request (abstract) | |
| `Provisioning` | requests, pacer, buckets, sweep of queues | `pools.py` 75-458, `app.py` 4654-4905, `workshop_fleet.py` 1086-1195 |
| `LiveSession` | a workshop's calls and its learners' apps | `app.py` 5922-7262, `live_sessions.py` 266-868 |
| `ControlPlane` | the two, side by side | |
| `WorkshopFleet` | the control loop on workshops' machines | `workshop_fleet.py` 205-540, 680-1195, 1268-1465, `fleet.py` 536-672 |
| `DailyFleet` | the control loop and the owner on shared machines | `workshop_fleet.py` 550-675, 1198-1265, 1467-1533, `fleet_policy.py` 405-653, `app.py` 9187-9545, `agent.py` 871-1228 |
| `Fleets` | the two, side by side | |

`MC*` modules and `.cfg` files instantiate them; `*Proofs` modules hold the
theorems.

### WeightedScheduler

`job[j]` is where the coroutine of `j` is in `acquire`/`release`;
`inFlightCost` and `heavyInFlight` are the two counters. asyncio runs one
coroutine at a time and both methods hold the Condition's lock, so an action is
the code between taking the lock and giving it up: `Admit` (predicate true),
`Wait` (predicate false, asleep), `Release` (counters, `notify_all`). Cost and
lane are computed from a job's descriptor exactly as `cost_of` and `lane_of` do,
and `Budget`, `MaxHeavy` with the floors of `__init__`.

### ContainerReaper and ContainerWatch

The poller's tick is cut at its awaits: `BeginTick` … `ListRunning` /
`ListRaises` … `ReapGone` … `BeginKill` … `KillReturns` … `EndTick`, with the
listing kept in `running` and the copy of `_terminating` in `todo`, so that
everything else (a container that starts, exits, is watched, targeted or
forgotten) happens between the listing and its use. `ListingFaults` says how
`docker ps` may go wrong: `"raises"` (an exception, which `tick` catches) or
`"fails"` (an error exit with no output, which the code reads as no containers).
`Stop` cancels the loop wherever it is. The abstract `ContainerWatch` has only
the containers, the futures and who was asked to end: a future is resolved once,
`exited` only when the container is gone, `abandoned` only when asked.

### SysboxPool

A slot is in the queue (`queued`, a bag), in a job's hands (`slotOf`) or in the
warm-up (`warm`). `_init_slot` is two steps, the removal of the old container
and the outcome. `pc` names the await of `acquire` or `release` a job is at.
`Die` lets a container die anywhere. With `DockerMayFail` every docker command may
fail: a removal whose failure is swallowed leaves the container up
(`RemoveContainer`), a failed `_init_slot` leaves one or none, a probe that raises
counts as alive and one that exits with an error as dead, as in the code. So a slot
may be lost while its container runs; what `LostOnlyBroken` says is after how many
failures: all waves of the warm-up, all of release's attempts, or the one rebuild
that acquire tries (`fails`, `dropped`).

### BranchLock and TestLedger

One action per Redis command of `_run_job` (and of the master's twin
`_run_with_semaphore`): pop, `SET NX`, defer, record, admit, run, report,
`DEL` record, `DEL` lock, then `LPOP`/`RPUSH` until the list is empty. The
master's `_recover_orphaned_deferred` runs beside the agents. `Crash`,
`RedisFails` and `PushFails` are the failures, each counted against `MaxBreaks`;
`LockExpires` and `RecordExpires` the TTLs. Whether a TTL may end under a job
that still waits for its slot is the constant `LiveLockMayExpire`.
`TestLedger` sees a test as unknown, waiting, running, completed or lost:
at most once running per branch and reported, lost only after a failure.

### SessionTeardown

`owner`, `flag`, `sbName` are the fields of the hash that matter; an `HSET` on a
deleted hash creates one without owner, as Redis does. `task` is the await a
session's coroutine is at; `slotOf` is `_job_slots`, `held` the slot the
coroutine itself has until `pool.release` returns; `runs` is what Docker runs
under a slot's name. A provision is two steps, record and enqueue (`entry`), and may
be cut off or swept in between. Requests go through `ask`: a terminate in the code's
three steps (read, flag, publish), an expiry in two, the end of a workshop in six
(read, flag, publish, take from the queue, look again, delete), of which the flag,
the message and the removal from the queue may fail. `swept` remembers whose record
the last of them deleted. Pool, reaper and scheduler appear as what the modules above
establish of them.

### Provisioning and RequestLife

A request is at one await of the handler (`handler`): guard, record, LLEN, token,
RPUSH to the queue or to the pending list. `ahead` remembers who waited when it
looked. `bucket` is the process memory that a restart loses, together with the
handlers, the pacer's locals and the sweep; the lists and the records stay. The
workshop's binding, which its fleet writes at any time, is either of its values
wherever it is read (`TargetQueues`), and the number of workers any that may be
counted (`WorkersServing`). `Take`, `Refilled` and `Tuned` are the bucket's
arithmetic in whole tokens; `earned` remembers what a queue's workers were worth.
`sweep` walks the lists in the code's order of patterns, reading a list and
removing from it in separate steps; then, record by record, it looks and deletes in
two steps. A command that fails leaves the rest of a list (`SweepSkips`) or a record. `RequestLife` sees a request as out, waiting, taken by a worker or
swept: it waits from the answer on in one place, one worker takes it, and only the
end of its own workshop takes it away before. `PlaceOf` maps the lists, the jobs
and the records onto it.

### LiveSession

A call (`call[c]`) runs from await to await: which of the trainer's or learner's
operations it is, what it read when it began, and what it has still to do.
`app[l]` is the learner's own app, which polls `provisionRequested` and builds.
Calls interleave with each other and with apps, and `LiveRestart` cuts off all that
are under way. An environment has a learner, a tenant, perhaps the workshop's tag,
and lives or was asked to stop. A stop may fail in part or altogether, which the
code swallows (`StopFails`). `wanted` and `leftover` remember whom a provision-all
set out to serve and what was up when the workshop ended.

### ControlPlane

Either component among everything the other may do to it, which each module has
as steps of its own; `subject` says which, so the state space is a sum and the two
share one run.

### WorkshopFleet

`at` is the await the loop is at; what it read of the index, the clock and the
workshop stays in `todo`, `tickNow`, `seats`, `batch`, `poolWorkers`, `found`. A
machine in `ec2` is unborn, tagged with a workshop, or dead, so that a launch whose
record was never saved is still there to be found by its tag. `Plan` holds what a
trainer may book; windows, floors and caps are computed from it as the code does.
`DashboardCrash` and every failing command, read or AWS call are counted by
`MaxFaults`. Which workers report sessions is any answer (`BusyPoolWorkers`): it is
read from heartbeats that lag behind the hosts and may stay wrong.

### DailyFleet

A machine's life is `box`, its record in Redis `hash` with what the heartbeat wrote
(`pub`) and the two flags that others write (`cordon`, `brake`); an `HSET` on a
record that is gone leaves a bare one, as in Redis. The pass decides on what it read
(`PassReads`) and then acts step by step; the owner's calls do the same. The agent
looks at the flags and pops in two steps (`Looks`, `Claims`). `bitten` counts the
jobs a worker took, after a look that Redis answered, since it was cordoned.

### Fleets

Both halves of the loop side by side, like `ControlPlane`. They have no machine in
common, but meet in one record: an owner's apply reclaims the draining workers of any
pool (`app.py` 9426-9438), so it un-cordons machines of a workshop that is being torn
down. `WorkshopFleet` has that as a step of the world (`ApplyUncordons`); `DailyFleet`
plans over shared workers only.

## Runs

Passing runs and their properties (each property has a mutant of the code, named
`<definition>_<bug>` beside the definition, that TLC finds violating it):

| Run | States | Shows |
|---|---|---|
| `scheduler` | 1 343 | `CountersExact`, `NoLostWakeup`; live: `EveryJobAdmitted` |
| `reaper` | 4 645 | `UntargetedSurvive`, `NothingLeftBehind`; refines `ContainerWatch` (`PromiseKept`); live: `WaiterFreed` |
| `pool` | 15 500 | `SlotExclusive`, `LostOnlyBroken`; live: `ConsumersUnblocked`, `AcquireServed` |
| `branch_lock` | 44 223 | `OneRunPerBranch`, `JobInOnePlace`; refines `TestLedger` (`LedgerKept`); live: `LockFreed`, `DeferredWhileHeld` |
| `teardown` | 386 420 | `LiveHasRecord`, `KillIsRemembered`; steps: `NeverVanishes`, `ReconcilerHitsItsOwn`; live: `TerminationConverges` |
| `control_plane` | 560 073 | `NoOvertaking`, `PaceBound`, `SweepIsThorough`; refines `RequestLife` (`LifeKept`); live: `ParkedIsAdmitted`, `AskedIsServed`, `EndStopsTagged` |
| `fleets` | 1 020 721 | `DoneHoldsNothing`, `CordonBites`; steps: `OnlyTheFinishedAreTorn`; live: `MachinesComeBack`, `BrakeComesOff` |

`HeavyLaneBounded`, `OverBudgetRunsAlone`, `PendingIsWatched`, `WarmUpHonest` and
`NoJobLost` are proved and not run: they say less than the properties beside them.

Each also checks `TypeOK`, in which counters of attempts stay within the limits
the code configures. The runs of the workers set `CHECK_DEADLOCK FALSE`: jobs and
sessions are finitely many, and a worker whose jobs are done rests. `control_plane`
does so too, as its requests and calls are finitely many. `fleets` checks for
deadlock: the loop never rests.

Runs that find what a document or comment rules out:

| Run | Property | See |
|---|---|---|
| `reaper_failed_listing` | `ExitedMeansGone` | [1](#disagreements) |
| `branch_lock_expiry` | `OneRunPerBranch` | [2](#disagreements) |
| `branch_lock_stranded` | `DeferredPickedUp` | [3](#disagreements) |
| `teardown_ghost` | `FlaggedRecordGoes` | [4](#disagreements) |
| `teardown_reused` | `KillHitsItsOwn` | [5](#disagreements) |

## Bounds

- `scheduler`: one job of each class (light, medium, heavy, explicitly wide,
  larger than the budget), capacity 3, the heavy lane configured to 0 so that
  the floor matters. Five jobs give every combination of two sleepers of
  different kinds behind a third in flight.
- `reaper`: two containers and the code's three attempts. Containers interact
  only through the shared listing, `todo` and the single poller, for which two
  suffice. `up` is not bounded: a container starts once.
- `pool`: two slots, two jobs, two waves, two rebuild attempts
  (`SLOT_REINIT_ATTEMPTS` is larger; each further attempt repeats the second),
  two deaths, so that a slot can die in the queue and again while rebuilt.
- `branch_lock`: three tests, two of one branch, one of another, two workers
  with two permits, one crash or failed command. Two holders of one lock need
  two tests; a third exercises the lists of another branch. `MaxBreaks` = 1: a
  second failure only meets the state a first left.
- `teardown`: two sessions on one slot (reuse needs exactly that), two permits
  (a pool that lost a slot keeps its permits), one terminate, expiry or sweep, one
  crash, one lapse of the registration. The theorems have none of these bounds.
- `control_plane`, requests: two requests of one caller, one of them enrolled, so
  that they may race for the guard, the token, and two queues; one or two workers at
  each count, so that a retune raises or lowers the rate between two admissions; a
  burst of one and one restart, so that a second admission has to wait, and a bucket
  is lost once. Time is not bounded; the tokens that workers were worth are counted
  up to two (`MaxEarned`), as no queue can get more than its two requests. Overtaking
  needs two requests, the sweep's race one job and the pacer.
- `control_plane`, workshops: one learner, two tenants (the caller's and another),
  two calls at a time (a race of calls needs no more) and two in all beside the
  learner's app, one restart. Learners meet only in the roster's loops, whose order
  `Provide` leaves open.
- `fleets`, workshops: one workshop, two machines in launches of one, so that a
  crash may leave one of two; three bookings (large and on at once, small and later,
  large with its own lead and hold), one change of the booking, three units of time,
  which carry it from before its window to past its end, one failure. Workshops meet
  in the loop alone, which is at one of them at a time; the theorems have any number.
- `fleets`, shared machines: two, one of which never comes up (or is gone and has
  left its record), one seat each, hot or calm, one call of the owner, one failure.
  A cordon, a brake, a heartbeat and a restart all bear on one record; the second
  machine is the one to buy, to cordon and to find stale. `Sustain` is 1 (the code
  has 3): a longer count delays the brake and is lost in the same way. `MaxLent` is
  0: lent seats only add to `FreeSeats`. `PerCall` and `MaxFleet` are the code's and
  do not bind.
- No symmetry is used: the runs check liveness.

## Fairness

`FairSpec` adds weak fairness of steps the event loop or Docker must take:
a runnable coroutine is resumed, a docker command that was started returns, an
asyncio timer fires, a process is restarted by systemd. Strong fairness is used
where a waiter competes in a FIFO queue that serves it in its turn: popping
the job queue and taking a slot from `asyncio.Queue`; and where a loop retries
something that goes wrong only now and then: the reconciler that rescans every
15 s, a `docker ps` that raises, a `docker inspect` that exits with an error for a slot
that runs. In `ControlPlane` one of all that is under way (the pacer, a call) goes on
(`TaskStep`), and time passes (`TimeStep`); in `Fleets` the control loop goes on
(`LoopStep`), and of what is due beside it -- a delete, a late heartbeat, the end of a
deferral, the expiry of a record -- one happens (`DueStep`). Each is weaker than
fairness of the single steps, which asyncio's ready queue and Redis' expiry do give.

Never assumed: that a container exits by itself, that a kill succeeds, that a message
arrives, that the dashboard stays up, that AWS grants a machine, that a learner or a
trainer does anything. So `AskedIsServed`, whose learners are served by their own app where
the call does not reach them, says of whom it speaks: a learner whose app goes on
polling while it has something to do (`KeepsAppOpen`, weak fairness of that one
app's steps) is the property's own precondition, not the specification's.

## Proofs

Theorems over eight modules, checked by TLAPS, for all values of the
constants. Each safety proof has an inductive invariant `IInv` with one step per
action:

- **Scheduler.** `CountersExact` speaks of cardinalities, so cost is expressed
  as a set of units per job and `Admit`/`Release` add and remove disjoint
  finite sets; budget, lane and wake-up follow with it in one invariant
  (`SchedulerInvariant`).
- **Reaper.** The strengthening relates the poller's locals to the books: what
  is in `todo`, being killed or targeted was asked for, and `attempts` belongs
  to watched containers. `ReaperExitedMeansGone` and `ReaperKeepsPromise` need
  in addition that a listing, once taken, contains every watched container that
  was up then, and assume `"fails" \notin ListingFaults`, i.e. that a failing
  `docker ps` raises. Without the assumption the first is false (run
  `reaper_failed_listing`).
- **Pool.** `HandsMatch` (a job has a slot in hand exactly at the awaits that
  hold one) and `ReadyMatch` (warm-up state against queue and hands) make
  `SlotExclusive` and `WarmUpHonest` inductive; for `LostOnlyBroken`, that failures
  are counted (`FailsCount`: a slot that is not up failed in each wave so far, one
  that release rebuilds in each attempt before).
- **Lock.** For `OneRunPerBranch`: a coroutine between `SET` and `DEL` is the
  one the lock names (`LockNamesHolder`); it assumes `NeverExpiresLive`, the
  only case in which it is false. For `JobInOnePlace`: what is in whose hands
  (`PlacesInv`). `LockKeepsLedger` maps every step to a step of `TestLedger` or
  a stutter under the same assumption.
- **Teardown.** `IInv` = `TypeOK`, whose hands a slot is in, that a session is
  queued or has a coroutine but not both, that kills are remembered, and that
  records agree with coroutines while no registration lapsed, except where the end
  of a workshop deleted the record. The action
  properties `NeverVanishes` and `ReconcilerHitsItsOwn` follow from it.
- **Lock, released.** `LockIsHeld`: until something breaks, every lock that is set
  has a coroutine of its branch between `SET NX` and `DEL`. This is what
  `LockFreed` and `DeferredWhileHeld` rest on: with it, fairness of that one
  coroutine is all they need. It needs `JobInOnePlace` (no worker pops a job whose
  coroutine still has the lock) and that a job past its report is in the history.
- **Provisioning.** For `NoOvertaking` (`OrderInv`): the lists are in the order in
  which their members looked, nobody is in two of them, and who found a list empty
  is in it only after all that it was empty of. For `PaceBound` (`PaceInv`): what a
  queue has got, what is granted and on its way, and what its bucket still holds stay
  together below what its workers were worth (`earned`): a burst at each new bucket
  and a token per worker and unit of time; a retune only takes away. For
  `SweepIsThorough`: a job that waits is in one list, once, of the queue it was routed
  to (`PlaceInv`: so that the one `LREM` a sweep does is enough), and a job caught by
  the sweep, and not left behind by a failure, is in no list that the sweep has
  passed, nor in one that the pacer fills from a list not passed yet, and in the list
  it is at only if it has read it there (`SweepInv`). `LifeKept` follows from these,
  with one step of `RequestLife`, or none, for each action.
- **Live sessions.** Type correctness (`LiveTypes`), and the safety kernels of two
  liveness properties. Of `EndStopsTagged`: until a restart or a failed export or stop,
  what was up at the end has a call under way that has yet to come to the stop
  (`StopIsDue`; nothing is built in the place of what was left). Of `AskedIsServed`:
  the request is set before anybody is unsettled, so wherever the call dies the
  learner's app finds it (`RequestFirst`, `AskedIsPending`).
- **Workshop fleet.** `FleetInv` = types, what the loop knows at each step of a
  visit (`PlaceInv`), and what a record says of the machines (`RecordInv`): a fleet
  that is done, or not begun, has no machine that is tagged with it, unless a call
  of its last teardown failed. `OnlyTheFinishedAreTorn` follows from `PlaceInv`.
- **Self-service fleet.** `CordonInv`: a worker that took a job since it was
  cordoned is not waiting after a look, so it has to look again, and sees the
  cordon. Type correctness needs that a worker which waits for a job has a slot for
  it (`BoxTypes`).
- **Compositions.** A step of `ControlPlane` or `Fleets` is a step of one half that
  leaves the other's variables alone, so each behaviour of the composition is one of
  either component (`ControlPlaneOfBoth`, `FleetsOfBoth`). With that the theorems of
  `ProvisioningSpec`, `LiveSpec`, `FleetSpec` and `DailySpec` become theorems of the
  specifications the runs check: `ControlPlaneTypeOK`, `ControlPlaneProvisions`,
  `ControlPlaneServes`, `FleetsTypeOK`, `FleetsKeep`.

So every invariant, action property and refinement that a passing run checks is
also a theorem, under the two assumptions named above (`ListingFaults`,
`NeverExpiresLive`) where they are needed.

Assumptions on constants are named (`ReaperAssumption`, `PoolAssumption`, …),
as weak as types and finiteness, and evaluated by TLC in every passing run.

Checked by TLC only: all liveness properties (TLAPS has no rules for `ENABLED`
and fairness), though for those named above the invariant they rest on is proved;
and everything about particular numbers: the table of costs, and the seats that
`DailyFleet` sums over sets of workers, folds about which nothing can be proved by
induction here. No theorem depends on such a sum: what an apply launches is bounded
by `PerCall` whatever the sums are.

## Disagreements

Shown by a run, with the quotation in `PROJECT.json` under `findings`:

1. **A failed listing reads as an empty host.** `docker_list_running`
   (`reaper.py` 207-214) ignores the exit code, so the guard against failed
   listings (163-167) is not reached.
2. **The lock expires under a waiting job** (`agent.py` 1332-1334): its two
   hours include the wait for budget and slot, and the `DEL` at the end does not
   look whose lock it is.
3. **A deferred test can be stranded** (`agent.py` 1335-1339): `SET NX` and
   `RPUSH` are two commands, and the holder may drain in between.
4. **A terminate can resurrect a record** (`app.py` 5801, also 1839): `HSET`
   after the session's own `DEL` leaves a flagged hash without owner or TTL.
5. **A terminate message can hit a reused slot** (`agent.py` 710-714): the
   listener lacks the reconciler's check of `_job_slots`. The run uses a pool
   with one slot and two permits, which is what a pool that lost a slot has; the
   wait for a slot is then long enough to be hit.

Seen while modelling and not pursued by a run:

- `reaper.py` 189-201 reports `abandoned` after a third kill even if that kill
  worked; `reaper.py` 231 has no timeout, so one hanging docker command stops
  the poller.
- `agent.py` 466 has it that "a flaky docker CLI must not empty the pool", but a
  `docker inspect` that exits with an error prints nothing, which 469 reads as dead;
  the one rebuild may then fail too, and the slot is dropped.
- `ready_count` is never lowered when a slot is dropped later
  (`agent.py` 453-454, 496-501); with no slot left consumers still pop jobs.
- `HSET sb_name` (`agent.py` 1373) is outside the `try`: if it raises, budget,
  slot and lock stay taken.
- `agent.py` 1454 re-queues a deferred job to `queue:test:{arch}` wherever it
  came from (a pool's queue, a direct queue).
- `docs/ops-platform.md` 462 describes the removal of orphaned locks at start;
  `manager.py` 721-751 only drains lists whose lock is gone. A worker's crash
  loses its jobs, where `ops-server/ARCHITECTURE.md` 385 has them re-queued.
- `manager.py` 569 reaps the records of an agent that lives but whose
  registration lapsed; 578 and 642 together never kill an expired daemon that
  the master itself runs.
- `workshop_fleet.py` 1180-1188 looks at a record and deletes it in two commands. A
  worker that claims the job in between loses the record, though the comment there
  has it that only what "no worker has ever touched" goes: the session runs with a
  hash of nothing but `sb_name`, or none, and nobody can find or end it. A session
  recorded but not yet enqueued is swept in the same way and enqueued afterwards.
  `LiveHasRecord` and `NeverVanishes` except the sessions in `swept`.
- A session that is flagged while it waits for a slot is set up before it is
  torn down (`agent.py` 831-838).
- `workshop_fleet.py` 822-827: a failed launch "will retry next tick", but the
  record is saved as `WARMING`, which is not in `PREWARMABLE`; the workshop has no
  machine until somebody intervenes.
- `app.py` 7229: a reprovision passes no workshop to the provision, so what it
  builds carries no tag and the end of the workshop does not find it, although
  6395-6402 says that ending has to stop its environments. `EndStopsTagged` is
  stated of tagged environments for this reason.
- The docstring of `terminate-all` (`app.py` 7041) says that "Ending a workshop
  deliberately does NOT kill environments"; the end handler does.
- `app.py` 6613-6615 has it that opening the workshop from elsewhere re-binds a
  learner "through /join (last write wins)"; both ways in bind the first tenant that
  writes (6277, 6628), and only `/bind` with `rebind` changes it.
- `fleet_policy.py` 648 leaves `grace_s` to the caller, and no caller applies it;
  the reap and the scale-down by hand go by the `active_jobs` last reported, so that
  a machine may die under a session, where `app.py` 9482 has it that "an instance
  may only be terminated once it is empty". A scale-down by hand with one busy
  machine answers 409 and leaves the others cordoned.
- `workshop_fleet.py` 635 compares `DAILY_MAX_WORKERS`, a "hard cost ceiling"
  (`docs/PROVISIONING-AND-LANES.md` 180), with registered workers only: machines that
  boot are bought again at each pass, since the loop neither writes nor reads
  `fleet:inflight`; and the freeze, under which "every scale-up is refused"
  (`app.py` 9563 ff.), stops only an apply.
- A shrink (1487-1500) lowers `capacity`, which the next heartbeat overwrites and
  no daily decision reads; the machine bought in its place stays.
- An `HSET` of a flag on a record that has expired makes a bare one: without TTL or
  heartbeat it is never stale, and counts as a daily worker for good.
- `app.py` 9426 has an apply reclaim every draining worker but the master, those of a
  workshop under teardown too, which may then claim again until they are terminated;
  `plan_scale_down` and `terminatable` (`fleet_policy.py` 606-609, 652-653) look at
  the shared pool only.
- `agent.py` 936 writes `draining` 0 when an agent restarts, which takes back a
  cordon.

## Not modelled

Rendering, authentication, masking, telemetry, the AWS command lines, git and
HTTP calls, the shell framework inside the containers, the synchronizer, the audit
and the load tools: sequential code or pure input and output (see the notes in
`PROJECT.json`). `app_deploy.py` runs one deployment at a time over command lines;
`codespace_service` drives GitHub's own life cycle; the content packs are a cache of
files. Of the master (`manager.py`): its own daemons, training and sync jobs and the
consumers that share a semaphore. Of the agent: SIGTERM's staggered kills, the borrow
cap. Of live sessions: pads, chat, rooms, the pacing of a class, the boards, the
registries of trainers and tenants. Of the fleet: pets that are started and stopped,
launches by hand without a plan, scale-downs that are forced or name a workshop's
machine, prices and regions.

The removal of queued jobs by hand (`app.py` 1879-1923) is left out of all modules.

Within the modelled parts: the text of logs and progress, replay of a learner's
steps, image digests beyond "the reload may fail", the order within the lists of
deferred tests (no property depends on it), TTLs of a day and more in
`SessionTeardown`, the pinned rate of the pacer (`PACE_BATCH`), the machines' own
shutdown timer, `CONTROL_LOOP_APPLY=0`.

## Plan

Done, in order of what matters: `WeightedScheduler`, `ContainerReaper` with
`ContainerWatch`, `SysboxPool`, `BranchLock` with `TestLedger`, `SessionTeardown`,
`Provisioning`, `LiveSession` and `ControlPlane`, `WorkshopFleet`, `DailyFleet` and
`Fleets`. What would come next:

1. `WorkerManager`: the master's own daemons, its reconciler and expiry reaper, and
   consumers that share a semaphore. Hazards: expired daemons, over-popping.
2. `Agent`: scheduler, pool and semaphore composed around one coroutine with
   failures between the gates, and SIGTERM; theorem: reservations match coroutines
   except after the leak named above.
3. `SessionLifecycle`: what a learner is promised of a session, implemented by
   `SessionTeardown` and `Provisioning` together.
4. Capacity divisions (`shared/capacity_units.py`) against a packing definition.
5. Proofs of the invariants that the other liveness properties rest on:
   `TerminationConverges` (a flagged session that runs has somebody who will look
   again), `AcquireServed` and `MachinesComeBack`.

## Running it

```
tlc -workers 2 -config MCBranchLock.cfg MCBranchLock
tlapm BranchLockProofs.tla
```
