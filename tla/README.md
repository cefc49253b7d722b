# TLA+ models of the shuttle job tracker

These modules model the per-job coordination engine of shuttle:
`src/src/master/job_tracker.cc`, the minions that work for it
(`src/src/minion/minion_impl.cc`), and the flags of `src/src/master/master_flags.cc`.
TLC checks them under bounds small enough to be exhaustive.

## The system

A job is one `JobTracker`. After `Start` the tracker owns:

- a map **task pool** (`ResourceManager`) and a reduce pool (`IdManager`);
- the **allocation ledger**: `allocation_table_`, its per-task indices, the time heap,
  the re-issue FIFOs (`map_slug_`, `reduce_slug_`), and the per-task failure counts and
  failed hosts;
- the job state `state_`, the Gru deployers `map_` and `reduce_`, the ignore-failure sets,
  and the monitor thread pool `monitor_`;
- `rpc_client_`, which the tracker uses to query and cancel minions.

Minions run `MinionImpl::Loop`. Each one asks for a task (`AssignMap`/`AssignReduce`),
executes it, and reports the outcome (`FinishMap`/`FinishReduce`), resending the report
until an answer arrives. A minion that crashes reports its breakpoint task Killed when it
restarts.

RPC handlers run concurrently, one thread per request. They take `alloc_mu_` and `mu_` in
separate sections and release both around DFS calls and around `RetractJob`. The straggler
monitor (`KeepMonitoring`) runs on its own thread. It queries old attempts with
`alloc_mu_` released, and kills and re-issues the ones that do not answer.

When the last task completes, or when failures exhaust the retries, the tracker asks the
master to `RetractJob`. The master then calls `Kill`. `Kill` releases the deployers and
deletes the monitor under `mu_`, sets `state_`, and marks every Running record Killed and
deletes `rpc_client_` under `alloc_mu_`. A user `KillJob` takes the same path.

### Inventory

| part | code | model |
|---|---|---|
| task pools | `ResourceManager`/`IdManager` (not in the repository) | `TaskPool`, from spec §4.1 |
| allocation ledger | `allocation_table_`, `map_index_`, `time_heap_`, slugs, `failed_count_`, `failed_nodes_` | `JobTracker`: `table`, `heap`, `slug`, `failedCount`, `failedNodes` |
| AssignMap / AssignReduce | job_tracker.cc 352-478 | `AssignMap`, `AssignReduce` (steps `AssignReadState`, `AssignHandout`, `AssignRecord`) |
| FinishMap / FinishReduce | job_tracker.cc 517-877 | `FinishMap`, `FinishReduce` (steps `FinishLookup` … `FinishRelease`) |
| CancelOtherAttempts | job_tracker.cc 480-515 | `FinishCancel`, `DeliverCancel` |
| Kill / RetractJob | job_tracker.cc 267-302; master_impl.cc (not in the repository) | `KillMu`, `KillAlloc`, `Retract`, `KillJob` |
| KeepMonitoring | job_tracker.cc 1065-1197 | `MonStart`, `MonPop`, `MonQuery`, `Requeue`, `MonEnd`, `MonitorStopping` |
| Update | job_tracker.cc 238-265; master_impl.cc (not in the repository) | `UpdateRequest`, `UpdateRead`, `UpdateCall`; `capacity` |
| end-game counters, dismissal, capacity clamp | job_tracker.cc 76-81, 180-199, 304-350 | `ClampCapacity`, `MapEndGameBegin` …, `CanDismiss` |
| minion loop, restart, CancelTask | minion_impl.cc 150-348 | `SendAssign`, `Exec`, `ResendFinish`, `Crash`, `Restart`, `DeliverCancel` |
| Query, WatchDogTask | minion_impl.cc 75-148 | `QueryAnswer`, `Stalled` (used by `MonQuery`) |
| Load / Replay / Dump, master backup | job_tracker.cc 923-1045; master_impl.cc (not in the repository) | `Backup`, `Replay`, `ReplayRecord`, `LoadLedger`, `MasterRestart` |
| counters | job_tracker.cc 1199-1212 | `CounterAggregator` (composed into `OnCompleted`) |
| the job contract | spec §2, §3 | `AbstractJob`, refined by `JobTracker` |
| statistics, job id, output paths | job_tracker.cc | not modelled (formatting) |
| Gru, DFS, Store, RPC framework | other directories | nondeterministic outcomes only |

## Modules

- `TaskPool.tla` is the pool contract. Its operators are functions from pool to pool.
  Each call is atomic, because the managers hold their own mutex.
- `JobTracker.tla` models one job, its minions and the monitor.
  - **Handlers.** Every RPC handler is a record in a slot of `hs` (two slots per minion, so
    a resent report can run beside the original). Its `pc` names the next critical section
    it runs. A critical section is one action, so the model interleaves where the code
    drops a lock or waits on I/O, with three merges named below:
    - the assign path is `a_handout` (pool call and slug), then `a_record` (monitor start and
      ledger insert);
    - the finish path is `f_lookup` (`alloc_mu_`), then `f_body` (`mu_`), then optionally
      `f_sort` (unlocked sort-file Close), `f_purge` and `f_newmon` (map-to-reduce switch),
      then `retract`, `k_mu` and `k_alloc` (`RetractJob` → `Kill`), then `f_relock`, then
      `f_commit` (`alloc_mu_`), then `f_cancel` and `f_release`.
    - The merges. `AssignHandout` takes `GetItem` (the pool's own mutex), the slug section
      under `alloc_mu_` and, when nothing is handed out, `CanMapDismiss` under `mu_` as one
      step. `AssignRecord` takes the monitor start under `mu_` and the ledger insert under
      `alloc_mu_` as one step. `FinishNewMonitor` takes `monitor_->Stop(false)` and the new
      monitor as one step. So a `ReturnBackItem` of another handler cannot fall between
      the slug drain and `GetCertainItem` (lines 359-374), and the model never reaches the
      `cur == NULL` exit at lines 375-381. That exit gives the same Suspend or NoMore answer
      as the empty-slug exit, so only the state in which that answer is given is missed.
      A Kill can still fall between `AssignHandout` and `AssignRecord`, which is how
      finding 1 arises.
  - **Data.** Data is abstracted. An endpoint is a model value. A record is
    `[ph, no, att, ep, st]`. Times are replaced by the choices they decide: is the oldest
    attempt past the sleep time, is it past the median timeout, did the random-query coin
    come up.
  - **Undefined behaviour.** Undefined behaviour the code can reach is recorded in `faults`,
    and the model then continues with any value the read could produce:
    - an index past the end of `failed_count_`;
    - `AddTask` on a NULL `monitor_`;
    - `Query` through a NULL `rpc_client_`.
  - **Unlocked `state_`.** `AssignReadState` is AssignMap's test `state_ == kPending`, taken
    apart from the store of kRunning in `AssignHandout`. The constant `StateRace` enables
    this split; runs that ask other questions leave it off.
  - **Recovery.** `Backup` is the master's periodic backup (`backup_interval`): the ledger
    (`HistoryForDump`) and `state_` go to `store`. `MasterRestart` is a new tracker
    `Load`ed from `store`: `Replay` folds the saved records over a fresh pool (with
    `FoldLeft` from SequencesExt), the ledger and time heap are reloaded, `failed_count_`
    is sized to the replayed phase, and everything `Load` does not restore starts empty,
    `counters_` included. Handler threads and the monitor pass die with the old process;
    their minions see the answer lost. `MaxRestarts` bounds restarts.
  - **Update.** A user Update (`MasterImpl::UpdateJob`, spec-modelled) runs
    `JobTracker::Update` in the second Killer slot. `UpdateRead` is the unlocked test of
    `map_` (then `reduce_`); `UpdateCall` calls the Gru's Update, which may fail, and stores
    the new capacity in `capacity`. `CanDismiss` reads `capacity`, so an Update can make
    dismissal possible. Init applies the constructor's clamp of the reduce capacity
    (`ClampCapacity`). A call through a Gru that Kill has deleted is the fault
    `UpdateOnDeletedGru`.
  - **Query.** `MonQuery` asks the minion through `QueryAnswer`: nothing while
    `WatchDogTask` has found it overloaded or frozen for 300 s (`Stalled`, a free choice
    since load and time are abstracted), otherwise its current or last task and attempt.
  - **Stopping the monitor.** Kill's `delete monitor_` and the map end's
    `monitor_->Stop(false)` wait for the running pass, and the stopped pool starts no new
    one (`MonitorStopping` guards `MonStart`).
  - **Counters.** `counters` is `counters_`; the kTaskCompleted case merges the report's
    counters through `CA!Accumulate`, the operator of `CounterAggregator`.
- `CounterAggregator.tla` is `AccumulateCounters` alone: a sequence of reports merged into
  a map from names to sums, with the cap tested before the merge. `JobTracker` uses it for
  `counters_`; `MCCounters.tla` checks it alone, with three names and three reports, in two
  of the further configurations.
- `AbstractJob.tla` is what a job promises: state Pending → Running → {Completed, Failed,
  Killed}, tasks Done one at a time and never undone, a reduce task Done only after every
  map, Completed only when all are Done. `JobTracker` instantiates it with
  `state <- jobState, done <- DoneSets` and states `ImplementsAbstractJob == AJ!Spec`.
  No run checks it (see Properties).
- `MCJobTracker.tla` instantiates the model for TLC. It gives the endpoints and hosts as
  model values, defines per-phase flag operators, and declares map-worker symmetry (sound
  only when each map minion has a host of its own).

## Runs

Every run uses `MCJobTracker`. The passing runs finish within four minutes on two workers.
`StateRace` (the unlocked `state_` test in AssignTask) is TRUE only in user_kill.

| run (cfg) | bounds | checks | result |
|---|---|---|---|
| map_only_lossy (`MCMapOnly.cfg`) | 2 splits, 2 minions, no duplicates, lost answers, ≤3 hand-outs | AtMostOneCompleted, AllocatedHasAttempt, CountersMatchDone | pass, 1.2M states |
| user_kill (`MCKill.cfg`) | 2 splits, duplicates allowed, user kill, user Update of the map capacity to 7, unlocked `state_` race, ≤4 hand-outs | AtMostOneCompleted | pass, 1.5M states |
| crash_restart (`MCCrash.cfg`) | 2 splits, no duplicates, 1 crash per minion, fair scheduling | AllocatedHasAttempt, JobEventuallyEnds | pass, 822K states |
| end_game_monitor (`MCEndGame.cfg`) | last split in the end game, 1 replica, monitor budget 1 | AtMostOneCompleted, AllocatedHasAttempt | pass, 1.4M states |
| map_reduce (`MCMapReduce.cfg`) | 2 splits, 1 reduce, reduce pulled up after 1 map, m1 and r1 on one host | TypeOK, ReduceCompletedAfterMaps, FailedCountWithinNodes, ReduceDeployedAfterMaps | pass, 1.6M states |
| master_restart (`MCRestart.cfg`) | 1 split, no duplicates, 1 master restart from any earlier backup | AllocatedHasAttempt, ReplayNeverInventsDone | pass, 1.7M states |
| kill_races_assign (`MCKillRunning.cfg`) | map-only, user kill | NoRunningAfterKill | violation, 7 steps |
| kill_races_last_finish (`MCKillTerminal.cfg`) | map-only, user kill | TerminalStateIsFinal | violation, 17 steps |
| duplicate_completed_report (`MCDupFinish.cfg`) | map-only, lost answers | DoneIsRecorded | violation, 13 steps |
| monitor_double_reissue (`MCNoDupFail.cfg`) | map-only, no duplicates, last split in the end game, no lost answers, ≤4 hand-outs | SingleRunningAttempt | violation, 22 states |
| assign_after_retract (`MCLateAssign.cfg`) | map-reduce as above | NoUndefinedBehaviour | violation, 12 steps |
| sort_file_close_fails (`MCIgnoreSort.cfg`) | map-reduce, retry 1, two ignore slots | IgnoredMatchesCounter | violation, 14 steps |

### Further configurations

The project keeps twelve runs. The configurations below sit beside them and are not in the
run list; each checks one property that TLC finds violated, and the hazards of PROJECT.json
name them. Findings 7-15 below come from them.

| cfg | bounds | checks | result |
|---|---|---|---|
| `MCStateRace.cfg` | map-only, user kill, `state_` race | TerminalStateIsFinal | violation, 6 steps |
| `MCReplayOrder.cfg` | 1 split in the end game, 1 master restart | AttemptsUnique | violation, 16 steps |
| `MCRestartCounters.cfg` | 2 splits, 1 master restart | CountersMatchDone | violation, 10 steps |
| `MCReduceHang.cfg` | map-reduce, replica_begin_percent 100 | ReduceDeployedAfterMaps | violation, 13 steps |
| `MCLostAssign.cfg` | 1 split, lost answers, fair scheduling | JobEventuallyEnds | violation (lasso) |
| `MCCounterCap.cfg` (module `MCCounters`) | 3 names, cap 1 | DistinctNamesCapped | violation, 2 states |
| `MCCounterDrop.cfg` (module `MCCounters`) | 3 names, cap 1 | KnownNamesKeepCounting | violation, 3 states |
| `MCUpdateKill.cfg` | 2 splits, user kill, user Update | UpdateUsesLiveGru | violation, 7 states |
| `MCMRLive.cfg` | map-reduce as map_reduce, fair scheduling | JobEventuallyEnds | pass, 1.5M states, 5.5 minutes |
| `MCNoDupLossy.cfg` | map-only, no duplicates, lost answers | SingleRunningAttempt | violation, 16 states |
| `MCCrashReport.cfg` | as crash_restart, ≤4 hand-outs, safety only | SingleRunningAttempt | violation, 18 states |

`MCMRLive.cfg` is the one passing configuration here: it is kept out of the runs only
because it takes longer than they may. Before `MonitorStopping` was modelled it found a
lasso: a reduce deploy failure retracts the job, the Kill waits for the map monitor, and
the monitor starts pass after pass, so the Kill never runs.

### What the violations show

Each is a real disagreement between the code and spec.md. PROJECT.json gives the lines:
"findings" for 1-6, "hazards" for 7-15.

1. **Kill races an assignment.** An `AssignMap` that got its task before a user kill
   appends a Running record after `Kill` swept the ledger. This contradicts spec §8.6.
2. **Kill races the last finish.** A user kill racing the job's last `FinishMap` writes
   `state_` twice: Completed then Killed, or the reverse. This contradicts §3 and §8.5.
3. **A resent Completed report overwrites the winner.** The report passes the Running check
   before the first copy commits. It then commits Canceled over the winner's Completed.
   `Replay` marks a task Done only from a Completed record, so the task would run again
   after a master restart (§8.7).
4. **One failed monitor Query re-issues a task twice.** With duplicates forbidden the
   monitor queries a timed-out attempt; if the Query fails (the minion is busy reporting,
   stalled or unreachable) it marks the attempt Killed, returns the task to the pool and
   also pushes it on the slug (lines 1154, 1168, 1170). `GetItem` hands the task out
   again, and the next `AssignMap` pops the slug, finds the task Allocated and hands out a
   duplicate. Two attempts of one task run at once, against §3. No RPC answer is lost.
5. **AssignMap uses a deleted monitor.** `AssignMap` calls `AddTask` on the `monitor_`
   that `Kill` deleted, when a reduce deployment failure or a user kill retracts the job
   mid-assignment.
6. **A failed sort-file Close double-counts.** The fake completion of an ignored failure
   turns back into a failure, and `ignored_map_failures_` is incremented twice for one
   task (§8.8).
7. **AssignMap's unlocked `state_` update.** A user kill between the test `state_ ==
   kPending` and the store of kRunning is overwritten: the killed job reports Running.
8. **Replay restores the wrong attempt.** Concurrent assignments append ledger records out
   of attempt order. `Replay` takes the attempt of the last record, so after a master
   restart the pool hands out an attempt number a minion is still running.
9. **Load loses the counters.** `Load` never rebuilds `counters_` (§8.7 and scenario S6
   say it survives).
10. **The counter cap is tested before the merge.** One report pushes the number of
    counters past `max_counters_per_job`; past the cap the whole report is dropped, not
    only its new names (§4.5).
11. **replica_begin_percent = 100 never starts the reduce phase.** `reduce_begin_` is 0,
    the pull-up test `completed == reduce_begin_` never holds, and the map-end switch does
    not create the reduce Gru.
12. **A lost AssignTask answer outside the end game hangs the job.** The task stays
    allocated to nobody; only the monitor could re-issue it, and it runs only in the end
    game. Every minion is told to wait, forever.
13. **Update calls through a deleted Gru.** `Update` tests `map_` without `mu_`; a user
    kill deletes the Gru between the test and the call.
14. **A resent Failed report returns the task twice** (`MCNoDupLossy.cfg`). Its Running
    check passes before the first copy commits, and the second `ReturnBackItem` releases
    the hand-out of a newer attempt; the task is handed out again while that attempt
    runs, with duplicates forbidden.
15. **A restart report races the Failed report** (`MCCrashReport.cfg`). A minion crashes
    while its Failed report is being handled, restarts and reports the same attempt
    Killed (minion_impl.cc:338). Both reports pass the Running check, the task is
    returned twice, and two attempts of it run with duplicates forbidden.

### Properties, and why the passing ones are not trivial

- **AtMostOneCompleted.** It takes two attempts, both reports, and commits and cancels in
  an unlucky order to break it. The mutant that ignores `FinishItem`'s result breaks it.
- **AllocatedHasAttempt.** Every path that ends an attempt must return its task: Failed,
  Killed and Canceled reports, the restart report, and the monitor's kill. Leaving out any
  one of these orphans a task, and the job waits forever. Mutants drop the return in the
  finish path, in the kTaskKilled case, and in the monitor's requeue. It does not see a
  task returned twice; `SingleRunningAttempt` does, and findings 4, 14 and 15 break it.
- **ReduceCompletedAfterMaps.** Reduce minions run before the maps are done, so only
  `FinishReduce`'s first test stops early reduce output.
- **FailedCountWithinNodes.** This is spec §8.4, across resent reports and the phase
  reset.
- **TypeOK** includes "`failed_count_` is sized to one phase's task total".
- **CountersMatchDone.** The counters are those of the Done tasks (less the fake
  completions of ignored failures), however reports race. Accumulating a refused report
  breaks it.
- **ReplayNeverInventsDone.** An action property: a master restart never makes Done a
  task that was not. A `Replay` whose Running case falls through breaks it.
- **ReduceDeployedAfterMaps.** It needs the pull-up count to be reachable; an off-by-one
  `reduce_begin_` breaks it.
- **ImplementsAbstractJob** is stated and not run. In the runs without a user kill or a
  master restart it says no more than their invariants. With a user kill TLC finds it
  broken by the kill races of findings 2 and 7. With a master restart, `Load` sets
  `state_` from a backup taken while the job was Pending (line 961), so a Running job
  reports Pending again, which the contract does not allow.
- **JobEventuallyEnds.** Liveness under the fairness below: the job reaches a terminal
  state unless the hand-out bound keeps a task that went back to the pool from being
  handed out again (`AllocsSpent`: the bound is reached and a task is Pending). A crashed
  task's re-issue uses the third hand-out, so the bound alone does not discharge the
  property. A Killed report that does not return its task breaks it.

## Bounds

Two splits and two minions are the least that give one task two attempts on two hosts,
and let two reports race. One reduce task and one reduce minion are enough for the
pull-up and phase-switch paths. `MaxAllocs` (three or four hand-outs) allows a retry, or
an end-game replica, of one task. `MaxCrashes` 1 gives one restart per minion. Each
violation above needs at most these bounds. A larger bound adds longer behaviours of the
same shape, but no new ordering of the critical sections. Raising the bounds by one is
part of the plan below.

## Fairness

`FairSpec` adds weak fairness per thread: each handler slot, each minion's own steps
(`MinionWork`: ask, execute, resend, restart), each CancelTask delivery, and the monitor.
Handlers and the monitor only wait on mutexes and sleeps, and the minion loop retries after
a sleep, so none of them is blocked forever. Crashes, lost answers, a user kill, a backup
and a master restart are failures or outside input and are not fair. Kill and the map end wait for the
monitor's running pass, and the stopped pool starts no new one; without that the monitor
could starve them. The liveness runs (crash_restart, `MCMRLive.cfg`) use
no symmetry, because symmetry is unsound for liveness in TLC. `JobEventuallyEnds` also
allows the job to stop when the hand-out bound `MaxAllocs` is used up while a task is
Pending (`AllocsSpent`); that is a bound of the model, not of the code.

`CHECK_DEADLOCK FALSE` is set in every run because the model really stops: a finished or
killed job has no enabled step once every minion has exited, and the bound on hand-outs
also stops assignments.

## What is not modelled

1. Start's failure paths are left out. They end the job before any handler runs.
2. Update's priority only reaches the Gru. The capacity is modelled; dismissal is reached
   in user_kill, where an Update raises the map capacity to 7.
3. Statistics, job ids, output paths and `FillCounters` are formatting or copies.
   `WatchDogTask`'s load and freeze detection depend on time and the host's load; only its
   effect on `Query` is kept (`Stalled`).
4. The refinement to `AbstractJob` is not checked by a run (see Properties).
5. The project keeps twelve runs, each under five minutes on two workers. Four hazards
   therefore have their property checked only in a further configuration: the Replay
   attempt order, the counter cap, Update through a deleted Gru, and the monitor stop that
   map-reduce liveness depends on. `MCMRLive.cfg` takes about 5.5 minutes. The smallest
   instances that still exercise the monitor (one inspection per pass) are not smaller than
   1.5M states, and a zero inspection budget is not a state of the code.
6. map_only_lossy runs with duplicates forbidden. With duplicates allowed it reaches 3.4M
   states and takes too long. Duplicate attempts are still checked in user_kill, where they
   race with a user kill.
