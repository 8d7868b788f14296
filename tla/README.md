# Verification of the consistency-training code

This directory holds TLA+ models of the concurrent and crash-prone parts of the
repository, the TLC runs that check them, and TLAPS proofs about them. Paths
below are relative to the repository root. `PROJECT.json` maps each definition
to the lines it models and lists runs, mutants, hazards, findings and theorems.

## 1. The system

The repository trains a multimodal model with reinforcement learning (a DAPO
variant of PPO). A judge model, served over HTTP, scores answers and reasoning;
`rl.sh` starts the judge and the DAPO recipe of a vendored copy of verl, which
does the training. The copy also holds verl's newer trainers (v1) with a replay
buffer and the fully asynchronous trainer; `rl.sh` does not start these, but they
are the most concurrent part of the training code.

| Part | State it keeps | Operations | What is hard about it | What makes it correct |
|---|---|---|---|---|
| Reward model server (`reward_model_server.py`) | per task a queue, a local batch, `_stop`, `_fatal_error`; the scheduler's `_active`, `_waiting`, arrival counter; `ServerState` | one handler thread per request, two batcher threads, main thread, signal and shutdown threads | many threads, one model, `wait_for` over state its condition does not guard, failure of one task while the other works, shutdown with a timed join | each request answered exactly once; one inference at a time; failure is final and ends the process with status 1; a ready batch is started |
| Checkpoint store (`verl/utils/checkpoint/checkpoint_manager.py`, `_save_checkpoint` / `_load_checkpoint` of `verl/trainer/ppo/ray_trainer.py`) | directories, actor and `data.pt` files, tracker file; `previous_saved_paths` in memory | make room, write, register, write tracker, find latest | a crash between any two writes, rotation racing the tracker | what the tracker names can be loaded |
| DAPO trainer (`recipe/dapo/dapo_ray_trainer.py`) | `global_steps`, epoch, dataloader position, filter counters, weights of actor and rollout replicas | one loop: generate, filter, update, save, sync | dynamic sampling decouples steps from batches; crash and resume; two ways to end | on-policy generation, monotone steps, bounded loss of work (but for a torn tracker), complete epochs, final weights saved |
| v1 replay buffer and trainers (`verl/trainer/ppo/v1/`) | prompt groups tagged with status and step, trajectories, refill credit, draining, batch | submit, roll out (workers), poll, evict, refill, sample, train | the trainer decides on a snapshot while workers write; replacement counts; staleness bounds; waiting for groups nobody submits | nothing starves or piles up; no group trained on that failed or still runs; bounds on staleness; sampling returns |
| LLM load balancer and clients (`verl/workers/rollout/llm_server.py`) | counts of calls in flight, sticky sessions, registered servers; what an answer has so far | acquire, release, generate, retry | releases that nobody waits for, a server that goes away between acquire and call | counts match calls; a call gets one answer within its budget, whose version span is true |
| Checkpoint engine manager and its callers (`verl/checkpoint_engine/base.py`, `trainer_separate_async.py`, `dynamic_schedule/dynamic_resource_controller.py`) | servers paused, asleep, version of their weights; hybrid servers in rollout mode or not | abort, update, resume, sleep, add, remove | groups of servers change one by one while clients go on | weights stay while a call generates; no call is routed to a sleeping server |
| Rollout checkpoints (`rollout_checkpoint.py`, `run_gemini.py`) | JSONL file, fail log; batch or pool in memory | begin, generate, append, read on resume, overwrite | a crash in mid-line, appending behind a cut line, results waiting in a pool | bounded loss; good results stay; running again completes the file |
| Fully asynchronous policy (`verl/experimental/fully_async_policy`) | pending queue, active tasks, message queue, `staleness_samples`, `paused`, `_resume_event`, the trainer's steps and versions | feed, process, pause, drain, monitor, collect, update, push, reset | an await between reading and writing a counter, a pause racing a resume, a queue that drops its oldest entry, an exception in a task | samples ahead of the trainer bounded, none lost silently, the end signal arrives, the run ends |

The server and the trainer are connected by HTTP only: a reward function calls
`reward_model_client.py`, which waits with a timeout and raises on any status
but 200. The trainers call the checkpoint store synchronously. The v1 trainer
shares the TransferQueue with its agent loop workers; nothing but the queue's
operations is atomic between them. In the fully asynchronous system the rollouter,
the message queue and the trainer are Ray actors; the rollouter's coroutines
interleave at every await, and the trainer's calls with them.

Scripts for data preparation and plotting, the numerical code of verl, its other
recipes and its data protocol have no protocol of their own to check;
`components` lists each with its reason.

## 2. Modules

    InferenceScheduler  <-INSTANCE-  RewardService  <-EXTENDS-  RewardRefinement  -INSTANCE->  RewardContract
    CheckpointStore     <-EXTENDS-   DapoTrainer
    ReplayBuffer
    FullyAsync        samples, each generated by a task
    RolloutServing    the calls such a task makes, and the servers under them
    RolloutCheckpoint

Proofs are in `<module>Proofs`, those of the refinement in RewardServiceProofs; the
`MC...` modules give constants their values for TLC. In each module, definitions called `Mutant...` are plausible defects of
the definition they precede. No specification uses them; replacing the
definition by one makes TLC report the property it is listed with.

### InferenceScheduler
`QueueLengthInferenceScheduler`. `run()` becomes its three critical sections:
`Enter` (registration and first evaluation of the predicate), `Wake` (a further
evaluation after `notify_all`), `Finish` (the model is freed, all are notified).
`phase` says where each batcher thread is in `run()`. Python's `Condition` gives
exactly this: a thread that is asleep does not re-evaluate until notified.
`total`, which `_may_start` computes from queue lengths, belongs to the
environment: taken alone, the module lets it change at any moment (the
queues grow without the lock); RewardService substitutes the real queues and
is what TLC runs; the stand-alone module is what is proved, and the proofs of
RewardService show that the service only takes its steps.

### RewardService
The whole process. `hpc`, `bpc`, `mpc` are the positions of handlers, batchers
and the main thread.

| Code | Actions |
|---|---|
| `do_POST` | `Arrive`, `ReadState`, `Result` |
| `DynamicBatcher.submit` | `SubmitCheck`, `Put` (separate: no lock spans both) |
| `DynamicBatcher._run` | `LoopTest`, `GetEmpty`, `GetFirst`, `CollectMore`, `EnterRun`, `WakeInRun`, `InferOk`, `InferFail`, `Resolve` (one future at a time) |
| `_fail_fatally`, `abort`, `fatal_shutdown` | `AbortMark`, `DrainOne`, `DrainEnd`, `FailBatch`, `PublishFatal` |
| `run_server`, `close` | `LoadOk`, `LoadFail`, `Publish`, `ServerThreadEnded`, `CloseSetStop`, `CloseJoin`, `CloseModel`, `Exit` |
| `handle_signal`, `shutdown` | `Signal`, `Shutdown` |

Texts, scores and JSON are abstracted; `Faults` selects what the environment may
do wrong (load failure, failing batch, invalid body, signal, a join that times
out). The batching window may close at any moment. The `_fatal_error` of each
batcher and the `fatal_error` of the server are separate variables, as in the
code: they are set at different moments, and the order is what the proofs use.

### RewardContract and RewardRefinement
RewardContract is what callers rely on: the service is starting, serving, failed or gone;
each request is open once and then ends in a score, an error (only after a
failure), a refusal, or a cut connection. RewardRefinement maps the service to
it; `ImplementsContract` is the abstract specification as a property.

### CheckpointStore
One action per write of `_save_checkpoint`, with the rotation in front
(`EnsureCapacity`) and in the middle (`Register`) of it. `Torn` is the tracker
file between `open(.., "w")` and the write. A step's actor directory is
`Missing` from the moment it is (re)created until it is complete. `StoreSpec`
is the store with its assumption on the caller written out (`CanSave`: ever
later steps, and no start on an unreadable tracker).

### DapoTrainer
`RayDAPOTrainer.fit`, EXTENDING the store. `pc` follows the loop: `load`,
`epoch`, `next` (dataloader), `generate` (with filter), `update`, `save`,
`sync`, `endStep`, `final`. Weights are the number of updates they have seen;
`rollout` is the copy the replicas hold. A dataloader batch keeps any number of
prompts from 0 to `GenBatch`. `Crash` may come anywhere; it loses what the
process held and restarts in `load`. `consumed`, `consumedAt`, `skippedAt` are
history variables. `pos` is the state of torchdata's StatefulDataLoader, which is external: a new
epoch iterates it anew, after the last one it stays exhausted (that is what the save
after the loop stores), and restored as exhausted it yields an empty pass, as the message of
`_load_checkpoint` has it. `ImplementsStore` says the loop keeps to `StoreSpec`.

### ReplayBuffer
The v1 trainers' loop and both samplers. `status`, `step`, `left`, `traj` are
the tags and contents of the TransferQueue; `snap` is the snapshot `sample`
takes, on which `SampleSync`, `SampleSyncDapo` and `SampleAsync` decide in
a later step. Workers act per prompt group: `Start`, `EndSession` (a
trajectory, no output, or an error), `Settle` (terminal status after all sessions).
A session without output (`agent_loop_tq.py:156`) is counted in `silent`, which only the
properties and `Settle` look at: the code sees that nothing was raised. A finished group without
any trajectory has no metric to filter by: `RaiseMissingMetric`. One run
covers a set of configurations (`conf`): sync or async, drop or wait, filtering,
refill of failed groups, warm-up, mini-batches, speculative batches. A uid is
reused once nothing in the queue bears it, so a finite set of uids covers runs of
any length in prompts. `Save` writes a checkpoint between the last update of a
step and the clearing of its batch; `Resume` is a crash at any moment together with the restart:
the queue as saved if the TransferQueue can do that (`tqSaves`), in-flight groups
issued again under the next step, and the warm-up of `fit` once more.

### RolloutServing
What a `generate` call goes through while the weights change under it. Clients
and the trainer's calls meet at the servers in any order.

| Code | Actions |
|---|---|
| `GlobalRequestLoadBalancer.acquire_server` (sticky, least loaded) | `Acquire` |
| `LLMServerClient.generate`, the loop of `FullyAsyncLLMServerClient.generate` | `Arrive`, `Emit`, `Complete`, `Receive` (merges, retries with the rest of the budget) |
| `release_server`, sent without waiting | `Release` |
| one step of the trainer | `Step` writes a `script`, the calls in the order the code makes them; `Route` and `Serve(s)` carry them out |
| `update_weights` of the standalone servers | `Push` |
| `switch_to_trainer`, `deactivate_hybrid_replicas` | `Deactivate` |
| `switch_to_rollout` / `activate_hybrid_replicas`, `rebalance_requests` / `_trainer_side_validate` | `SwitchToRollout` / `Activate`, `Rebalance` / `Validate` |

`conf.control` says whose script it is: `"separate"` (PPOTrainer separate_async),
`"dynamic"` (DynamicResourceController) or `"validate"` (validation on the
trainer's side). A call to a group of servers reaches them one by one, and the
next is made when all have answered, as the code gathers them (`Skip`: a call to
an empty group has nobody to answer). Tokens are
counted, up to `Budget`, with the version of the weights that made them.

### FullyAsync
The rollouter's coroutines, the queue and the trainer. Samples are counted, not named.

| Code | Actions |
|---|---|
| `_feed_samples` | `Feed` |
| `_process_single_sample_streaming` | `Land`, `Fail` |
| `_processor_worker`, `_should_pause_generation` | `Check`, `Decide` (an await lies between), `Park`, `Drain`, `Resume`, `Get`, `Slot`, `Submit`, `Ending`, `ReapLocked`, `Spin` |
| end of `_streaming_generation_main` | `Finish` |
| `_async_monitor_loop` | `MonitorLook`, `MonitorJudge`, `MonitorResume` |
| `MessageQueue.put_sample` | `Put` |
| `FullyAsyncTrainer.fit_step` and what it calls | `Gate`, `Poll`, `Collect`, `Train`, `Sync`, `ResetStaleness` |
| `reset_staleness` | `ResetCount`, `ResetStaleness` (an await lies between) |

`lock` is the rollouter's lock where it is held across an await; where it is
not, the step only needs it free. `queue` has the samples in front of the end signal, the
signal, and samples behind it: a task may outlive a processor that raised. Which
hybrid replicas to activate is decided from timings; the model chooses freely
within what the policy may answer.

### RolloutCheckpoint
The three generation scripts (`conf.tool`): `Begin`, `Generate`, `Append`,
`Finish`, `Crash`, `Start` (reads what is there), `Overwrite`. The file is what
its intact lines say of each row (`saved`), the worst of its damaged lines
(`damage`), and a last line without its newline (`tail`). A crash
within a write cuts the line at its newline, at a point where it is no JSON, or
inside a character; what the next run appends continues the cut line, and both
become one line that is neither.

## 3. Runs

| Run | Question | Distinct states | Result |
|---|---|---|---|
| `reward_safety` | one batch on the model; a sleeper on an idle model has a rival; no request lost, doubled or answered wrongly; exit status; model closed only when idle; the service implements its contract | 300 thousand | holds |
| `reward_live` | both tasks, with faults: each accepted request is answered or cut; a failure or a signal ends the process | 250 thousand | holds |
| `reward_lost_wakeup` | both tasks, no fault: is each ready batch started? | | **violated** |
| `reward_orphan` | is a failure passed to every request in the queues? | | **violated** |
| `dapo` | crashes between any writes, resumes, several epochs, ESI saves | 1.8 million | holds |
| `dapo_false_boundary` | is a dataloader state that a resume skips exhausted? | | **violated** |
| `replay_safety` | sixteen configurations: replacement exact, batches fill, spans within the threshold, sync leaves nothing behind, no async batch with a group that failed or still runs, trajectories cleared, all of it also after a resume | 3.0 million | holds |
| `replay_live` | does `sample` return? | 88 thousand | holds |
| `serving` | four deployments: counts sound, routable servers have weights, weights stay under a call, budget and version span over retries, calls answered | 1.2 million | holds |
| `rollout_log` | four scripts: loss of a crash, missing rows, good results kept, running again completes the file | 67 thousand | holds |
| `fully_async` | five configurations: staleness budget, samples accounted for, end signal, updates not pushed or saved at the end; the run ends | 339 thousand | holds |
| `fully_async_hang` | does the end signal end the training? | | **violated** |

### Findings
- **Lost wakeup** (`reward_model_server.py:253`). The predicate of `wait_for`
  reads both queues, but a growing queue notifies nobody. R4 evaluates while the
  other task is ahead and sleeps; the R4 queue grows; the other task then
  evaluates, sees R4 ahead, and sleeps too. Both sleep, the model is idle, and no
  further arrival wakes them. It needs both tasks in use: with one task
  it cannot happen (`IdleSleeperHasRival`, proved).
- **Orphaned request** (`:102`). `submit` checks and then puts with no lock
  around both; a request put after `abort` has drained the queue is never
  failed. Its handler stays blocked until the process ends and the connection
  is reset, or its client gives up (`reward_model_client.py` has a timeout), which is why the liveness property says "answered or reset".
- **False epoch boundary** (`verl/trainer/ppo/ray_trainer.py:1106`).
  A resume decides from `global_steps % len(train_dataloader)` that the saved
  dataloader state is exhausted. Under dynamic sampling a step takes several
  batches, so a state in mid-pass is dropped. In the trace the first two steps take the
  three batches of the first pass; step 3 is saved inside the loop with one batch of the second
  pass taken; the driver dies, and the resume at step 3, a multiple of 3, starts that pass again.
- **Waiting past the end** (`fully_async_trainer.py:568`). Before it takes hybrid
  replicas back, `fit_step` waits without a timeout for the samples of a whole
  cycle. When the rollouter has ended and fewer entries are left, none come: the trainer
  never reads the end signal that is in the queue. With hybrid replicas
  only, which are always active, a run ends so even when the samples divide evenly
  into cycles, if a cycle has more than one.

### Bounds, and why they are enough
- *reward service*: three requests on two tasks with `MaxBatch = 2`: a full
  batch, a part batch, one request queued behind a batch, and the other task at the same
  time. The lost wakeup needs four requests: `AllAsleep`, which
  `RequestsAnswered` excepts, is not reached in `reward_live`, so that run shows
  the unexcepted property for three. The safety properties are proved for all values.
- *DAPO*: a loader of 3, two epochs, six steps, so training ends either by steps
  or by epochs; save frequency 4 with ESI saves; up to three
  dataloader batches a step; `MaxKeep = 2`, so rotation happens; two crashes, so
  a resume of a resume, and a crash in the save after a resume. `MaxStep` leaves
  room for the save after the loop and is bounded below by an assumption. The false boundary
  is searched with save frequency 3 and no ESI: a save inside the loop falls on a
  multiple of the loader's length.
- *replay buffer*: two sessions a group (complete, partial, empty), two prompts a
  batch, threshold 2, three steps: the first span over the threshold occurs. Four of the sixteen
  configurations, one of each sampler with and without filtering, have sessions without output.
  `MaxCredit` bounds refills owed: no uniform group comes out while that many
  are owed. Without it, credit grows without bound; it limits how badly a batch
  comes out, not what the sampler does. The configurations that save have batches of
  one group: after a resume four uids hold the restored group, the new warm-up, the
  batch of the step and a leaked one. One crash is allowed. Uids are symmetric (safety
  run only; the liveness run uses no symmetry).
- *serving*: two calls of two tokens: cut off before, between and after tokens, one
  waiting while the other holds the server, a sticky entry that is stale. One
  standalone and one hybrid server, or two hybrid ones; two steps, so that
  a hybrid server is removed, added again and removed once more, with releases
  from before. Rebalancing and hybrid-only are run with one step.
- *rollout log*: four rows and two workers or rows a batch: some are done, some
  running, some waiting when a crash comes. Two crashes: a cut line continued by another cut
  line. Two failing generations.
- *fully async*: nine samples: two cycles of two updates and an incomplete one, or
  four and a half cycles. Budgets without room for stale samples, with some and
  with plenty; with a failing task; with hybrid replicas beside or instead of
  standalone ones. `FeedMax` is the size of the pending queue. The hang needs four samples.
- Deadlock is checked in all runs but `reward_lost_wakeup`, whose subject is
  that the system stops. The end of a process is a stuttering step of its own
  (`Terminated`, `Stopped`), so any other stop is reported.

### Fairness
- RewardService: weak fairness for each handler, each batcher, the main thread and the
  shutdown thread: they are operating-system threads whose locks are held for a few
  assignments, and their waits have timeouts or are ended by others. Nothing is
  assumed of clients, signals or faults. A request *arriving* is never forced.
  A run of the model either returns or raises; it does not hang.
- ReplayBuffer: weak fairness for the trainer and for the worker of each
  prompt. `SampleReturns` excepts runs with infinitely many failures or uniform
  groups: filtering may then rightly go on for ever.
- RolloutServing: weak fairness for each client together with the server it calls
  (generation goes on, messages arrive) and for the trainer, which makes its
  calls and goes through its steps; a call to a server returns.
- FullyAsync: weak fairness for each coroutine, for the tasks as a whole
  (generation ends) and for the trainer. `Land` waits for an active server
  where there are hybrid ones only. `TrainingEnds` is stated for runs without
  hybrid replicas, and with `standalone <= max - Step`: with more concurrent
  samples than that, tasks counted twice can exhaust the budget (section 5).
- RolloutCheckpoint: weak fairness for generating and appending, and for
  somebody who starts the script again, and overwrites where it asks for that. Crashes
  and failing generations are not fair; `MaxCrashes` and `MaxErrors` bound them.
- The DAPO driver has safety and refinement properties only.

## 4. Proofs

All theorems hold for every value of the constants permitted by the named
assumptions of their modules.

**InferenceScheduler.** `SchedInv` is the types, `ModelExclusive`,
`EntriesMatchWaiters`, `ArrivalsDistinct` and `IdleSleeperHasRival`.
`IdleSleeperHasRival` is not inductive alone: that a thread goes to sleep on an
idle model *because of* another entry follows from `MayStart` only together with
the fact that entries are exactly waiters.

**RewardService.** The scheduler's theorems carry over: `Alone ==
INSTANCE InferenceSchedulerProofs WITH total <- Total`, and every step of the
service is a step of the scheduler alone or leaves its variables unchanged
(`ModelRunsOneBatch`, `SleeperHasRival`). Then three invariants, each on top of the previous ones.
- `OrderInv` = types, `BeforeReady` (nothing is submitted, so nothing but the load
  can fail, until the service is ready) and `OnceReady` (from then on it is ready
  or has failed, never both; a failed batcher is told to stop). The action properties
  `FatalIsPermanent` and `NotReadyOnlyWhileLoading` follow from it, and
  `RunMatchesScheduler` is inductive next to it.
- `FuturesInv` (`PendingExactlyOnce`, a request before its put has no future, an
  abort in progress has marked its batcher, `RepliesFollowFutures`).
  `RepliesFollowFutures` alone is not inductive: `FailBatch` fails futures, and only
  the order *mark, drain, fail the batch* in the code makes the batcher's failure
  already visible. `PendingExactlyOnce` counts occurrences in queue and batch;
  lemmas on `Append` and `Tail` show what one `put`, `get` and `set_result`
  do to the count.
- `EndInv` (joined batchers have ended, a batcher that ended on a failure has
  published it, the exit status is the failure flag). Exit status and closing of the model follow, under
  "no join has timed out": with a timed-out join both are false in the code.

`ServiceImplementsContract` shows each action mapped to a contract step or a
stutter under `MapInv` = `OrderInv` and `FuturesInv`. Neither is optional:
an error reply maps to `Error` only in state failed, which `FuturesInv`
provides, and `Publish` maps to `Serve` only from starting, which `OrderInv` provides.

**CheckpointStore.** `StoreInv` says, for each point of a save, which files are
complete, that registered checkpoints are listed in increasing order and are on
disk, and (`ListedWereTracked`) that none of them is later than the tracked one,
but the last while its save goes on. So the tracked step is the last or the last
but one of the list, or not in it (after a restart), and rotation, which takes
from the front and leaves at least one besides the new one, never reaches it. The theorem assumes `MaxKeep # 1`;
For 1 there is a counterexample (section 5), so the assumption is necessary.

**DapoTrainer.** `DapoInv` = `StoreInv` and `LoopInv`, which ties `global_steps`
to the tracker and the registered list: a new save is always later than all of
them. Under it each step of the loop is a store step or a stutter
(`LoopImplementsStore`), hence `ResumePointExists`. `PolicyInv` gives
`GenerationIsOnPolicy`: outside of save and sync the replicas' weights are the
actor's. On the same base:
- `DapoTypes`: the position in the loader stays within a pass, also on disk.
- `LostWorkIsBounded`, unless a crash left an empty tracker: the tracked checkpoint lags behind the weights by no more updates than
  the steps since the last multiple of `SaveFreq` (`LagInv`); `SaveInv` says what a
  save in progress has written.
- `FinalWeightsAreSaved`: the last step is saved, in the loop or after it. `FinalInv` needs
  that without a crash no directory of a later step exists, so that the save after the
  loop is not skipped.
- `EpochsHold` counts what was consumed as full passes plus the position. It assumes `LoaderLen # 1`:
  with a loader of a single batch the first epoch is skipped, because
  `global_steps` is 1 when `fit` divides it by the length (section 5).

All but `GenerationIsOnPolicy` assume `MaxKeep # 1`, as the store does.

**FullyAsync.** `IInv` is the types with four parts. `BatchInv`: a batch is full
exactly when it is trained on. `BudgetInv` ties `staleness_samples` to what
exists: it is at least `Outstanding - 1`, where the missing one is the sample the
processor holds when `reset_staleness` assigns; that is why `OutstandingBounded`
says `max + 1`. It is inductive only with the lock: while the reset counts, no
task is created, and the tasks counted before the await plus the queue after it
cover every sample. `FeedInv`: the balance of `SamplesAccounted`, with
where the processor is. `SignalInv`: what is behind the signal
in the queue and what may still be put there are together fewer than the queue
holds, so when the signal is the oldest entry the queue is not full. `TailHolds`
adds `TailInv`: at each place of the trainer's cycle, how many updates were made since the last
push, and that the last save was made in the version it is remembered by; two numbers of updates in the
same version differ by less than a cycle (`SameVersion`).

**RolloutServing.** `BaseInv` is the types and where a call is. Next to it `Counts` is
inductive: a server's count never exceeds the calls at it and the releases on
their way. The others are about what the trainer's calls do to the servers while
clients go on, so their invariant must know *what is left of the script*.
A forecast says of each server whether it is registered, paused and awake, whether it holds this step's or the
last step's weights, and whether it is `Drained`: nothing generates there
and nothing can begin to. `After(c, f)` is the forecast after the call c,
`Allowed` what a call needs (weights are only taken from drained servers, only
servers with this step's weights are resumed or registered), and
`Safe(q, f, a)` that the calls q can be made one after the other from f, every state between
`Sound`, every registered server that is paused having its resume ahead, and
the servers as between two steps (`Settled`) at the end. One lemma per piece of the trainer's code
shows it `Safe` (`SyncSafe`, `PushSafe`, `SwitchSafe`, `AddSafe`, `RebalanceSafe`, `CycleSafe`, ...).
`ServeInv` then says that the servers are as some forecast from which the rest of the
script is safe. A call in progress is the hard part: it reaches the servers one by one, and
while some have answered others have not. `RoutableServersAreServed` and
`WeightsAreKept` follow; with `SpanInv` so does `SpanEnclosesTokens`. They assume
`NoValidation`: with the validation on the trainer side they are false (section 5), since it
resumes servers that sleep. The run's deployments have no validation either.
Budget, counts and types are proved for all deployments.

**ReplayBuffer.** `Inv` has six parts.
- `TypeInv`: types and ranges, and that the local variables of `sample` are reset when it returns.
- `GroupInv`, about a single group: a session does not end twice, a group ends after all
  of its sessions, in a finished one none has raised, what is uniform is finished, what is trained on has left the queue; the same of the
  saved queue. `Lags` says what the snapshot still tells once workers have moved on: they only
  move a group forward, so what it saw ended is still so, and what is in flight it saw in flight.
  That is why deciding on a snapshot is sound at all. `TrainedGroupsAreSettled` follows.
- `StockInv` gives `StockIsConstant` a value at every place of the loop, and for the saved queue: the batches still to be
  added, the mini-batches taken, the warm-ups. It is inductive because an `Exchange` changes the
  number of groups by what goes in less what goes out (`CountExchanged`), which needs that the
  uids that come in are fresh and those that go out were there.
- `FillInv`: what a synchronous sample may still count on. `BatchCanFill` alone is not
  inductive: the groups that made it drain must not be evicted later, so it
  counts the groups that are `Usable`, and says that a snapshot taken while draining is enough. `SyncStaysBufferless`
  follows: without filtering exactly a batch is queued, with filtering nothing
  in flight is left when it returns.
- `SpanInv`: while a step trains, what is in flight has one version to spare.
- `LeakInv`: only a resume adds trajectories without a group (`LeakedShrinks`), and the saved
  queue holds at most those of one batch more than the running one.

The steps of both samplers are reduced to two forms, `Exchanged` and `Selected`
(`AsyncSteps`, `SyncSteps`, `DapoSteps`), so that each part is shown for those. The theorems assume nothing
beyond `ConfigAssumption`; the bound on credit plays no part in them.

**RolloutCheckpoint.** `IInv` is the types with `HeldInv`, `KeptInv` and
`LossInv`. `HeldInv` bounds what a batch or a pool holds; that a batch takes at most n rows is
lemma `FirstRows`, which maps each row to the number of rows before it, an
injection into 0 .. n - 1. `KeptInv`: a row of the run has no good result
in the file, nor has the row of a cut line, so no append replaces one. `LossInv`: rows
without a record that the run will not come back to (`Lost`) exist only after
an append behind a cut line, which costs its own row and the cut one; the next
run begins with none, whatever was lost before. `FewRowsMissing` is this bound at the end of a run.

**Only model-checked.** Liveness (`RequestsAnswered`, `ProcessEnds`, `SampleReturns`,
`AnsweredOrStranded`, `RerunsComplete`, `TrainingEnds`): it needs fairness and
ENABLED, which are out of the provers' reach. Every safety property the passing
runs check is a theorem.

## 5. Experiments

Variations of the runs that are not kept as runs of their own; each is a change
of a constant or of one property of a configuration.

DAPO and its checkpoints:

- **Keeping one checkpoint** (`checkpoint_manager.py:170`, `:181`). With `MaxKeep = 1`
  `TrackedIsLoadable` fails: `ensure_checkpoint_capacity` protects the old checkpoint until the new save
  completes, as its comment says, but `register_checkpoint` then removes it before
  `data.pt` and the tracker of the new one are written. `rl.sh` keeps five, so the
  shipped configuration is not affected.
- **Warm-up of a critic** (`dapo_ray_trainer.py:373`, `:394`). With
  `CriticWarmup = 2`, `ReplicasAwake` fails: every step puts the replicas to
  sleep, only steps past the warm-up wake them. DAPO has no critic and `rl.sh`
  leaves the warm-up at 0, the value of the run.
- **Torn tracker** (`ray_trainer.py:1049`). `TrackerReadableAfterCrash` fails as
  soon as a crash is allowed: the tracker is truncated before it is written.
- **Lost epoch** (`dapo_ray_trainer.py:141`). `EpochsAreComplete` without its
  condition `crashes = 0` fails: besides the false boundary above,
  `current_epoch` is computed after `global_steps` was advanced. For the same
  reason it fails without any crash with `LoaderLen = 1`: the loop begins with the second epoch.
- **Half-written final checkpoint** (`dapo_ray_trainer.py:466`).
  `FinalWeightsSaved` without `crashes = 0` fails: the save after the loop is
  skipped when the directory exists, complete or not.

Replay buffer:
- **What a resume adds** (`trainer_base.py:441`, `:461`, `:487`). The queue is saved before the
  trained batch is cleared: its trajectories are restored without prompts, and
  nothing clears them any more. `NoLeakedTrajectories` allows for them; with the bound 0 it fails. `fit` submits
  the warm-up although the restored queue holds the previous one:
  `StockIsConstant` counts the warm-ups, and fails if it does not. Requirements pin TransferQueue
  0.1.8, which cannot be saved (`_tq_supports_checkpoint` asks for 0.1.9); then the
  prompts in flight are dropped by a resume, and neither happens.
- **Groups without output** (`agent_loop_tq.py:156`). A session whose agent loop returns nothing
  ends without an error, and its group is published as finished. `traj[u] = Sessions` for the trained groups
  fails in the configurations where that may happen: such a group is trained on with fewer
  trajectories.
  `TrainedGroupsSettled` claims what is left. With filtering one group without any trajectory
  ends the run: `_dapo_filtered_keys` raises (`conf.dapo => pc # "failed"` fails); without it a batch
  of nothing but such groups does.
- **What "wait" bounds.** `SpansWithinThreshold` is there about prompts in flight.
  Finished groups may grow older than the threshold, since the oldest are
  taken first but nothing is dropped; the code and its tests intend this.

Serving:
- **A call that waits for the next switch** (`llm_server.py:282`). The
  docstring there promises that the rollout's interruption is invisible to the agent loop. With
  `Separate` of MCRolloutServing `EveryCallAnswered` fails: a client acquires a hybrid server, the server is
  removed, aborted and put to sleep, and only then the call arrives: it waits
  at the paused server until that is resumed, for ever at the end of the training.
  `AnsweredOrStranded` says that nothing else keeps a call from its answer.
- **Resuming servers that sleep** (`fully_async_trainer.py:868`). With `Validating`
  `WeightsStay` fails: phase 3 resumes the hybrid servers after they
  were put to sleep, and a call that was waiting at one generates without weights.

Fully asynchronous training:
- **The budget to the sample.** `Outstanding <= conf.max` fails:
  `docs/advance/fully_async.md:139` describes the staleness bound without the one sample that a reset misses.
- **Drops.** `dropped = 0` fails in the configurations of the run, `dropped <= 1` holds:
  the queue is as large as the budget, and the budget is exceeded by one.
- **A loop that does not yield** (`fully_async_rollouter.py:970`). `ppc # "spin"`
  fails with hybrid replicas only: they are taken back while the processor holds
  a prompt and no task is active; the loop then neither ends nor awaits, and the event
  loop of the rollouter stands still.
- **Double counting starves.** `TrainingEnds` without
  `standalone <= max - Step` fails: tasks that have put their sample but were not
  reaped count twice in `reset_staleness`. With as many as the budget, the processor stays paused and the monitor sees a
  budget that is used up, while the queue holds less than a cycle.

Rollout checkpoints:
- **A run that ends and cannot be resumed.** `FinishedIsReadable` fails: a run that
  resumes on a cut last line that reads as complete goes on behind it; its own end
  leaves a line that no reader accepts, and the user has to discard the file.
- **Gemini and a cut character** (`run_gemini.py:13`, which promises to resume). A file
  that is no UTF-8 stops every later run, and the script has no `--overwrite`:
  the exception of `RerunsComplete`.

## 6. What is not modelled, and why

- RewardService: HTTP parsing, scores, prompts (no control); the health endpoint,
  which reads two flags.
- CheckpointStore: `async_save` and HDFS copies (`rl.sh` sets neither); a critic
  checkpoint (DAPO has none); files inside an actor directory (complete or not).
- DapoTrainer: losses, metrics, profiling, validation (they change no state
  modelled); the training of RayPPOTrainer's own `fit`.
- ReplayBuffer: the validation partition (evicts nothing), an agent loop that
  returns several outputs for one session (they count as one trajectory), the writes within a checkpoint (the tracker comes last, as in
  CheckpointStore; a crash before it is a crash before the save).
- RolloutServing: eviction of sticky entries, conversations of several
  turns (each is a call of its own), servers that fail, the transfer of weights bucket by bucket.
- FullyAsync: the timings the scheduling policy decides from, validation, resuming from a checkpoint.
- RolloutCheckpoint: writes that raise without the process dying, `--limit`, the check that a
  checkpoint belongs to the same parameters, the script that evaluates the files.
- Numerical code: `core_algos.py`, engines, kernels, model definitions. It makes up
  most of the vendored lines; it computes on tensors and has no state a step of
  which could come at the wrong time. What it returns enters the models as a success, a failure or a free choice.
- The other recipes under `verl/recipe`, which nothing in this repository starts.
- Everything with status `not_modelled` in `PROJECT.json`, with its reason.

## 7. Plan

Done: all models of section 2, and a proof of every safety property that a run checks.

Next, most important first:
1. **An abstract specification of the replay buffer**, what `sample` promises of a
   queue whose size and ages a trainer may rely on, and the proof that both samplers
   implement it; `StockInv` and `SpanInv` are its mapping's invariants.
2. **The same for serving**: a call is open, is given tokens of ever later
   versions, and is answered; `SpanInv` of RolloutServingProofs gives the steps.
3. Action properties next to the invariants: the tracker never goes back, a pushed
   version is never older than the one before.
