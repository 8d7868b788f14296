---------------------------- MODULE ReplayBuffer ----------------------------
(***************************************************************************)
(* The v1 trainers of verl/trainer/ppo/v1 over their replay buffer: fit    *)
(* submits prompt groups to the TransferQueue, agent loop workers roll     *)
(* them out, and ReplayBuffer.sample (sync) or ReplayBufferAsync.sample    *)
(* polls the queue, evicts groups, replaces them and picks a batch.        *)
(*                                                                         *)
(* The trainer decides on a snapshot of the queue while the workers go on  *)
(* writing to it.  Messages, responses and scores are not modelled: a      *)
(* finished group is uniform (every score equal, what DAPO filters out) or *)
(* it is not.  A uid stands for one prompt group; it may be drawn again    *)
(* once nothing in the queue bears it.  Validation, which evicts nothing,  *)
(* is left out.                                                            *)
(*                                                                         *)
(* The asynchronous trainers save the queue in their checkpoints.  A crash *)
(* and the start from the last checkpoint are one step, Resume: nothing is *)
(* left of the process.  A crash before the first checkpoint is a new run. *)
(***************************************************************************)
EXTENDS Integers, FiniteSets, FiniteSetsExt

CONSTANTS
    Prompts,      \* uids of the prompt groups
    Configs,      \* configurations the run is started with, see ConfigType
    Sessions,     \* rollout.n
    Threshold,    \* sampler.max_off_policy_threshold
    TotalSteps,   \* total_training_steps
    MaxCredit,    \* bound: no uniform group comes out while so many refills are owed
    MaxResumes    \* bound on crashes

ConfigType ==
    [async: BOOLEAN,         \* ReplayBufferAsync rather than ReplayBuffer
     drop: BOOLEAN,          \* max_off_policy_strategy "drop", else "wait"
     dapo: BOOLEAN,          \* filter_groups_metric is set
     refillFailed: BOOLEAN,  \* sync_refill_failed_groups
     warmup: Nat,            \* num_warmup_batches (0 when sync)
     syncStep: Nat \ {0},    \* parameter_sync_step (1 when sync)
     inflightBatches: Nat \ {0},   \* max_inflight_gen_batches
     trainBatch: Nat \ {0},  \* data.train_batch_size
     saveFreq: Nat,          \* trainer.save_freq
     maySkip: BOOLEAN,       \* its agent loop may return no output for a session
     tqSaves: BOOLEAN]       \* _tq_supports_checkpoint, and not sync

ASSUME ConfigAssumption ==
    /\ IsFiniteSet(Prompts)
    /\ {Sessions, Threshold} \subseteq Nat \ {0}
    /\ {TotalSteps, MaxCredit, MaxResumes} \subseteq Nat
    /\ Configs \subseteq ConfigType
    /\ \A c \in Configs :
        /\ c.trainBatch % c.syncStep = 0
        /\ ~c.async => c.warmup = 0 /\ c.syncStep = 1 /\ ~c.tqSaves

VARIABLES
    conf,         \* the configuration of this run
    status,       \* status tag of each prompt key, or "none"
    step,         \* its global_steps tag
    left,         \* sessions of the group still being generated
    traj,         \* trajectories of the group in the queue
    silent,       \* sessions of the group that ended without an output
    uniform,      \* finished groups whose scores are all equal
    pc,           \* where the trainer is
    globalSteps,  \* trainer.global_steps
    trigger,      \* local_trigger_step
    toAdd,        \* batches to submit before the next sample
    snap,         \* sample's snapshot of the status tags
    credit,       \* refill_credit of the running sample
    draining,     \* draining of the running sample
    batch,        \* groups sampled in this step, trajectories still queued
    disk,         \* the last checkpoint
    warmups,      \* warm-ups the prompts in the queue stem from
    resumes       \* crashes so far

queueVars   == <<status, step, left, traj, silent, uniform>>
sampleVars  == <<snap, credit, draining>>
trainerVars == <<globalSteps, trigger, toAdd, batch>>
crashVars   == <<disk, warmups, resumes>>
vars == <<conf, queueVars, pc, sampleVars, trainerVars, crashVars>>

Statuses == {"none", "pending", "running", "finished", "failure"}
Steps    == 0 .. TotalSteps + 1

TypeOK ==
    /\ conf \in Configs
    /\ status \in [Prompts -> Statuses]
    /\ step \in [Prompts -> Steps]
    /\ left \in [Prompts -> 0 .. Sessions]
    /\ traj \in [Prompts -> 0 .. Sessions]
    /\ silent \in [Prompts -> 0 .. Sessions]
    /\ uniform \subseteq Prompts
    /\ pc \in {"add", "poll", "act", "train", "saved", "done", "failed"}
    /\ globalSteps \in Steps \ {0}
    /\ trigger \in 0 .. conf.syncStep - 1
    /\ toAdd \in 0 .. conf.warmup + 1
    /\ snap \in [Prompts -> Statuses]
    /\ credit \in Nat /\ draining \in BOOLEAN
    /\ batch \subseteq Prompts
    /\ disk \in [globalSteps: Steps, status: [Prompts -> Statuses], step: [Prompts -> Steps],
                 traj: [Prompts -> 0 .. Sessions], silent: [Prompts -> 0 .. Sessions],
                 uniform: SUBSET Prompts, warmups: Nat]
    /\ warmups \in 1 .. resumes + 1 /\ resumes \in 0 .. MaxResumes

NoSnapshot == [u \in Prompts |-> "none"]

(* A checkpoint of the step n without a queue; n = 0: there is none.        *)
Bare(n) == [globalSteps |-> n, status |-> NoSnapshot, step |-> [u \in Prompts |-> 0],
            traj |-> [u \in Prompts |-> 0], silent |-> [u \in Prompts |-> 0],
            uniform |-> {}, warmups |-> 0]

(* fit, up to the warm-up batches of on_train_begin, which are added like   *)
(* the batch of the first step.                                             *)
Init ==
    /\ conf \in Configs
    /\ status = [u \in Prompts |-> "none"]
    /\ step = [u \in Prompts |-> 0]
    /\ left = [u \in Prompts |-> 0]
    /\ traj = [u \in Prompts |-> 0]
    /\ silent = [u \in Prompts |-> 0]
    /\ uniform = {}
    /\ pc = IF TotalSteps = 0 THEN "done" ELSE "add"
    /\ globalSteps = 1 /\ trigger = 0
    /\ toAdd = conf.warmup + 1
    /\ snap = NoSnapshot /\ credit = 0 /\ draining = FALSE
    /\ batch = {}
    /\ disk = Bare(0) /\ warmups = 1 /\ resumes = 0

-----------------------------------------------------------------------------
(* The queue.                                                               *)

With(state) == {u \in Prompts : status[u] \in state}
Live        == With(Statuses \ {"none"})
InFlight    == With({"pending", "running"})
Span(u)     == globalSteps - step[u] + 1

(* Uids nothing in the queue bears: a fresh uuid4 is one of them.           *)
Unused == {u \in Prompts \ batch : status[u] = "none" /\ traj[u] = 0}

(* _clear_groups of the groups out, then prompts in are submitted as        *)
(* pending under the present global_steps.                                  *)
Exchange(out, in) ==
    /\ status' = [u \in Prompts |-> IF u \in in THEN "pending"
                                    ELSE IF u \in out THEN "none" ELSE status[u]]
    /\ step' = [u \in Prompts |-> IF u \in in THEN globalSteps
                                  ELSE IF u \in out THEN 0 ELSE step[u]]
    /\ left' = [u \in Prompts |-> IF u \in in THEN Sessions ELSE left[u]]
    /\ traj' = [u \in Prompts |-> IF u \in out THEN 0 ELSE traj[u]]
    /\ silent' = [u \in Prompts |-> IF u \in out THEN 0 ELSE silent[u]]
    /\ uniform' = uniform \ out

(* n fresh prompts replace the groups out, whose uids are free again.       *)
Replace(out, n) == \E in \in kSubset(n, Unused \cup out) : Exchange(out, in)

-----------------------------------------------------------------------------
(* An agent loop worker on one prompt group: _run_prompt.                   *)

Start(u) ==
    /\ status[u] = "pending"
    /\ status' = [status EXCEPT ![u] = "running"]
    /\ UNCHANGED <<conf, step, left, traj, silent, uniform, pc,
                   sampleVars, trainerVars, crashVars>>

(* A session writes its trajectory, returns without one as its agent loop   *)
(* had no output, or ends in an error.                                      *)
EndSession(u, how) ==
    /\ status[u] # "pending" /\ left[u] > 0
    /\ how = "empty" => conf.maySkip
    /\ left' = [left EXCEPT ![u] = @ - 1]
    /\ traj' = [traj EXCEPT ![u] = @ + IF how = "written" THEN 1 ELSE 0]
    /\ silent' = [silent EXCEPT ![u] = @ + IF how = "empty" THEN 1 ELSE 0]
    /\ UNCHANGED <<conf, status, step, uniform, pc, sampleVars, trainerVars, crashVars>>

(* No session of the group has raised.                                      *)
NoError(u) == traj[u] + silent[u] = Sessions

(* Mutant...: plausible defects of the definition they precede, used by no  *)
(* specification.                                                           *)

(* The terminal status is published while a sibling session still runs; the *)
(* sibling writes afterwards.                                               *)
MutantSettleEarly(u, same) ==
    /\ status[u] = "running" /\ left[u] <= 1
    /\ same => NoError(u) /\ traj[u] > 1 /\ credit < MaxCredit
    /\ status' = [status EXCEPT ![u] = IF NoError(u) THEN "finished" ELSE "failure"]
    /\ uniform' = IF same THEN uniform \cup {u} ELSE uniform
    /\ UNCHANGED <<conf, step, left, traj, silent, pc, sampleVars, trainerVars, crashVars>>

(* After every session has settled the group's status is published: it is   *)
(* finished also if sessions left no trajectory, even if none did.          *)
Settle(u, same) ==
    /\ status[u] = "running" /\ left[u] = 0
    /\ same => NoError(u) /\ traj[u] > 1 /\ credit < MaxCredit
    /\ status' = [status EXCEPT ![u] = IF NoError(u) THEN "finished" ELSE "failure"]
    /\ uniform' = IF same THEN uniform \cup {u} ELSE uniform
    /\ UNCHANGED <<conf, step, left, traj, silent, pc, sampleVars, trainerVars, crashVars>>

Worker(u) ==
    \/ Start(u)
    \/ \E how \in {"written", "empty", "raised"} : EndSession(u, how)
    \/ \E same \in BOOLEAN : Settle(u, same)

-----------------------------------------------------------------------------
(* What sample reads off its snapshot.                                      *)

Seen(states) == {u \in Prompts : snap[u] \in states}
SeenInFlight == Seen({"pending", "running"})

(* _stale_terminal_keys.                                                    *)
Stale ==
    IF conf.async /\ conf.drop
    THEN {u \in Seen({"finished"}) : Span(u) > Threshold} ELSE {}

(* _dapo_filtered_keys, ...                                                 *)
Filtered == IF conf.dapo THEN Seen({"finished"}) \cap uniform ELSE {}

(* ... and the finished groups without a trajectory to read the metric from.*)
MissingMetric == IF conf.dapo THEN {u \in Seen({"finished"}) : traj[u] = 0} ELSE {}

(* Partial groups are kept, as the synchronous sampler keeps them.          *)
MutantFailedKeepsPartial ==
    {u \in Seen({"failure"}) : traj[u] = 0 /\ (conf.async \/ conf.refillFailed)}

(* Groups that failed, as far as _terminal_eviction_reasons evicts them.    *)
Failed ==
    IF conf.async THEN Seen({"failure"})
    ELSE IF conf.refillFailed THEN {u \in Seen({"failure"}) : traj[u] = 0}
    ELSE {}

Evicted    == Stale \cup Filtered \cup Failed
Sampleable == Seen({"finished", "failure"}) \ Evicted

BatchSize == conf.trainBatch \div conf.syncStep
Enough    == Cardinality(Sampleable) >= BatchSize

(* Prompts are waited for when it is too late, or even when they are done.  *)
MutantHeldBackAfterThreshold ==
    conf.async /\ ~conf.drop /\ \E u \in SeenInFlight : Span(u) > Threshold

MutantHeldBackByTerminal ==
    conf.async /\ ~conf.drop /\ \E u \in Seen(Statuses \ {"none"}) : Span(u) >= Threshold

(* The "wait" strategy of _has_enough_samples.                              *)
HeldBack ==
    conf.async /\ ~conf.drop /\ \E u \in SeenInFlight : Span(u) >= Threshold

(* _select_prompt_uids: the oldest groups.                                  *)
Oldest(S) ==
    /\ S \in kSubset(BatchSize, Sampleable)
    /\ \A u \in S, v \in Sampleable \ S : step[u] <= step[v]

-----------------------------------------------------------------------------
(* The trainer.                                                             *)

(* _add_batch_to_generate: once a step, and for each warm-up batch.         *)
AddBatch ==
    /\ pc = "add"
    /\ Replace({}, conf.trainBatch)
    /\ toAdd' = toAdd - 1
    /\ pc' = IF toAdd = 1 THEN "poll" ELSE "add"
    /\ UNCHANGED <<conf, sampleVars, globalSteps, trigger, batch, crashVars>>

(* _sync_metadata_from_transfer_queue.                                      *)
Poll ==
    /\ pc = "poll"
    /\ snap' = status
    /\ pc' = "act"
    /\ UNCHANGED <<conf, queueVars, credit, draining, trainerVars, crashVars>>

(* The groups S are taken out of the queue, the groups out are cleared; the *)
(* trajectories of S stay until the step ends.  With no trajectory at all a *)
(* synchronous sampler raises, and the assertion of _balance_batch fails on *)
(* the empty batch of an asynchronous one.                                  *)
Select(S, out) ==
    /\ status' = [u \in Prompts |-> IF u \in S \cup out THEN "none" ELSE status[u]]
    /\ step' = [u \in Prompts |-> IF u \in out THEN 0 ELSE step[u]]
    /\ traj' = [u \in Prompts |-> IF u \in out THEN 0 ELSE traj[u]]
    /\ silent' = [u \in Prompts |-> IF u \in out THEN 0 ELSE silent[u]]
    /\ uniform' = uniform \ (S \cup out)
    /\ batch' = batch \cup S
    /\ credit' = 0 /\ draining' = FALSE
    /\ pc' = IF \A u \in S : traj[u] = 0 THEN "failed" ELSE "train"
    /\ snap' = NoSnapshot
    /\ UNCHANGED <<conf, left, globalSteps, trigger, toAdd, crashVars>>

(* A finished group without the metric: RuntimeError of _dapo_filtered_keys.*)
RaiseMissingMetric ==
    /\ pc = "act" /\ MissingMetric # {}
    /\ pc' = "failed"
    /\ snap' = NoSnapshot /\ credit' = 0 /\ draining' = FALSE
    /\ UNCHANGED <<conf, queueVars, trainerVars, crashVars>>

WaitForNextPoll(out, newCredit, drain) ==
    /\ pc' = "poll"
    /\ Exchange(out, {})
    /\ credit' = newCredit /\ draining' = drain /\ snap' = NoSnapshot
    /\ UNCHANGED <<conf, trainerVars, crashVars>>

Refill(out, n, newCredit) ==
    /\ pc' = "poll"
    /\ Replace(out, n)
    /\ credit' = newCredit /\ snap' = NoSnapshot
    /\ UNCHANGED <<conf, draining, trainerVars, crashVars>>

(* Failed groups are evicted without being replaced.                        *)
MutantSampleAsyncRefillsLess ==
    /\ pc = "act" /\ conf.async /\ MissingMetric = {}
    /\ \/ /\ Evicted # {}
          /\ Refill(Evicted, Cardinality(Stale \cup Filtered), credit)
       \/ /\ Evicted = {} /\ Enough /\ ~HeldBack
          /\ \E S \in SUBSET Sampleable : Oldest(S) /\ Select(S, {})
       \/ /\ Evicted = {} /\ (~Enough \/ HeldBack)
          /\ WaitForNextPoll({}, credit, draining)

(* ReplayBufferAsync.sample: what is evicted is replaced one for one.       *)
SampleAsync ==
    /\ pc = "act" /\ conf.async /\ MissingMetric = {}
    /\ \/ /\ Evicted # {}
          /\ Refill(Evicted, Cardinality(Evicted), credit)
       \/ /\ Evicted = {} /\ Enough /\ ~HeldBack
          /\ \E S \in SUBSET Sampleable : Oldest(S) /\ Select(S, {})
       \/ /\ Evicted = {} /\ (~Enough \/ HeldBack)
          /\ WaitForNextPoll({}, credit, draining)

(* ReplayBuffer.sample without group filtering.                             *)
SampleSync ==
    /\ pc = "act" /\ ~conf.async /\ ~conf.dapo
    /\ \/ /\ Failed # {} /\ ~Enough
          /\ Refill(Failed, Cardinality(Failed), credit)
       \/ /\ Enough
          /\ \E S \in SUBSET Sampleable : Oldest(S) /\ Select(S, Failed)
       \/ /\ Failed = {} /\ ~Enough
          /\ WaitForNextPoll({}, credit, draining)

(* Room for speculative prompts under max_inflight_gen_batches.             *)
Slots == Max({0, conf.inflightBatches * conf.trainBatch - Cardinality(SeenInFlight)})

(* Evicted failures earn no refill.                                         *)
MutantCreditForgetsFailures == credit + 2 * Cardinality(Filtered)

(* Two refills for each filtered group, one for each failed one.            *)
Credit == credit + 2 * Cardinality(Filtered) + Cardinality(Failed)

(* The surplus stays for the next step.                                     *)
MutantSelectDrainedKeepsSurplus ==
    \E S \in SUBSET Sampleable : Oldest(S) /\ Select(S, Evicted)

(* The oldest groups are taken, the surplus is discarded.                   *)
SelectDrained ==
    \E S \in SUBSET Sampleable : Oldest(S) /\ Select(S, (Sampleable \ S) \cup Evicted)

(* ReplayBuffer.sample with group filtering: two prompts for each filtered  *)
(* group, as slots become free, until there are enough; then what still     *)
(* runs is waited for.                                                      *)
SampleSyncDapo ==
    /\ pc = "act" /\ ~conf.async /\ conf.dapo /\ MissingMetric = {}
    /\ \/ /\ Enough /\ SeenInFlight = {}
          /\ SelectDrained
       \/ /\ Enough /\ SeenInFlight # {}
          /\ WaitForNextPoll(Evicted, 0, TRUE)
       \/ /\ ~Enough /\ ~draining
          /\ LET n == Min({Credit, Slots}) IN
             \/ n > 0 /\ Refill(Evicted, n, Credit - n)
             \/ n = 0 /\ WaitForNextPoll(Evicted, Credit, FALSE)
       \/ /\ ~Enough /\ draining
          /\ WaitForNextPoll(Evicted, credit, TRUE)

(* The next mini-batch of the step is sampled, ...                          *)
NextTrigger ==
    /\ pc = "train" /\ trigger < conf.syncStep - 1
    /\ trigger' = trigger + 1
    /\ pc' = "poll"
    /\ UNCHANGED <<conf, queueVars, sampleVars, globalSteps, toAdd, batch, crashVars>>

(* ... or the step is over.  _save_checkpoint then saves the queue as it    *)
(* is, with the trajectories just trained on; the workers go on.            *)
SaveDue ==
    conf.saveFreq > 0 /\ (globalSteps = TotalSteps \/ globalSteps % conf.saveFreq = 0)

Save ==
    /\ pc = "train" /\ trigger = conf.syncStep - 1 /\ SaveDue
    /\ disk' = IF ~conf.tqSaves THEN Bare(globalSteps)
               ELSE [globalSteps |-> globalSteps, status |-> status,
                     step |-> [u \in Prompts |-> IF u \in Live THEN step[u] ELSE 0],
                     silent |-> [u \in Prompts |-> IF u \in Live THEN silent[u] ELSE 0],
                     traj |-> traj, uniform |-> uniform, warmups |-> warmups]
    /\ pc' = "saved"
    /\ UNCHANGED <<conf, queueVars, sampleVars, trainerVars, warmups, resumes>>

(* The step ends, and the trained trajectories are cleared.                 *)
EndStep ==
    /\ \/ pc = "train" /\ trigger = conf.syncStep - 1 /\ ~SaveDue
       \/ pc = "saved"
    /\ traj' = [u \in Prompts |-> IF u \in batch THEN 0 ELSE traj[u]]
    /\ silent' = [u \in Prompts |-> IF u \in batch THEN 0 ELSE silent[u]]
    /\ step' = [u \in Prompts |-> IF u \in batch THEN 0 ELSE step[u]]
    /\ batch' = {}
    /\ trigger' = 0
    /\ globalSteps' = globalSteps + 1
    /\ toAdd' = 1
    /\ pc' = IF globalSteps = TotalSteps THEN "done" ELSE "add"
    /\ UNCHANGED <<conf, status, left, uniform, sampleVars, crashVars>>

(* The trajectories of a group that is issued again are kept.               *)
MutantRestored(again) == disk.traj

(* Groups in flight are issued again, without their old trajectories.       *)
Restored(again) == [u \in Prompts |-> IF u \in again THEN 0 ELSE disk.traj[u]]

(* _load_checkpoint, _reissue_inflight_prompts, and the warm-up that fit    *)
(* begins with in any case: what was not in flight is as it was saved.      *)
Resume ==
    /\ disk.globalSteps > 0 /\ pc \notin {"done", "failed"} /\ resumes < MaxResumes
    /\ LET again == {u \in Prompts : disk.status[u] \in {"pending", "running"}}
       IN  /\ status' = [u \in Prompts |-> IF u \in again THEN "pending" ELSE disk.status[u]]
           /\ step' = [u \in Prompts |-> IF u \in again THEN disk.globalSteps + 1 ELSE disk.step[u]]
           /\ left' = [u \in Prompts |-> IF u \in again THEN Sessions ELSE 0]
           /\ traj' = Restored(again)
           /\ silent' = [u \in Prompts |-> IF u \in again THEN 0 ELSE disk.silent[u]]
    /\ uniform' = disk.uniform
    /\ globalSteps' = disk.globalSteps + 1 /\ trigger' = 0
    /\ toAdd' = conf.warmup + 1
    /\ pc' = IF disk.globalSteps = TotalSteps THEN "done" ELSE "add"
    /\ snap' = NoSnapshot /\ credit' = 0 /\ draining' = FALSE /\ batch' = {}
    /\ warmups' = disk.warmups + 1 /\ resumes' = resumes + 1
    /\ UNCHANGED <<conf, disk>>

Trainer ==
    \/ AddBatch \/ Poll \/ NextTrigger \/ Save \/ EndStep
    \/ SampleAsync \/ SampleSync \/ SampleSyncDapo \/ RaiseMissingMetric

Stopped == pc \in {"done", "failed"} /\ UNCHANGED vars

Next == Trainer \/ Resume \/ Stopped \/ \E u \in Prompts : Worker(u)

Spec == Init /\ [][Next]_vars

Fairness == WF_vars(Trainer) /\ \A u \in Prompts : WF_vars(Worker(u))

FairSpec == Spec /\ Fairness

-----------------------------------------------------------------------------
(* Safety.                                                                  *)

Sampling == pc \in {"poll", "act"}

(* Asynchronous sampling neither loses nor piles up prompts: whatever mix   *)
(* of stale, filtered and failed groups is evicted, and however these sets  *)
(* overlap, as many groups stay queued as warm-up and batches put there.    *)
(* A resume, which restores the queue, warms it up once more.               *)
StockIsConstant ==
    conf.async /\ Sampling =>
        Cardinality(Live) = (conf.warmup * warmups + 1) * conf.trainBatch - trigger * BatchSize

(* A synchronous sample never runs dry: the groups in the queue and the     *)
(* refills it still has to make can fill the batch, and once it drains it   *)
(* has the whole batch already.                                             *)
BatchCanFill ==
    ~conf.async /\ Sampling =>
        /\ Cardinality(Live) + credit >= conf.trainBatch
        /\ draining => Cardinality(With({"finished", "failure"}) \ uniform) >= conf.trainBatch

(* "Sync remains bufferless": when a synchronous step trains, nothing is    *)
(* left in the queue, in flight or finished, that a later step -- with      *)
(* other weights -- could pick up.                                          *)
SyncIsBufferless == ~conf.async /\ pc = "train" => Live = {}

(* Staleness.  Under "drop" no group spanning more than                     *)
(* max_off_policy_threshold versions is trained on, the assertion at the    *)
(* end of ReplayBufferAsync.sample.  Under "wait" no prompt in flight falls *)
(* further behind: sampling holds the trainer back until the oldest of them *)
(* are done.                                                                *)
SpansWithinThreshold ==
    conf.async /\ pc # "done" =>
        \A u \in IF conf.drop THEN batch ELSE InFlight : Span(u) <= Threshold

(* An asynchronous batch holds no broken groups: each of their sessions has *)
(* its trajectory or had no output, none has raised or still runs, also     *)
(* when the group ended after the poll that saw it; with group filtering    *)
(* each has a trajectory to tell whether it is worth training on.           *)
TrainedGroupsSettled ==
    conf.async =>
        \A u \in batch :
            /\ traj[u] + silent[u] = Sessions
            /\ conf.dapo => traj[u] > 0

(* No session writes into a group after it was evicted or discarded: every  *)
(* trajectory in the queue belongs to a group still there or being trained, *)
(* but for those of the batch that was trained when the queue was saved.    *)
Leaked == {u \in Prompts : traj[u] > 0 /\ u \notin Live \cup batch}

NoLeakedTrajectories ==
    Cardinality(Leaked) <= IF conf.tqSaves THEN resumes * conf.trainBatch ELSE 0

-----------------------------------------------------------------------------
(* Liveness.                                                                *)

(* sample returns, unless groups keep coming out uniform or failed: no mix  *)
(* of credit, slots, draining and waiting blocks it for ever.               *)
Unlucky == \E u \in Prompts : \/ EndSession(u, "raised") \/ Settle(u, TRUE)

SampleReturns ==
    \/ []<><<Unlucky>>_vars
    \/ <>[](pc \in {"done", "failed"})

=============================================================================
