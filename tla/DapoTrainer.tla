----------------------------- MODULE DapoTrainer -----------------------------
(***************************************************************************)
(* RayDAPOTrainer.fit of recipe/dapo/dapo_ray_trainer.py, with the saving  *)
(* (module CheckpointStore) and loading of checkpoints it inherits from    *)
(* RayPPOTrainer.  The driver is one thread; what makes it hard is that it *)
(* may die anywhere and be started again, and that dynamic sampling makes  *)
(* the number of dataloader batches per training step vary.                *)
(*                                                                         *)
(* A dataloader batch yields some number of prompts whose responses differ *)
(* in score (kept) -- any number up to GenBatch.  Prompts, responses,      *)
(* scores and weights are not modelled: weights are the number of actor    *)
(* updates they have seen.                                                 *)
(***************************************************************************)
EXTENDS CheckpointStore

CONSTANTS
    LoaderLen,      \* len(train_dataloader)
    TotalEpochs,    \* trainer.total_epochs
    TotalSteps,     \* total_training_steps
    TrainBatch,     \* data.train_batch_size, in prompts
    GenBatch,       \* prompts in a dataloader batch
    FilterGroups,   \* algorithm.filter_groups.enable
    MaxGenBatches,  \* filter_groups.max_num_gen_batches, 0 for no limit
    SaveFreq,       \* trainer.save_freq
    CriticWarmup,   \* trainer.critic_warmup
    EsiExpires,     \* may an ESI instance announce its expiration?
    MaxCrashes      \* bound: crashes of the driver

ASSUME LoaderAssumption ==
    /\ {LoaderLen, TotalEpochs, TrainBatch, GenBatch} \subseteq Nat \ {0}
    /\ {TotalSteps, MaxGenBatches, SaveFreq, CriticWarmup, MaxCrashes} \subseteq Nat
    /\ FilterGroups \in BOOLEAN /\ EsiExpires \in BOOLEAN
    /\ MaxStep >= TotalSteps + MaxCrashes + 1

VARIABLES
    pc,             \* where the driver is in fit
    globalSteps,    \* self.global_steps
    epoch,          \* the epoch of the outer loop
    pos,            \* batches the dataloader's current pass has yielded
    kept,           \* num_prompt_in_batch
    numGen,         \* num_gen_batches
    weights,        \* updates the actor's weights have seen
    rollout,        \* updates the rollout replicas' weights have seen
    awake,          \* the replicas hold weights and KV cache
    crashes,        \* crashes so far
    \* history, for the properties
    consumed,       \* dataloader batches behind the present weights
    consumedAt,     \* the value of consumed in each checkpoint
    skippedAt       \* dataloader position a resume chose not to restore

loopVars    == <<globalSteps, epoch, pos, kept, numGen>>
modelVars   == <<weights, rollout, awake>>
historyVars == <<crashes, consumed, consumedAt, skippedAt>>

vars == <<pc, loopVars, modelVars, historyVars, storeVars>>

NoSkip == -1

TypeOK ==
    /\ StoreTypeOK
    /\ pc \in {"load", "epoch", "next", "generate", "update", "save", "sync",
               "endStep", "final", "done", "failed"}
    /\ globalSteps \in Nat /\ epoch \in Nat
    /\ pos \in 0 .. LoaderLen
    /\ kept \in Nat /\ numGen \in Nat
    /\ weights \in Nat /\ rollout \in Nat /\ awake \in BOOLEAN
    /\ crashes \in 0 .. MaxCrashes
    /\ consumed \in Nat /\ consumedAt \in [Steps -> Nat]
    /\ skippedAt \in Nat \cup {NoSkip}

Init ==
    /\ StoreInit
    /\ pc = "load"
    /\ globalSteps = 0 /\ epoch = 0 /\ pos = 0 /\ kept = 0 /\ numGen = 0
    /\ weights = 0 /\ rollout = 0 /\ awake = FALSE
    /\ crashes = 0 /\ consumed = 0
    /\ consumedAt = [k \in Steps |-> 0]
    /\ skippedAt = NoSkip

-----------------------------------------------------------------------------
(* _load_checkpoint, the first update_weights, and fit up to the loop.      *)

AtEpochBoundary(k) == k % LoaderLen = 0

(* Mutant...: plausible defects of the definition they precede, used by no  *)
(* specification.                                                           *)

(* The step that was saved is trained once more.                            *)
MutantStartAtSameStep(k, w, p) ==
    /\ globalSteps' = IF k = 0 THEN 1 ELSE k
    /\ epoch' = k \div LoaderLen
    /\ pos' = p
    /\ weights' = w
    /\ rollout' = w
    /\ awake' = TRUE
    /\ kept' = 0 /\ numGen' = 0
    /\ pc' = "epoch"
    /\ UNCHANGED <<storeVars, crashes, consumedAt>>

(* The loop starts from step k with the dataloader at p.  fit advances      *)
(* global_steps before it computes current_epoch from it.                   *)
StartAt(k, w, p) ==
    /\ globalSteps' = k + 1
    /\ epoch' = (k + 1) \div LoaderLen
    /\ pos' = p
    /\ weights' = w
    /\ rollout' = w
    /\ awake' = TRUE
    /\ kept' = 0 /\ numGen' = 0
    /\ pc' = "epoch"
    /\ UNCHANGED <<storeVars, crashes, consumedAt>>

LoadNothing ==
    /\ pc = "load" /\ tracker # Torn
    /\ FoundStep = 0
    /\ StartAt(0, 0, 0)
    /\ consumed' = 0
    /\ skippedAt' = NoSkip

Resume ==
    /\ pc = "load" /\ tracker # Torn
    /\ FoundStep # 0 /\ actor[FoundStep] # Missing
    /\ LET k == FoundStep
           restored == data[k] # Missing /\ ~AtEpochBoundary(k)
       IN /\ StartAt(k, actor[k], IF restored THEN data[k] ELSE 0)
          /\ consumed' = consumedAt[k]
          /\ skippedAt' = IF data[k] # Missing /\ ~restored THEN data[k] ELSE NoSkip

(* int() of an empty tracker, or an actor directory that is gone: every     *)
(* start fails.                                                             *)
LoadFails ==
    /\ pc = "load"
    /\ tracker = Torn \/ (FoundStep # 0 /\ actor[FoundStep] = Missing)
    /\ pc' = "failed"
    /\ UNCHANGED <<loopVars, modelVars, historyVars, storeVars>>

-----------------------------------------------------------------------------
(* The loop.                                                                *)

IsLastStep == globalSteps >= TotalSteps

(* for epoch in range(current_epoch, total_epochs): the dataloader starts   *)
(* its pass at the restored position, once.                                 *)
BeginEpoch ==
    /\ pc = "epoch"
    /\ pc' = IF epoch < TotalEpochs THEN "next" ELSE "final"
    /\ UNCHANGED <<loopVars, modelVars, historyVars, storeVars>>

(* The end of the dataloader not noticed.                                   *)
MutantNextBatchPastEnd ==
    /\ pc = "next"
    /\ pos' = pos + 1
    /\ consumed' = consumed + 1
    /\ pc' = "generate"
    /\ UNCHANGED <<globalSteps, epoch, kept, numGen, modelVars,
                   crashes, consumedAt, skippedAt, storeVars>>

NextBatch ==
    /\ pc = "next"
    /\ pos < LoaderLen
    /\ pos' = pos + 1
    /\ consumed' = consumed + 1
    /\ pc' = "generate"
    /\ UNCHANGED <<globalSteps, epoch, kept, numGen, modelVars,
                   crashes, consumedAt, skippedAt, storeVars>>

(* The next epoch does not start the dataloader again.                      *)
MutantEndOfPassKeepsPosition ==
    /\ pc = "next"
    /\ pos = LoaderLen
    /\ epoch' = epoch + 1
    /\ pc' = "epoch"
    /\ UNCHANGED <<globalSteps, pos, kept, numGen, modelVars, historyVars, storeVars>>

(* The next epoch iterates the dataloader anew.  After the last one it stays*)
(* exhausted: that is the state the save after the loop stores.             *)
EndOfPass ==
    /\ pc = "next"
    /\ pos = LoaderLen
    /\ epoch' = epoch + 1
    /\ pos' = IF epoch' < TotalEpochs THEN 0 ELSE pos
    /\ pc' = "epoch"
    /\ UNCHANGED <<globalSteps, kept, numGen, modelVars, historyVars, storeVars>>

(* Generation, reward and the filter on groups of equal score: n prompts of *)
(* this batch are kept.  Too few so far: take another dataloader batch, or  *)
(* raise ValueError when max_num_gen_batches have been tried.               *)
Generate(n) ==
    /\ pc = "generate"
    /\ numGen' = numGen + 1
    /\ kept' = IF FilterGroups THEN kept + n ELSE kept
    /\ pc' = IF ~FilterGroups \/ kept + n >= TrainBatch THEN "update"
             ELSE IF MaxGenBatches = 0 \/ numGen + 1 < MaxGenBatches THEN "next"
             ELSE "failed"
    /\ UNCHANGED <<globalSteps, epoch, pos, modelVars, historyVars, storeVars>>

(* Saving at the end only, or only in between.                              *)
MutantUpdateSavesAtEnd(esi) ==
    /\ pc = "update"
    /\ weights' = weights + 1
    /\ pc' = IF SaveFreq > 0 /\ (IsLastStep \/ esi) THEN "save" ELSE "sync"
    /\ awake' = FALSE
    /\ UNCHANGED <<rollout, loopVars, historyVars, storeVars>>

MutantUpdateSavesInBetween(esi) ==
    /\ pc = "update"
    /\ weights' = weights + 1
    /\ pc' = IF SaveFreq > 0 /\ (globalSteps % SaveFreq = 0 \/ esi) THEN "save" ELSE "sync"
    /\ awake' = FALSE
    /\ UNCHANGED <<rollout, loopVars, historyVars, storeVars>>

(* sleep_replicas, then the actor's update unless the critic is warming up, *)
(* then the decision to save.                                               *)
Update(esi) ==
    /\ pc = "update"
    /\ IF CriticWarmup <= globalSteps
       THEN /\ weights' = weights + 1
            /\ pc' = IF SaveFreq > 0 /\ (IsLastStep \/ globalSteps % SaveFreq = 0 \/ esi)
                     THEN "save" ELSE "sync"
       ELSE /\ UNCHANGED weights
            /\ pc' = "endStep"
    /\ awake' = FALSE
    /\ UNCHANGED <<rollout, loopVars, historyVars, storeVars>>

(* _save_checkpoint under the present global_steps: it begins, ...          *)
BeginSave ==
    /\ pc \in {"save", "final"}
    /\ cur # globalSteps
    /\ pc = "final" => globalSteps \notin dirs
    /\ EnsureCapacity(globalSteps)
    /\ UNCHANGED <<pc, loopVars, modelVars, historyVars>>

(* ... writes what is left to write, ...                                    *)
ContinueSave ==
    /\ pc \in {"save", "final"}
    /\ SaveStep(weights, pos)
    /\ consumedAt' = IF spc = "data" THEN [consumedAt EXCEPT ![cur] = consumed]
                     ELSE consumedAt
    /\ UNCHANGED <<pc, loopVars, modelVars, crashes, consumed, skippedAt>>

(* ... and returns.                                                         *)
EndSave ==
    /\ pc \in {"save", "final"}
    /\ spc = "idle" /\ cur = globalSteps
    /\ pc' = IF pc = "save" THEN "sync" ELSE "done"
    /\ UNCHANGED <<loopVars, modelVars, historyVars, storeVars>>

(* After the loop: "check if last step checkpint exists".                   *)
FinalExists ==
    /\ pc = "final"
    /\ spc = "idle" /\ cur # globalSteps
    /\ globalSteps \in dirs
    /\ pc' = "done"
    /\ UNCHANGED <<loopVars, modelVars, historyVars, storeVars>>

(* The replicas are woken with the weights they had.                         *)
MutantSyncNothing ==
    /\ pc = "sync"
    /\ awake' = TRUE
    /\ pc' = "endStep"
    /\ UNCHANGED <<weights, rollout, loopVars, historyVars, storeVars>>

(* checkpoint_manager.update_weights.                                       *)
SyncWeights ==
    /\ pc = "sync"
    /\ rollout' = weights
    /\ awake' = TRUE
    /\ pc' = "endStep"
    /\ UNCHANGED <<weights, loopVars, historyVars, storeVars>>

EndStep ==
    /\ pc = "endStep"
    /\ kept' = 0 /\ numGen' = 0
    /\ IF IsLastStep
       THEN pc' = "done" /\ UNCHANGED globalSteps
       ELSE pc' = "next" /\ globalSteps' = globalSteps + 1
    /\ UNCHANGED <<epoch, pos, modelVars, historyVars, storeVars>>

-----------------------------------------------------------------------------
(* The driver dies and is started again.                                    *)
Crash ==
    /\ crashes < MaxCrashes
    /\ pc \notin {"done", "failed", "load"}
    /\ crashes' = crashes + 1
    /\ pc' = "load"
    /\ awake' = FALSE
    /\ LoseMemory
    /\ UNCHANGED <<loopVars, weights, rollout, consumed, consumedAt, skippedAt>>

Stopped == pc \in {"done", "failed"} /\ UNCHANGED vars

Driver ==
    \/ LoadNothing \/ Resume \/ LoadFails
    \/ BeginEpoch \/ NextBatch \/ EndOfPass
    \/ \E n \in 0 .. GenBatch : Generate(n)
    \/ \E esi \in BOOLEAN : (esi => EsiExpires) /\ Update(esi)
    \/ BeginSave \/ ContinueSave \/ EndSave \/ FinalExists
    \/ SyncWeights \/ EndStep

Next == Driver \/ Crash \/ Stopped

Spec == Init /\ [][Next]_vars

-----------------------------------------------------------------------------
(* Safety.                                                                  *)

(* Generation is on-policy: the replicas hold the actor's present weights,  *)
(* whatever saves, resumes and multi-batch steps came before.               *)
RolloutsOnPolicy == pc = "generate" => rollout = weights

(* Rollout replicas are awake whenever something is generated or validated, *)
(* if there is no critic to warm up: only steps past the warm-up wake them. *)
ReplicasAwake == pc = "generate" => awake

(* However often the driver dies, at most SaveFreq updates are lost: the    *)
(* checkpoint a restart would load is never older than that.  The exception *)
(* is a crash that leaves an empty tracker: no restart loads anything then. *)
UpdatesInTracked == IF tracker \in Steps THEN actor[tracker] ELSE 0

LostWorkBounded ==
    SaveFreq > 0 /\ tracker # Torn /\ pc \notin {"load", "failed"}
        => weights - UpdatesInTracked <= SaveFreq

(* The loop keeps to what CheckpointStore relies on, through resumes, ESI   *)
(* saves, the save after the loop and a torn tracker: this module implements*)
(* the store's specification.                                               *)
ImplementsStore == StoreSpec

(* Message of _load_checkpoint: the dataloader state is skipped because "the*)
(* saved state marks the dataloader as exhausted".                          *)
SkippedStateIsExhausted == skippedAt # NoSkip => skippedAt = LoaderLen

(* docs/examples/config.rst: total_epochs is the number of epochs in        *)
(* training.  When the loop runs to its end, each epoch passed the whole    *)
(* dataloader.  Resumes break this (see SkippedStateIsExhausted): it is     *)
(* claimed of undisturbed runs only.                                        *)
EpochsAreComplete ==
    pc = "final" /\ crashes = 0 => consumed = TotalEpochs * LoaderLen

(* The checkpoint a finished run leaves holds its final weights, whether it *)
(* ended at the last step or after the last epoch.  (After a crash the save *)
(* after the loop may be skipped: see FinalExists.)                         *)
FinalWeightsSaved ==
    pc = "done" /\ SaveFreq > 0 /\ crashes = 0 => UpdatesInTracked = weights

=============================================================================
