----------------------------- MODULE FullyAsync -----------------------------
(***************************************************************************)
(* Fully asynchronous training (verl/experimental/fully_async_policy): the *)
(* FullyAsyncRollouter feeds prompts, generates a sample per task and puts *)
(* it into the MessageQueue; the FullyAsyncTrainer takes required samples  *)
(* per update, pushes its weights after sync updates and resets the        *)
(* rollouter's staleness budget.  A processor coroutine, a monitor and the *)
(* trainer's calls interleave at every await of the rollouter; its lock,   *)
(* the resume event and the cached staleness_samples are what they share.  *)
(*                                                                         *)
(* Samples are counted, not named; which server generates one is the       *)
(* matter of RolloutServing.  Validation, metrics and resuming from a      *)
(* checkpoint are left out.                                                *)
(***************************************************************************)
EXTENDS Integers

CONSTANTS
    Total,    \* total_rollout_steps
    FeedMax,  \* size of pending_queue
    Configs   \* configurations the run is started with, see ConfigType

ConfigType ==
    [required: Nat \ {0},  \* required_samples of one update
     sync: Nat \ {0},      \* trigger_parameter_sync_step
     max: Nat \ {0},       \* max_required_samples
     standalone: Nat,      \* concurrent samples of the standalone replicas
     hybrid: Nat,          \* and of the hybrid ones; 0: no dynamic scheduling
     fails: BOOLEAN,       \* one task of the run ends in an exception
     saveFreq: Nat]        \* trainer.save_freq

ASSUME ConfigAssumption ==
    /\ {Total, FeedMax} \subseteq Nat \ {0}
    /\ Configs \subseteq ConfigType
    /\ \A c \in Configs : c.max >= c.required * c.sync /\ c.standalone + c.hybrid > 0

VARIABLES
    conf,
    fed, taken,       \* entries put into and taken from pending_queue; number Total + 1 is None
    running, landed,  \* active tasks that generate; that have put their sample
    failed, lost,     \* active tasks that raised; samples that got lost with an exception
    queue, dropped,   \* the MessageQueue; samples it dropped
    staleness,        \* staleness_samples
    paused, resume,   \* paused; whether _resume_event is set
    lock,             \* who holds the rollouter's lock
    ppc, mpc,         \* the processor and the monitor coroutine
    tpc, got, need,   \* the trainer, its samples, the queue size it waits for
    local, updates,   \* local_trigger_step, updates of the actor so far
    synced, saved,    \* updates in the weights last pushed and last saved
    savedVersion,     \* last_ckpt_version
    counted,          \* active tasks that a running reset_staleness has counted
    active            \* is_hybrid_active

feedVars    == <<fed, taken>>
taskVars    == <<running, landed, failed, lost>>
queueVars   == <<queue, dropped>>
pauseVars   == <<staleness, paused, resume>>
trainerVars == <<tpc, got, need, local, updates, synced, saved, savedVersion, counted, active>>
vars == <<conf, feedVars, taskVars, queueVars, pauseVars, lock, ppc, mpc, trainerVars>>

Step       == conf.required * conf.sync
OnlyHybrid == conf.standalone = 0
Tasks      == running + landed + failed          \* len(active_tasks)
Version    == updates \div conf.sync             \* current_param_version
Stale      == staleness >= conf.max
Held       == IF ppc \in {"slot", "reap", "submit", "spin"} THEN 1 ELSE 0

(* The MessageQueue holds samples, the end signal None, and perhaps samples *)
(* that were put behind the signal.                                         *)
Queues == {q \in [ahead: Nat, ended: BOOLEAN, behind: Nat] : ~q.ended => q.behind = 0}
Empty  == [ahead |-> 0, ended |-> FALSE, behind |-> 0]
Samples(q) == q.ahead + q.behind
Length(q)  == Samples(q) + IF q.ended THEN 1 ELSE 0
Rest(q) == IF q.ahead > 0 THEN [q EXCEPT !.ahead = @ - 1]
                          ELSE [ahead |-> q.behind, ended |-> FALSE, behind |-> 0]
Extend(q, e) == IF e = "end" THEN [q EXCEPT !.ended = TRUE]
                ELSE IF q.ended THEN [q EXCEPT !.behind = @ + 1]
                ELSE [q EXCEPT !.ahead = @ + 1]
Full == Length(queue) >= conf.max

(* _update_max_concurrent_samples                                           *)
MaxConcurrent ==
    LET replicas == conf.standalone + IF active THEN conf.hybrid ELSE 0
    IN  IF replicas < conf.max THEN replicas ELSE conf.max

(* The rollouter's event loop turns: a loop without an await stops it.      *)
Turns == ppc # "spin"

TypeOK ==
    /\ conf \in Configs
    /\ fed \in 0 .. Total + 1 /\ taken \in 0 .. fed
    /\ {running, landed, failed, lost, dropped, staleness, counted} \subseteq Nat
    /\ queue \in Queues /\ Length(queue) <= conf.max
    /\ paused \in BOOLEAN /\ resume \in BOOLEAN /\ active \in BOOLEAN
    /\ lock \in {"free", "processor", "reset"}
    /\ ppc \in {"check", "decide", "park", "drain", "get", "slot", "reap", "submit",
                "ending", "reapEnd", "finish", "done", "spin"}
    /\ mpc \in {"sleep", "judge", "resume"}
    /\ tpc \in {"gate", "collect", "train", "sync", "reset", "counting", "done"}
    /\ got \in 0 .. conf.required /\ need \in 0 .. Step
    /\ local \in 1 .. conf.sync
    /\ {updates, synced, saved, savedVersion} \subseteq Nat

(* Whether to activate the hybrid replicas, and the queue size before they  *)
(* are taken back, is the policy's choice out of timings, except when they  *)
(* are the only ones.                                                       *)
Activation ==
    IF conf.hybrid = 0 THEN active' = FALSE /\ need' = 0
    ELSE IF OnlyHybrid THEN active' = TRUE /\ need' = Step
    ELSE active' \in BOOLEAN /\ need' \in 0 .. Step

(* After the weights were pushed a first time, before both fit are called.  *)
Init ==
    /\ conf \in Configs
    /\ fed = 0 /\ taken = 0
    /\ running = 0 /\ landed = 0 /\ failed = 0 /\ lost = 0
    /\ queue = Empty /\ dropped = 0
    /\ staleness = 0 /\ paused = FALSE /\ resume = TRUE
    /\ lock = "free" /\ ppc = "check" /\ mpc = "sleep"
    /\ tpc = "gate" /\ got = 0 /\ local = 1 /\ updates = 0
    /\ synced = 0 /\ saved = 0 /\ savedVersion = 0 /\ counted = 0
    /\ IF conf.hybrid = 0 THEN active = FALSE /\ need = 0
       ELSE IF OnlyHybrid THEN active = TRUE /\ need = Step
       ELSE active \in BOOLEAN /\ need \in 0 .. Step

-----------------------------------------------------------------------------
(* MessageQueue                                                             *)

(* Mutant...: plausible defects of the definition they precede, used by no  *)
(* specification.                                                           *)

(* A full queue drops the entry that arrives.                               *)
MutantPut(e) ==
    /\ queue' = IF Full THEN queue ELSE Extend(queue, e)
    /\ dropped' = dropped + IF Full /\ e = "sample" THEN 1 ELSE 0

(* What a full queue drops is not counted.                                  *)
MutantPutUncounted(e) ==
    /\ queue' = Extend(IF Full THEN Rest(queue) ELSE queue, e)
    /\ UNCHANGED dropped

(* put_sample: a full queue drops its oldest entry.                         *)
Put(e) ==
    /\ queue' = Extend(IF Full THEN Rest(queue) ELSE queue, e)
    /\ dropped' = dropped + IF Full /\ queue.ahead > 0 THEN 1 ELSE 0

-----------------------------------------------------------------------------
(* The rollouter: _feed_samples and the tasks.                              *)

Feed ==
    /\ Turns /\ ppc \notin {"finish", "done"}
    /\ fed <= Total /\ fed - taken < FeedMax
    /\ fed' = fed + 1
    /\ UNCHANGED <<conf, taken, taskVars, queueVars, pauseVars, lock, ppc, mpc, trainerVars>>

(* _process_single_sample_streaming: the sample is generated and put.  The  *)
(* task stays in active_tasks until the processor reaps it.                 *)
Land ==
    /\ Turns /\ running > 0
    /\ ~OnlyHybrid \/ active
    /\ Put("sample")
    /\ running' = running - 1 /\ landed' = landed + 1
    /\ UNCHANGED <<conf, feedVars, failed, lost, pauseVars, lock, ppc, mpc, trainerVars>>

Fail ==
    /\ Turns /\ conf.fails /\ lost = 0 /\ running > 0
    /\ running' = running - 1 /\ failed' = failed + 1 /\ lost' = lost + 1
    /\ UNCHANGED <<conf, feedVars, landed, queueVars, pauseVars, lock, ppc, mpc, trainerVars>>

-----------------------------------------------------------------------------
(* The rollouter: _processor_worker.                                        *)

(* The statistics of the queue are awaited; staleness_samples is compared   *)
(* after that.                                                              *)
Check ==
    /\ ppc = "check"
    /\ ppc' = IF paused \/ Full THEN "park" ELSE "decide"
    /\ UNCHANGED <<conf, feedVars, taskVars, queueVars, pauseVars, lock, mpc, trainerVars>>

Decide ==
    /\ ppc = "decide"
    /\ ppc' = IF Stale THEN "park" ELSE "get"
    /\ UNCHANGED <<conf, feedVars, taskVars, queueVars, pauseVars, lock, mpc, trainerVars>>

Park ==
    /\ ppc = "park" /\ lock = "free"
    /\ paused' = TRUE /\ resume' = FALSE
    /\ ppc' = "drain"
    /\ UNCHANGED <<conf, feedVars, taskVars, queueVars, staleness, lock, mpc, trainerVars>>

(* Some of the tasks that are over are awaited and leave active_tasks; one  *)
(* that failed raises, and the processor ends with the sample it holds.     *)
Reap(next) ==
    \/ /\ \E n \in 0 .. landed - 1 : landed' = n
       /\ ppc' = next
       /\ UNCHANGED <<running, failed, lost>>
    \/ /\ failed > 0
       /\ failed' = failed - 1 /\ lost' = lost + Held
       /\ ppc' = "finish"
       /\ UNCHANGED <<running, landed>>

Drain ==
    /\ ppc = "drain" /\ ~resume /\ lock = "free"
    /\ Reap("drain")
    /\ UNCHANGED <<conf, feedVars, queueVars, pauseVars, lock, mpc, trainerVars>>

Resume ==
    /\ ppc = "drain" /\ resume
    /\ ppc' = "check"
    /\ UNCHANGED <<conf, feedVars, taskVars, queueVars, pauseVars, lock, mpc, trainerVars>>

(* A prompt, or None at the end, counts towards staleness_samples before    *)
(* the task exists.                                                         *)
Get ==
    /\ ppc = "get" /\ taken < fed
    /\ taken' = taken + 1 /\ staleness' = staleness + 1
    /\ ppc' = IF taken = Total THEN "ending" ELSE "slot"
    /\ UNCHANGED <<conf, fed, taskVars, queueVars, paused, resume, lock, mpc, trainerVars>>

(* While too many tasks are active the lock is held until one ends.  With   *)
(* no task and no capacity the loop neither ends nor yields.                *)
Slot ==
    /\ ppc = "slot"
    /\ \/ Tasks < MaxConcurrent /\ ppc' = "submit" /\ UNCHANGED lock
       \/ Tasks >= MaxConcurrent /\ lock = "free"
          /\ IF Tasks > 0 THEN ppc' = "reap" /\ lock' = "processor"
                          ELSE ppc' = "spin" /\ UNCHANGED lock
    /\ UNCHANGED <<conf, feedVars, taskVars, queueVars, pauseVars, mpc, trainerVars>>

Submit ==
    /\ ppc = "submit" /\ (paused => resume) /\ lock = "free"
    /\ running' = running + 1
    /\ ppc' = "check"
    /\ UNCHANGED <<conf, feedVars, landed, failed, lost, queueVars, pauseVars, lock, mpc, trainerVars>>

(* The end signal was taken: the other tasks are awaited.                   *)
Ending ==
    /\ ppc = "ending"
    /\ \/ Tasks = 0 /\ ppc' = "finish" /\ UNCHANGED lock
       \/ Tasks > 0 /\ lock = "free" /\ ppc' = "reapEnd" /\ lock' = "processor"
    /\ UNCHANGED <<conf, feedVars, taskVars, queueVars, pauseVars, mpc, trainerVars>>

ReapLocked ==
    /\ ppc \in {"reap", "reapEnd"}
    /\ Reap(IF ppc = "reap" THEN "slot" ELSE "ending")
    /\ lock' = "free"
    /\ UNCHANGED <<conf, feedVars, queueVars, pauseVars, mpc, trainerVars>>

(* _streaming_generation_main ends, also after an exception: None is put.   *)
Finish ==
    /\ ppc = "finish"
    /\ Put("end")
    /\ ppc' = "done"
    /\ UNCHANGED <<conf, feedVars, taskVars, pauseVars, lock, mpc, trainerVars>>

Spin == ppc = "spin" /\ UNCHANGED vars

Processor ==
    \/ Check \/ Decide \/ Park \/ Drain \/ Resume \/ Get \/ Slot \/ Submit
    \/ Ending \/ ReapLocked \/ Finish

-----------------------------------------------------------------------------
(* The rollouter: _async_monitor_loop, every ten seconds.                   *)

MonitorLook ==
    /\ mpc = "sleep" /\ Turns /\ ppc # "done"
    /\ paused /\ ~Full
    /\ mpc' = "judge"
    /\ UNCHANGED <<conf, feedVars, taskVars, queueVars, pauseVars, lock, ppc, trainerVars>>

MonitorJudge ==
    /\ mpc = "judge" /\ Turns
    /\ mpc' = IF Stale THEN "sleep" ELSE "resume"
    /\ UNCHANGED <<conf, feedVars, taskVars, queueVars, pauseVars, lock, ppc, trainerVars>>

(* paused is cleared, the event is not set: the processor sleeps on.        *)
MutantMonitorResume ==
    /\ mpc = "resume" /\ Turns /\ lock = "free"
    /\ paused' = FALSE
    /\ mpc' = "sleep"
    /\ UNCHANGED <<conf, feedVars, taskVars, queueVars, staleness, resume, lock, ppc, trainerVars>>

MonitorResume ==
    /\ mpc = "resume" /\ Turns /\ lock = "free"
    /\ paused' = FALSE /\ resume' = TRUE
    /\ mpc' = "sleep"
    /\ UNCHANGED <<conf, feedVars, taskVars, queueVars, staleness, lock, ppc, trainerVars>>

Monitor == MonitorLook \/ MonitorJudge \/ MonitorResume

-----------------------------------------------------------------------------
(* The trainer.                                                             *)

(* fit_step: before the hybrid replicas are taken back from the rollout the *)
(* queue must hold enough, None included; wait_for_enough_samples polls     *)
(* without a timeout.                                                       *)
Gate ==
    /\ tpc = "gate"
    /\ active => Turns /\ Length(queue) >= need
    /\ tpc' = "collect" /\ active' = FALSE
    /\ UNCHANGED <<conf, feedVars, taskVars, queueVars, pauseVars, lock, ppc, mpc,
                   got, need, local, updates, synced, saved, savedVersion, counted>>

Poll == tpc = "gate" /\ active /\ Length(queue) < need /\ UNCHANGED vars

(* The forced save after the loop, unless this version was saved before.    *)
SaveLast ==
    IF conf.saveFreq > 0 /\ Version # savedVersion
    THEN saved' = updates /\ savedVersion' = Version
    ELSE UNCHANGED <<saved, savedVersion>>

(* _get_samples_from_queue, up to the end signal, which ends fit: the       *)
(* samples of an incomplete batch are left.                                 *)
Collect ==
    /\ tpc = "collect" /\ Length(queue) > 0
    /\ queue' = Rest(queue)
    /\ IF queue.ahead = 0
       THEN tpc' = "done" /\ SaveLast /\ UNCHANGED got
       ELSE /\ got' = got + 1
            /\ tpc' = IF got + 1 = conf.required THEN "train" ELSE "collect"
            /\ UNCHANGED <<saved, savedVersion>>
    /\ UNCHANGED <<conf, feedVars, taskVars, dropped, pauseVars, lock, ppc, mpc,
                   need, local, updates, synced, counted, active>>

(* One update too many before the weights are pushed.                       *)
MutantTrain ==
    /\ tpc = "train"
    /\ updates' = updates + 1 /\ got' = 0
    /\ IF local <= conf.sync THEN local' = local + 1 /\ tpc' = "gate"
                             ELSE local' = 1 /\ tpc' = "sync"
    /\ UNCHANGED <<conf, feedVars, taskVars, queueVars, pauseVars, lock, ppc, mpc,
                   need, synced, saved, savedVersion, counted, active>>

(* The update and _fit_update_local_step.                                   *)
Train ==
    /\ tpc = "train"
    /\ updates' = updates + 1 /\ got' = 0
    /\ IF local < conf.sync THEN local' = local + 1 /\ tpc' = "gate"
                            ELSE local' = 1 /\ tpc' = "sync"
    /\ UNCHANGED <<conf, feedVars, taskVars, queueVars, pauseVars, lock, ppc, mpc,
                   need, synced, saved, savedVersion, counted, active>>

(* _fit_update_weights up to reset_staleness: the weights are pushed, the   *)
(* hybrid replicas are activated if the policy says so.                     *)
Sync ==
    /\ tpc = "sync" /\ (conf.hybrid > 0 => Turns)
    /\ synced' = updates
    /\ Activation
    /\ tpc' = "reset"
    /\ UNCHANGED <<conf, feedVars, taskVars, queueVars, pauseVars, lock, ppc, mpc,
                   got, local, updates, saved, savedVersion, counted>>

(* Tasks that are still generating are taken for samples of the new weights.*)
MutantResetCount ==
    /\ tpc = "reset" /\ Turns /\ lock = "free"
    /\ lock' = "reset"
    /\ paused' = FALSE /\ resume' = TRUE
    /\ counted' = 0
    /\ tpc' = "counting"
    /\ UNCHANGED <<conf, feedVars, taskVars, queueVars, staleness, ppc, mpc,
                   got, need, local, updates, synced, saved, savedVersion, active>>

(* reset_staleness: the active tasks are counted, the queue size is         *)
(* awaited; what the processor takes in between is overwritten.             *)
ResetCount ==
    /\ tpc = "reset" /\ Turns /\ lock = "free"
    /\ lock' = "reset"
    /\ paused' = FALSE /\ resume' = TRUE
    /\ counted' = Tasks
    /\ tpc' = "counting"
    /\ UNCHANGED <<conf, feedVars, taskVars, queueVars, staleness, ppc, mpc,
                   got, need, local, updates, synced, saved, savedVersion, active>>

(* _fit_save_checkpoint, at the end of the step.                            *)
SaveDue == conf.saveFreq > 0 /\ Version # savedVersion /\ Version % conf.saveFreq = 0

ResetStaleness ==
    /\ tpc = "counting" /\ Turns
    /\ staleness' = counted + Length(queue)
    /\ counted' = 0
    /\ lock' = "free"
    /\ IF SaveDue THEN saved' = updates /\ savedVersion' = Version
                  ELSE UNCHANGED <<saved, savedVersion>>
    /\ tpc' = "gate"
    /\ UNCHANGED <<conf, feedVars, taskVars, queueVars, paused, resume, ppc, mpc,
                   got, need, local, updates, synced, active>>

Trainer == Gate \/ Collect \/ Train \/ Sync \/ ResetCount \/ ResetStaleness

Stopped == tpc = "done" /\ UNCHANGED vars

Next == Feed \/ Land \/ Fail \/ Processor \/ Spin \/ Monitor \/ Trainer \/ Poll \/ Stopped

Spec == Init /\ [][Next]_vars

(* Coroutines and the trainer go on while they can, and generations end.    *)
Fairness ==
    /\ WF_vars(Feed) /\ WF_vars(Land) /\ WF_vars(Processor)
    /\ WF_vars(Monitor) /\ WF_vars(Trainer)

FairSpec == Spec /\ Fairness

-----------------------------------------------------------------------------
(* Properties.                                                              *)

(* Samples that exist and are not trained on: held, generating or queued.   *)
Outstanding == Held + running + Samples(queue)

Trained == conf.required * updates

(* The staleness budget bounds what is generated ahead of the trainer.  It  *)
(* is exceeded by one sample at most, the one the processor holds while     *)
(* reset_staleness counts: its increment is overwritten, or was made before *)
(* the count, which misses it.                                              *)
OutstandingBounded == Outstanding <= conf.max + 1

(* No sample is trained on twice, and none disappears unless the queue says *)
(* so or an exception took it: what was taken from the feed is in exactly   *)
(* one place.                                                               *)
SamplesAccounted ==
    (IF taken > Total THEN Total ELSE taken)
        = Outstanding + got + Trained + dropped + lost

(* Nothing follows the end signal of a run without an exception, and a full *)
(* queue never drops the signal itself: it is there, or the trainer has it. *)
EndSignalArrives ==
    ppc = "done" => /\ tpc = "done" \/ queue.ended
                    /\ lost = 0 => running = 0 /\ queue.behind = 0

(* The updates the rollout has not got, and those no checkpoint holds after *)
(* the run, are those of an incomplete cycle.                               *)
TailBounded ==
    /\ tpc \notin {"train", "sync"} => updates - synced < conf.sync
    /\ tpc = "done" /\ conf.saveFreq > 0 => updates - saved < conf.sync

(* A processor that sleeps although it has room is woken, by the reset or,  *)
(* if that came between its decision and its sleep, by the monitor; the end *)
(* signal reaches the trainer.  So a run without dynamic scheduling ends,   *)
(* provided that the budget covers the samples that reset_staleness counts  *)
(* twice: those of tasks not yet reaped.                                    *)
TrainingEnds ==
    conf.hybrid = 0 /\ conf.standalone <= conf.max - Step ~> tpc = "done"

(* The end signal ends the training in every configuration.                 *)
EndSignalEndsTraining == ppc = "done" ~> tpc = "done"

=============================================================================
