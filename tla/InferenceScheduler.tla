------------------------- MODULE InferenceScheduler -------------------------
(***************************************************************************)
(* QueueLengthInferenceScheduler of reward_model_server.py: it serialises  *)
(* the calls two batcher threads make to one resident model, and starts    *)
(* the batch of the task with more requests waiting.                       *)
(*                                                                         *)
(* run() is modelled at the granularity of its critical sections: the      *)
(* first evaluation of the predicate of wait_for (Enter), every            *)
(* re-evaluation after a notification (Wake), and the last critical        *)
(* section, which frees the model and notifies (Finish).  A thread asleep  *)
(* in wait_for re-evaluates only once it has been notified.                *)
(*                                                                         *)
(* total[t] is what the predicate reads for task t, the size of its ready  *)
(* batch plus the length of its queue AT THAT MOMENT.  The queue grows and *)
(* shrinks without the scheduler's condition being held or notified, so    *)
(* here the environment changes it at any moment; module RewardService     *)
(* substitutes the batchers' queues for it, and is what TLC runs.          *)
(***************************************************************************)
EXTENDS Integers, FiniteSets

CONSTANT Tasks        \* the keys of self._waiting

VARIABLES
    active,           \* self._active
    waiting,          \* self._waiting: arrival number of the ready batch, or NoBatch
    arrivalSequence,  \* self._arrival_sequence
    phase,            \* where the task's batcher thread is in run()
    total             \* len(values) + queued_count(), as the predicate reads it

schedVars == <<active, waiting, arrivalSequence, phase>>

Phases == {"out", "asleep", "notified", "running"}

NoBatch == 0

SchedTypeOK ==
    /\ active \in BOOLEAN
    /\ waiting \in [Tasks -> Nat]
    /\ arrivalSequence \in Nat
    /\ phase \in [Tasks -> Phases]

SchedInit ==
    /\ active = FALSE
    /\ waiting = [t \in Tasks |-> NoBatch]
    /\ arrivalSequence = 0
    /\ phase = [t \in Tasks |-> "out"]

-----------------------------------------------------------------------------
(* Definitions named Mutant... are plausible defects of the definition they  *)
(* precede.  No specification uses them: each shows that a property fails    *)
(* when the code has that defect.                                           *)

(* The test of self._active forgotten.                                      *)
MutantMayStartWhileActive(t, w) ==
    /\ w[t] # NoBatch
    /\ \A u \in Tasks \ {t} : w[u] = NoBatch \/ total[t] >= total[u]

(* _may_start, evaluated with the entries w: the model is free and no other *)
(* entry has a larger total, or the same total and an earlier arrival.      *)
MayStart(t, w) ==
    /\ ~active
    /\ w[t] # NoBatch
    /\ \A u \in Tasks \ {t} :
          \/ w[u] = NoBatch
          \/ total[t] > total[u]
          \/ total[t] = total[u] /\ w[t] < w[u]

(* One evaluation of wait_for's predicate under the condition's lock: start *)
(* the inference and withdraw the entry, or go to sleep leaving it.         *)
Evaluate(t, w) ==
    \/ /\ MayStart(t, w)
       /\ active' = TRUE
       /\ waiting' = [w EXCEPT ![t] = NoBatch]
       /\ phase' = [phase EXCEPT ![t] = "running"]
    \/ /\ ~MayStart(t, w)
       /\ waiting' = w
       /\ phase' = [phase EXCEPT ![t] = "asleep"]
       /\ UNCHANGED active

Enter(t) ==
    /\ phase[t] = "out"
    /\ waiting[t] = NoBatch
    /\ arrivalSequence' = arrivalSequence + 1
    /\ Evaluate(t, [waiting EXCEPT ![t] = arrivalSequence + 1])

Wake(t) ==
    /\ phase[t] = "notified"
    /\ UNCHANGED arrivalSequence
    /\ Evaluate(t, waiting)

(* notify_all forgotten.                                                    *)
MutantFinishSilently(t) ==
    /\ phase[t] = "running"
    /\ active' = FALSE
    /\ phase' = [phase EXCEPT ![t] = "out"]
    /\ UNCHANGED <<waiting, arrivalSequence>>

(* function(values) has returned or raised: free the model, notify_all.     *)
Finish(t) ==
    /\ phase[t] = "running"
    /\ active' = FALSE
    /\ phase' = [u \in Tasks |-> IF u = t THEN "out"
                                 ELSE IF phase[u] = "asleep" THEN "notified"
                                 ELSE phase[u]]
    /\ UNCHANGED <<waiting, arrivalSequence>>

-----------------------------------------------------------------------------
(* The scheduler taken alone, among queues that do as they please.          *)
Init == SchedInit /\ total \in [Tasks -> Nat]

Next ==
    /\ total' \in [Tasks -> Nat]
    /\ \/ \E t \in Tasks : Enter(t) \/ Wake(t) \/ Finish(t)
       \/ UNCHANGED schedVars

Spec == Init /\ [][Next]_<<schedVars, total>>

-----------------------------------------------------------------------------
(* The shared model serves one batch at a time, and _active says so exactly: *)
(* a model call is in progress iff _active is set, and never two.            *)
ModelExclusive ==
    /\ active <=> \E t \in Tasks : phase[t] = "running"
    /\ \A t, u \in Tasks : phase[t] = "running" /\ phase[u] = "running" => t = u

(* An entry of _waiting is exactly a thread waiting in wait_for: no entry of *)
(* a finished, failed or running batch is left behind to win a later         *)
(* selection, and no waiting thread has lost its entry.  So "already has a   *)
(* waiting batch" is never raised.                                           *)
EntriesMatchWaiters ==
    \A t \in Tasks : waiting[t] # NoBatch <=> phase[t] \in {"asleep", "notified"}

(* Arrival numbers break ties without ambiguity.                             *)
ArrivalsDistinct ==
    /\ \A t \in Tasks : waiting[t] <= arrivalSequence
    /\ \A t, u \in Tasks : waiting[t] # NoBatch /\ waiting[t] = waiting[u] => t = u

(* While nobody uses the model, nobody is left sleeping without a pending    *)
(* notification -- unless the queues have moved in between: see              *)
(* RewardService!ReadyBatchIsStarted.  What does hold whatever the queues do:*)
(* a thread asleep while the model is idle has another waiter next to it.    *)
IdleSleeperHasRival ==
    \A t \in Tasks : phase[t] = "asleep" /\ ~active
        => \E u \in Tasks \ {t} : waiting[u] # NoBatch

=============================================================================
