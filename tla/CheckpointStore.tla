--------------------------- MODULE CheckpointStore ---------------------------
(***************************************************************************)
(* The checkpoints of a training run on disk: _save_checkpoint of          *)
(* verl/trainer/ppo/ray_trainer.py and the rotation of                     *)
(* verl/utils/checkpoint/checkpoint_manager.py it goes through (the FSDP   *)
(* manager calls ensure_checkpoint_capacity before and register_checkpoint *)
(* after writing).  One action per write, so that a crash can fall between *)
(* any two.  Saving is synchronous (no async_save), to the local directory,*)
(* without a critic, as in rl.sh.                                          *)
(***************************************************************************)
EXTENDS Integers, Sequences, FiniteSets

CONSTANTS MaxStep,   \* bound: training steps
          MaxKeep    \* max_actor_ckpt_to_keep, 0 for None

ASSUME MaxStepAssumption == MaxStep \in Nat
ASSUME MaxKeepAssumption == MaxKeep \in Nat

VARIABLES
    dirs,      \* steps whose directory global_step_<k> exists
    actor,     \* what global_step_<k>/actor holds: the weights, or Missing
    data,      \* what global_step_<k>/data.pt holds: the dataloader, or Missing
    tracker,   \* latest_checkpointed_iteration.txt: a step, NoTracker or Torn
    saved,     \* previous_saved_paths of the checkpoint manager, in memory
    cur,       \* the step being saved
    spc        \* how far _save_checkpoint has come

diskVars  == <<dirs, actor, data, tracker>>
storeVars == <<diskVars, saved, cur, spc>>

Steps == 1 .. MaxStep

Missing   == -1   \* no file, or one that is only partly written
NoTracker == 0
Torn      == -1   \* open(.., "w") has emptied the file: int("") raises

StoreTypeOK ==
    /\ dirs \subseteq Steps
    /\ actor \in [Steps -> Nat \cup {Missing}]
    /\ data \in [Steps -> Nat \cup {Missing}]
    /\ tracker \in Steps \cup {NoTracker, Torn}
    /\ saved \in Seq(Steps)
    /\ cur \in Steps \cup {0}
    /\ spc \in {"idle", "mkdir", "actor", "register", "data", "open", "write"}

StoreInit ==
    /\ dirs = {}
    /\ actor = [k \in Steps |-> Missing]
    /\ data = [k \in Steps |-> Missing]
    /\ tracker = NoTracker
    /\ saved = << >>
    /\ cur = 0
    /\ spc = "idle"

-----------------------------------------------------------------------------
(* Mutant...: plausible defects of the definition they precede, used by no  *)
(* specification.                                                           *)

(* Drop the n oldest registered checkpoints, and their actor directories.   *)
Evict(paths, n) ==
    /\ saved' = SubSeq(paths, n + 1, Len(paths))
    /\ actor' = [k \in Steps |->
                    IF \E i \in 1 .. n : paths[i] = k THEN Missing ELSE actor[k]]

(* Room is made by dropping everything registered.                          *)
MutantEnsureCapacityDropsAll(k) ==
    /\ spc = "idle"
    /\ spc' = "mkdir"
    /\ cur' = k
    /\ IF MaxKeep > 1 /\ Len(saved) >= MaxKeep
       THEN Evict(saved, Len(saved))
       ELSE UNCHANGED <<saved, actor>>
    /\ UNCHANGED <<dirs, data, tracker>>

(* ensure_checkpoint_capacity, when the save of step k begins.              *)
EnsureCapacity(k) ==
    /\ spc = "idle"
    /\ spc' = "mkdir"
    /\ cur' = k
    /\ IF MaxKeep > 1 /\ Len(saved) >= MaxKeep
       THEN Evict(saved, Len(saved) - MaxKeep + 1)
       ELSE UNCHANGED <<saved, actor>>
    /\ UNCHANGED <<dirs, data, tracker>>

(* The directories are created; an older file of that step is overwritten   *)
(* from here on.                                                            *)
MakeDirectory ==
    /\ spc = "mkdir"
    /\ spc' = "actor"
    /\ dirs' = dirs \cup {cur}
    /\ actor' = [actor EXCEPT ![cur] = Missing]
    /\ UNCHANGED <<data, tracker, saved, cur>>

WriteActor(weights) ==
    /\ spc = "actor" /\ weights \in Nat
    /\ spc' = "register"
    /\ actor' = [actor EXCEPT ![cur] = weights]
    /\ UNCHANGED <<dirs, data, tracker, saved, cur>>

(* register_checkpoint.                                                     *)
Register ==
    /\ spc = "register"
    /\ spc' = "data"
    /\ LET paths == Append(saved, cur) IN
       IF MaxKeep > 0 /\ Len(paths) > MaxKeep
       THEN Evict(paths, Len(paths) - MaxKeep)
       ELSE saved' = paths /\ UNCHANGED actor
    /\ UNCHANGED <<dirs, data, tracker, cur>>

WriteData(position) ==
    /\ spc = "data" /\ position \in Nat
    /\ spc' = "open"
    /\ data' = [data EXCEPT ![cur] = position]
    /\ UNCHANGED <<dirs, actor, tracker, saved, cur>>

OpenTracker ==
    /\ spc = "open"
    /\ spc' = "write"
    /\ tracker' = Torn
    /\ UNCHANGED <<dirs, actor, data, saved, cur>>

WriteTracker ==
    /\ spc = "write"
    /\ spc' = "idle"
    /\ tracker' = cur
    /\ UNCHANGED <<dirs, actor, data, saved, cur>>

SaveStep(weights, position) ==
    \/ MakeDirectory \/ WriteActor(weights) \/ Register
    \/ WriteData(position) \/ OpenTracker \/ WriteTracker

(* The process dies: what it held in memory is gone, the disk stays.        *)
LoseMemory ==
    /\ saved' = << >>
    /\ cur' = 0
    /\ spc' = "idle"
    /\ UNCHANGED diskVars

(* find_latest_ckpt_path: the tracked step, or none when the tracker or the *)
(* directory is missing (the caller then trains from scratch).              *)
FoundStep == IF tracker \in dirs THEN tracker ELSE 0

-----------------------------------------------------------------------------
(* The store taken alone, whatever is written into it: it relies on its     *)
(* caller to save ever later steps, and to start over from the tracked step *)
(* only if it can read the tracker.                                         *)

CanSave(k) ==
    /\ tracker # Torn /\ tracker < k
    /\ \A i \in 1 .. Len(saved) : saved[i] < k

StoreNext ==
    \/ \E k \in Steps : CanSave(k) /\ EnsureCapacity(k)
    \/ cur \in Steps /\ SaveStep(actor'[cur], data'[cur])
    \/ LoseMemory

StoreSpec == StoreInit /\ [][StoreNext]_storeVars

-----------------------------------------------------------------------------
(* The step the tracker names can be loaded, at every moment a crash may    *)
(* fall: rotation never takes the actor away from under it, and it is named *)
(* only when all its files are complete.                                    *)
TrackedIsLoadable ==
    tracker \in Steps =>
        tracker \in dirs /\ actor[tracker] # Missing /\ data[tracker] # Missing

(* Rotation keeps no more than max_ckpt_to_keep registered checkpoints, and *)
(* each of them really is on disk.                                          *)
RotationKeepsWhatItLists ==
    /\ MaxKeep > 0 => Len(saved) <= MaxKeep
    /\ \A i \in 1 .. Len(saved) : actor[saved[i]] # Missing

(* A crash never leaves a tracker that a restart cannot read.               *)
TrackerReadableAfterCrash == spc = "idle" => tracker # Torn

=============================================================================
