-------------------------- MODULE DapoTrainerProofs --------------------------
(***************************************************************************)
(* The training loop implements the checkpoint store's specification, so    *)
(* what CheckpointStoreProofs shows of the store holds of the loop; and     *)
(* generation is on-policy.  For any loader, batch sizes, save frequency    *)
(* and number of crashes.                                                   *)
(***************************************************************************)
EXTENDS DapoTrainer, CheckpointStoreProofs

(* The step being trained lies after the tracked one until it is saved, and *)
(* nothing is being saved except where the loop says so.                    *)
LoopInv ==
    /\ globalSteps \in Nat /\ weights \in Nat /\ pos \in Nat
    /\ crashes \in 0 .. MaxCrashes
    /\ tracker <= TotalSteps + crashes + 1
    /\ pc \in {"load", "epoch", "next", "generate", "update", "save", "sync",
               "endStep", "final", "done", "failed"}
    /\ pc \notin {"save", "final"} => spc = "idle"
    /\ pc = "load" => cur = 0 /\ tracker <= TotalSteps + crashes
    /\ pc \notin {"load", "done", "failed"} =>
          globalSteps \in 1 .. TotalSteps + crashes + 1 /\ cur <= globalSteps
    /\ pc \in {"epoch", "next", "generate", "update"} =>
          tracker # Torn /\ tracker < globalSteps /\ cur # globalSteps
    /\ pc \in {"save", "final"} =>
          IF cur = globalSteps THEN spc = "idle" => tracker = globalSteps
          ELSE spc = "idle" /\ tracker # Torn /\ tracker < globalSteps
    /\ pc \in {"sync", "endStep"} => tracker # Torn /\ tracker <= globalSteps

DapoInv == StoreInv /\ LoopInv

-----------------------------------------------------------------------------
(* Constants and types, in the form the provers need them.                  *)
LEMMA Numbers ==
    ASSUME DapoInv
    PROVE  /\ MaxStep \in Nat /\ TotalSteps \in Nat /\ MaxCrashes \in Nat
           /\ MaxStep >= TotalSteps + MaxCrashes + 1
           /\ tracker \in Int /\ cur \in Int /\ crashes \in Nat /\ crashes <= MaxCrashes
           /\ tracker \in Steps \cup {0, -1}
           /\ tracker # -1 /\ spc = "idle" => \A i \in 1 .. Len(saved) : saved[i] <= tracker
           /\ \A i \in 1 .. Len(saved) : saved[i] \in Int
<1>1. /\ MaxStep \in Nat /\ TotalSteps \in Nat /\ MaxCrashes \in Nat
      /\ MaxStep >= TotalSteps + MaxCrashes + 1
  BY LoaderAssumption, MaxStepAssumption
<1>2. /\ tracker \in Steps \cup {0, -1} /\ cur \in Steps \cup {0}
  BY DEF DapoInv, StoreInv, StoreTypeOK, NoTracker, Torn
<1>3. tracker \in Int /\ cur \in Int /\ crashes \in Nat /\ crashes <= MaxCrashes
  BY <1>1, <1>2 DEF DapoInv, LoopInv, Steps
<1>4. tracker # -1 /\ spc = "idle" => \A i \in 1 .. Len(saved) : saved[i] <= tracker
  BY DEF DapoInv, StoreInv, ListedWereTracked, Torn
<1>5. \A i \in 1 .. Len(saved) : saved[i] \in Int
  BY SavedFacts, <1>1 DEF DapoInv, Steps
<1> QED BY <1>1, <1>2, <1>3, <1>4, <1>5

(* A step of the loop is a step of the store, or leaves it alone.           *)
LEMMA LoopStepsStore ==
    ASSUME DapoInv, [Next]_vars PROVE [StoreNext]_storeVars
<1>1. CASE BeginSave
  <2>1. /\ pc \in {"save", "final"} /\ cur # globalSteps
        /\ EnsureCapacity(globalSteps)
    BY <1>1 DEF BeginSave
  <2>2. globalSteps \in Steps /\ tracker # Torn /\ tracker < globalSteps /\ spc = "idle"
    BY <2>1, Numbers DEF DapoInv, LoopInv, Steps
  <2>3. CanSave(globalSteps)
    <3> SUFFICES ASSUME NEW i \in 1 .. Len(saved) PROVE saved[i] < globalSteps
      BY <2>2 DEF CanSave
    <3>1. saved[i] <= tracker /\ saved[i] \in Int /\ tracker \in Int /\ globalSteps \in Int
      BY <2>2, Numbers DEF Torn, DapoInv, LoopInv
    <3> QED BY <2>2, <3>1
  <2> QED BY <2>1, <2>2, <2>3 DEF StoreNext
<1>2. CASE ContinueSave
  <2>1. SaveStep(weights, pos)
    BY <1>2 DEF ContinueSave
  <2>2. cur \in Steps
    BY <2>1 DEF SaveStep, MakeDirectory, WriteActor, Register, WriteData, OpenTracker,
                WriteTracker, DapoInv, StoreInv, SavingLater
  <2>3. SaveStep(actor'[cur], data'[cur])
    <3>1. CASE WriteActor(weights)
      <4>1. actor'[cur] = weights
        BY <2>2, <3>1 DEF WriteActor, DapoInv, StoreInv, StoreTypeOK
      <4> QED BY <3>1, <4>1 DEF SaveStep
    <3>2. CASE WriteData(pos)
      <4>1. data'[cur] = pos
        BY <2>2, <3>2 DEF WriteData, DapoInv, StoreInv, StoreTypeOK
      <4> QED BY <3>2, <4>1 DEF SaveStep
    <3>3. CASE MakeDirectory \/ Register \/ OpenTracker \/ WriteTracker
      BY <3>3 DEF SaveStep
    <3> QED BY <2>1, <3>1, <3>2, <3>3 DEF SaveStep
  <2> QED BY <2>2, <2>3 DEF StoreNext
<1>3. CASE Crash
  BY <1>3 DEF Crash, StoreNext
<1>4. CASE LoadNothing \/ Resume \/ LoadFails
  BY <1>4 DEF LoadNothing, Resume, LoadFails, StartAt
<1>5. CASE BeginEpoch \/ NextBatch \/ EndOfPass \/ EndSave \/ FinalExists \/ SyncWeights
           \/ EndStep \/ Stopped \/ UNCHANGED vars
  BY <1>5 DEF BeginEpoch, NextBatch, EndOfPass, EndSave, FinalExists, SyncWeights, EndStep,
              Stopped, vars
<1>6. ASSUME NEW n \in 0 .. GenBatch, Generate(n) PROVE UNCHANGED storeVars
  BY <1>6 DEF Generate
<1>7. ASSUME NEW esi \in BOOLEAN, Update(esi) PROVE UNCHANGED storeVars
  BY <1>7 DEF Update
<1> QED BY <1>1, <1>2, <1>3, <1>4, <1>5, <1>6, <1>7 DEF Next, Driver

(* The loop starts after the tracked step.                                  *)
LEMMA StartInv ==
    ASSUME DapoInv, NEW w \in Nat, NEW p \in Nat,
           pc = "load", tracker # Torn, StartAt(FoundStep, w, p)
    PROVE  LoopInv'
<1>1. FoundStep = tracker
  BY Numbers DEF FoundStep, DapoInv, StoreInv, TrackedIsLoadable, Torn
<1>2. /\ globalSteps' = tracker + 1 /\ weights' = w /\ pos' = p /\ pc' = "epoch"
      /\ UNCHANGED <<crashes, tracker, cur, spc>>
  BY <1>1 DEF StartAt, storeVars, diskVars
<1>3. tracker \in Nat /\ tracker <= TotalSteps + crashes /\ spc = "idle" /\ cur = 0
  BY Numbers DEF DapoInv, LoopInv, Torn, Steps
<1> QED BY <1>2, <1>3, Numbers DEF DapoInv, LoopInv

LEMMA LoopStepInv ==
    ASSUME DapoInv, [Next]_vars PROVE LoopInv'
<1> USE Numbers DEF storeVars, diskVars
<1>1. CASE LoadNothing
  <2>1. FoundStep = 0 /\ StartAt(FoundStep, 0, 0) /\ pc = "load" /\ tracker # Torn
    BY <1>1 DEF LoadNothing
  <2> QED BY <2>1, StartInv
<1>2. CASE Resume
  <2> DEFINE p == IF data[FoundStep] # Missing /\ ~AtEpochBoundary(FoundStep)
                  THEN data[FoundStep] ELSE 0
  <2>1. /\ pc = "load" /\ tracker # Torn /\ FoundStep # 0
        /\ actor[FoundStep] # Missing
        /\ StartAt(FoundStep, actor[FoundStep], p)
    BY <1>2 DEF Resume
  <2>2. FoundStep \in Steps
    BY <2>1 DEF FoundStep, DapoInv, StoreInv, StoreTypeOK
  <2>3. actor[FoundStep] \in Nat /\ p \in Nat
    BY <2>1, <2>2 DEF DapoInv, StoreInv, StoreTypeOK
  <2> HIDE DEF p
  <2> QED BY <2>1, <2>3, StartInv
<1>3. CASE LoadFails
  BY <1>3 DEF LoadFails, loopVars, modelVars, historyVars, DapoInv, LoopInv
<1>4. CASE BeginEpoch
  BY <1>4 DEF BeginEpoch, loopVars, modelVars, historyVars, DapoInv, LoopInv
<1>5. CASE NextBatch
  BY <1>5 DEF NextBatch, loopVars, modelVars, historyVars, DapoInv, LoopInv
<1>6. CASE EndOfPass
  BY <1>6 DEF EndOfPass, loopVars, modelVars, historyVars, DapoInv, LoopInv
<1>7. ASSUME NEW n \in 0 .. GenBatch, Generate(n) PROVE LoopInv'
  BY <1>7 DEF Generate, loopVars, modelVars, historyVars, DapoInv, LoopInv
<1>8. ASSUME NEW esi \in BOOLEAN, Update(esi) PROVE LoopInv'
  BY <1>8 DEF Update, loopVars, modelVars, historyVars, DapoInv, LoopInv
<1>9. CASE BeginSave
  BY <1>9 DEF BeginSave, EnsureCapacity, loopVars, modelVars, historyVars, DapoInv, LoopInv
<1>10. CASE ContinueSave
  <2>1. /\ pc \in {"save", "final"} /\ SaveStep(weights, pos)
        /\ UNCHANGED <<pc, globalSteps, pos, weights, crashes>>
    BY <1>10 DEF ContinueSave, loopVars, modelVars
  <2>2. CASE WriteTracker
    BY <2>1, <2>2 DEF WriteTracker, DapoInv, LoopInv
  <2>3. CASE MakeDirectory \/ WriteActor(weights) \/ Register \/ WriteData(pos)
    BY <2>1, <2>3 DEF MakeDirectory, WriteActor, Register, WriteData, DapoInv, LoopInv
  <2>4. CASE OpenTracker
    BY <2>1, <2>4 DEF OpenTracker, Torn, DapoInv, LoopInv
  <2> QED BY <2>1, <2>2, <2>3, <2>4 DEF SaveStep
<1>11. CASE EndSave
  <2>1. /\ pc \in {"save", "final"} /\ pc' \in {"sync", "done"}
        /\ spc = "idle" /\ cur = globalSteps
        /\ UNCHANGED <<globalSteps, pos, weights, crashes, tracker, cur, spc>>
    BY <1>11 DEF EndSave, loopVars, modelVars, historyVars
  <2>2. tracker = globalSteps /\ tracker # Torn /\ globalSteps \in Nat
    BY <2>1 DEF DapoInv, LoopInv, Torn
  <2> QED BY <2>1, <2>2 DEF DapoInv, LoopInv
<1>16. CASE FinalExists
  <2>1. /\ pc' = "done" /\ spc = "idle"
        /\ UNCHANGED <<globalSteps, pos, weights, crashes, tracker, cur, spc>>
    BY <1>16 DEF FinalExists, loopVars, modelVars, historyVars
  <2> QED BY <2>1 DEF DapoInv, LoopInv
<1>12. CASE SyncWeights
  BY <1>12 DEF SyncWeights, loopVars, modelVars, historyVars, DapoInv, LoopInv
<1>13. CASE EndStep
  BY <1>13 DEF EndStep, IsLastStep, loopVars, modelVars, historyVars, DapoInv, LoopInv
<1>14. CASE Crash
  BY <1>14 DEF Crash, LoseMemory, loopVars, modelVars, historyVars, DapoInv, LoopInv
<1>15. CASE Stopped \/ UNCHANGED vars
  BY <1>15 DEF Stopped, vars, loopVars, modelVars, historyVars, DapoInv, LoopInv
<1> QED BY <1>1, <1>2, <1>3, <1>4, <1>5, <1>6, <1>7, <1>8, <1>9, <1>10, <1>11, <1>12,
            <1>13, <1>14, <1>15, <1>16 DEF Next, Driver

LEMMA DapoInvariance == ASSUME MaxKeep # 1 PROVE Spec => []DapoInv
<1>1. Init => DapoInv
  <2> SUFFICES ASSUME Init PROVE DapoInv
    OBVIOUS
  <2>1. StoreInv
    BY StoreInitInv DEF Init
  <2>2. LoopInv
    BY LoaderAssumption DEF Init, StoreInit, LoopInv, NoTracker
  <2> QED BY <2>1, <2>2 DEF DapoInv
<1>2. DapoInv /\ [Next]_vars => DapoInv'
  <2> SUFFICES ASSUME DapoInv, [Next]_vars PROVE DapoInv'
    OBVIOUS
  <2>1. StoreInv'
    BY LoopStepsStore, StoreStepInv DEF DapoInv
  <2> QED BY <2>1, LoopStepInv DEF DapoInv
<1> QED BY <1>1, <1>2, PTL DEF Spec

-----------------------------------------------------------------------------
(* The loop saves ever later steps, through resumes, ESI saves, the save    *)
(* after the loop and crashes: RayDAPOTrainer.fit implements the store's    *)
(* specification.                                                           *)
THEOREM LoopImplementsStore == ASSUME MaxKeep # 1 PROVE Spec => ImplementsStore
<1>1. Init => StoreInit
  BY DEF Init
<1>2. DapoInv /\ [Next]_vars => [StoreNext]_storeVars
  BY LoopStepsStore
<1> QED BY <1>1, <1>2, DapoInvariance, PTL DEF Spec, ImplementsStore, StoreSpec

(* Whenever the driver dies, the checkpoint that the tracker names can be   *)
(* loaded by the next start.                                                *)
THEOREM ResumePointExists == ASSUME MaxKeep # 1 PROVE Spec => []TrackedIsLoadable
BY LoopImplementsStore, TrackedCheckpointIsLoadable, PTL DEF ImplementsStore

-----------------------------------------------------------------------------
(* The replicas hold the actor's weights from the start of the loop, and    *)
(* after every step, past warm-up or not.                                   *)
PolicyInv ==
    /\ pc \in {"load", "epoch", "next", "generate", "update", "save", "sync",
               "endStep", "final", "done", "failed"}
    /\ pc \in {"epoch", "next", "generate", "update", "endStep"} => rollout = weights

(* Generation is on-policy, whatever saves, resumes and steps of several    *)
(* dataloader batches came before.                                          *)
THEOREM GenerationIsOnPolicy == Spec => []RolloutsOnPolicy
<1>1. Init => PolicyInv
  BY DEF Init, PolicyInv
<1>2. PolicyInv /\ [Next]_vars => PolicyInv'
  <2> SUFFICES ASSUME PolicyInv, [Next]_vars PROVE PolicyInv'
    OBVIOUS
  <2> USE DEF PolicyInv, modelVars
  <2>1. CASE LoadNothing \/ Resume \/ LoadFails
    BY <2>1 DEF LoadNothing, Resume, LoadFails, StartAt
  <2>2. CASE BeginEpoch \/ NextBatch \/ EndOfPass
    BY <2>2 DEF BeginEpoch, NextBatch, EndOfPass
  <2>3. ASSUME NEW n \in 0 .. GenBatch, Generate(n) PROVE PolicyInv'
    BY <2>3 DEF Generate
  <2>4. ASSUME NEW esi \in BOOLEAN, Update(esi) PROVE PolicyInv'
    BY <2>4 DEF Update
  <2>5. CASE BeginSave \/ ContinueSave \/ EndSave \/ FinalExists
    BY <2>5 DEF BeginSave, ContinueSave, EndSave, FinalExists
  <2>6. CASE SyncWeights \/ EndStep
    BY <2>6 DEF SyncWeights, EndStep
  <2>7. CASE Crash \/ Stopped \/ UNCHANGED vars
    BY <2>7 DEF Crash, Stopped, vars
  <2> QED BY <2>1, <2>2, <2>3, <2>4, <2>5, <2>6, <2>7 DEF Next, Driver
<1>3. PolicyInv => RolloutsOnPolicy
  BY DEF PolicyInv, RolloutsOnPolicy
<1> QED BY <1>1, <1>2, <1>3, PTL DEF Spec


-----------------------------------------------------------------------------
(* Types.  The position of a loader is that of a loader of this length, also *)
(* on disk.                                                                 *)
TypeInv ==
    /\ TypeOK
    /\ \A k \in Steps : data[k] # Missing => data[k] \in 0 .. LoaderLen

LEMMA TypeStep == ASSUME DapoInv, DapoInv', TypeInv, [Next]_vars PROVE TypeInv'
<1>0. /\ StoreTypeOK' /\ crashes' \in 0 .. MaxCrashes /\ LoaderLen \in Nat \ {0}
      /\ NoSkip = -1
  BY LoaderAssumption DEF DapoInv, StoreInv, LoopInv, NoSkip
<1>1. SUFFICES TypeOK' /\ \A k \in Steps : data'[k] # Missing => data'[k] \in 0 .. LoaderLen
  BY DEF TypeInv
<1>2. TypeOK
  BY DEF TypeInv
<1> USE DEF TypeOK, modelVars, historyVars, loopVars
<1>3. ASSUME UNCHANGED storeVars
      PROVE  \A k \in Steps : data'[k] # Missing => data'[k] \in 0 .. LoaderLen
  BY <1>3 DEF TypeInv, storeVars, diskVars
<1>4. CASE LoadNothing
  <2>1. LoadNothing /\ StartAt(0, 0, 0) /\ consumed' = 0 /\ skippedAt' = NoSkip
    BY <1>4 DEF LoadNothing
  <2>2. /\ globalSteps' = 1 /\ epoch' = 1 \div LoaderLen /\ pos' = 0 /\ weights' = 0
        /\ rollout' = 0 /\ awake' = TRUE /\ kept' = 0 /\ numGen' = 0 /\ pc' = "epoch"
        /\ UNCHANGED storeVars /\ consumedAt' = consumedAt
    BY <2>1 DEF StartAt
  <2>3. 1 \div LoaderLen \in Nat
    BY <1>0
  <2> QED BY <1>0, <1>2, <1>3, <2>1, <2>2, <2>3
<1>5. CASE Resume
  <2> DEFINE k == FoundStep
             restored == data[k] # Missing /\ ~AtEpochBoundary(k)
             p == IF restored THEN data[k] ELSE 0
  <2>a. k \in Steps /\ actor[k] # Missing
    BY <1>2, <1>5 DEF Resume, FoundStep, StoreTypeOK
  <2>b. actor[k] \in Nat /\ consumedAt[k] \in Nat
    BY <1>2, <2>a DEF StoreTypeOK
  <2>1. k \in Steps /\ k \in Nat /\ actor[k] \in Nat /\ consumedAt[k] \in Nat
    BY <2>a, <2>b, MaxStepAssumption DEF Steps
  <2>2. data[k] # Missing => data[k] \in 0 .. LoaderLen
    BY <2>1 DEF TypeInv
  <2>3. /\ StartAt(k, actor[k], p) /\ consumed' = consumedAt[k]
        /\ skippedAt' = IF data[k] # Missing /\ ~restored THEN data[k] ELSE NoSkip
    BY <1>5 DEF Resume
  <2>4. p \in 0 .. LoaderLen /\ skippedAt' \in Nat \cup {NoSkip} /\ consumed' \in Nat
    BY <1>0, <2>1, <2>2, <2>3
  <2>5. (k + 1) \div LoaderLen \in Nat
    BY <1>0, <2>1
  <2> HIDE DEF k, p, restored
  <2>6. /\ globalSteps' = k + 1 /\ epoch' = (k + 1) \div LoaderLen /\ pos' = p
        /\ weights' = actor[k] /\ rollout' = actor[k] /\ awake' = TRUE
        /\ kept' = 0 /\ numGen' = 0 /\ pc' = "epoch"
        /\ UNCHANGED storeVars /\ consumedAt' = consumedAt
    BY <2>3 DEF StartAt
  <2> QED BY <1>0, <1>2, <1>3, <2>1, <2>4, <2>5, <2>6
<1>6. CASE LoadFails
  BY <1>0, <1>2, <1>3, <1>6 DEF LoadFails
<1>7. CASE BeginEpoch
  BY <1>0, <1>2, <1>3, <1>7 DEF BeginEpoch
<1>8. CASE NextBatch
  BY <1>0, <1>2, <1>3, <1>8 DEF NextBatch
<1>9. CASE EndOfPass
  BY <1>0, <1>2, <1>3, <1>9 DEF EndOfPass
<1>10. ASSUME NEW n \in 0 .. GenBatch, Generate(n)
       PROVE  TypeOK' /\ \A k \in Steps : data'[k] # Missing => data'[k] \in 0 .. LoaderLen
  <2>1. GenBatch \in Nat
    BY LoaderAssumption
  <2> QED BY <1>0, <1>2, <1>3, <1>10, <2>1 DEF Generate
<1>11. ASSUME NEW esi \in BOOLEAN, Update(esi)
       PROVE  TypeOK' /\ \A k \in Steps : data'[k] # Missing => data'[k] \in 0 .. LoaderLen
  <2>1. /\ pc' \in {"save", "sync", "endStep"} /\ weights' \in Nat /\ awake' = FALSE
        /\ UNCHANGED <<rollout, loopVars, historyVars, storeVars>>
    BY <1>2, <1>11 DEF Update
  <2> QED BY <1>0, <1>2, <1>3, <2>1
<1>12. CASE BeginSave
  BY <1>0, <1>2, <1>12 DEF BeginSave, EnsureCapacity, TypeInv
<1>13. CASE ContinueSave
  <2>1. /\ SaveStep(weights, pos) /\ UNCHANGED <<pc, loopVars, modelVars, crashes, consumed, skippedAt>>
        /\ consumedAt' = IF spc = "data" THEN [consumedAt EXCEPT ![cur] = consumed]
                         ELSE consumedAt
    BY <1>13 DEF ContinueSave
  <2>2. data' = data \/ data' = [data EXCEPT ![cur] = pos]
    BY <2>1 DEF SaveStep, MakeDirectory, WriteActor, Register, WriteData, OpenTracker, WriteTracker
  <2>3. \A k \in Steps : data'[k] # Missing => data'[k] \in 0 .. LoaderLen
    BY <2>2, <1>2 DEF TypeInv, StoreTypeOK
  <2>4. consumedAt' \in [Steps -> Nat]
    BY <2>1, <1>2
  <2> QED BY <1>0, <1>2, <2>1, <2>3, <2>4
<1>14. CASE EndSave
  BY <1>0, <1>2, <1>3, <1>14 DEF EndSave
<1>15. CASE FinalExists
  BY <1>0, <1>2, <1>3, <1>15 DEF FinalExists
<1>16. CASE SyncWeights
  BY <1>0, <1>2, <1>3, <1>16 DEF SyncWeights
<1>17. CASE EndStep
  BY <1>0, <1>2, <1>3, <1>17 DEF EndStep
<1>18. CASE Crash
  BY <1>0, <1>2, <1>18 DEF Crash, LoseMemory, diskVars, TypeInv
<1>19. CASE Stopped \/ UNCHANGED vars
  BY <1>0, <1>2, <1>3, <1>19 DEF Stopped, vars
<1> QED BY <1>4, <1>5, <1>6, <1>7, <1>8, <1>9, <1>10, <1>11, <1>12, <1>13, <1>14, <1>15,
           <1>16, <1>17, <1>18, <1>19 DEF Next, Driver

LEMMA TypeInvariance == ASSUME MaxKeep # 1 PROVE Spec => []TypeInv
<1>1. Init => TypeInv
  <2> SUFFICES ASSUME Init PROVE TypeInv
    OBVIOUS
  <2>1. StoreTypeOK
    BY StoreInitInv DEF Init, StoreInv
  <2>2. MaxCrashes \in Nat /\ LoaderLen \in Nat
    BY LoaderAssumption
  <2>3. \A k \in Steps : data[k] = Missing
    BY DEF Init, StoreInit
  <2>4. consumedAt \in [Steps -> Nat]
    BY DEF Init
  <2>6. awake \in BOOLEAN
    BY DEF Init
  <2>7. /\ pc = "load" /\ globalSteps = 0 /\ epoch = 0 /\ pos = 0 /\ kept = 0 /\ numGen = 0
        /\ weights = 0 /\ rollout = 0 /\ crashes = 0 /\ consumed = 0 /\ skippedAt = NoSkip
    BY DEF Init
  <2>5. TypeOK
    BY <2>1, <2>2, <2>4, <2>6, <2>7 DEF TypeOK
  <2> QED BY <2>3, <2>5 DEF TypeInv
<1>2. DapoInv /\ DapoInv' /\ TypeInv /\ [Next]_vars => TypeInv'
  BY TypeStep
<1> QED BY <1>1, <1>2, DapoInvariance, PTL DEF Spec

(* Every variable keeps its type: a restored dataloader is within its pass, *)
(* whatever was resumed.                                                    *)
THEOREM DapoTypes == ASSUME MaxKeep # 1 PROVE Spec => []TypeOK
<1>1. TypeInv => TypeOK
  BY DEF TypeInv
<1> QED BY <1>1, TypeInvariance, PTL

-----------------------------------------------------------------------------
(* Epochs: without a crash what was consumed is what the passes have        *)
(* yielded.                                                                 *)
Looping == {"next", "generate", "update", "save", "sync", "endStep"}

EpochInv ==
    crashes = 0 =>
        /\ pc = "load" => tracker = NoTracker
        /\ pc = "epoch" => epoch <= TotalEpochs /\ (epoch < TotalEpochs => pos = 0)
        /\ pc \in Looping => epoch < TotalEpochs /\ consumed = epoch * LoaderLen + pos
        /\ pc \in {"epoch", "final"} => consumed = epoch * LoaderLen
        /\ pc = "final" => epoch = TotalEpochs

LEMMA EpochStep == ASSUME LoaderLen # 1, TypeInv, EpochInv, [Next]_vars PROVE EpochInv'
<1>a. /\ LoaderLen \in Nat /\ LoaderLen > 1 /\ TotalEpochs \in Nat /\ TotalEpochs > 0
      /\ MaxCrashes \in Nat
  BY LoaderAssumption
<1>b. /\ epoch \in Nat /\ pos \in Nat /\ consumed \in Nat /\ crashes \in Nat
  BY <1>a DEF TypeInv, TypeOK
<1>c. epoch * LoaderLen \in Nat
  BY <1>a, <1>b
<1>d. NoTracker = 0
  BY DEF NoTracker
<1>0. /\ LoaderLen \in Nat /\ LoaderLen > 1 /\ TotalEpochs \in Nat /\ TotalEpochs > 0
      /\ epoch \in Nat /\ pos \in Nat /\ consumed \in Nat /\ crashes \in Nat
      /\ epoch * LoaderLen \in Nat /\ NoTracker = 0
  BY <1>a, <1>b, <1>c, <1>d
<1> USE DEF EpochInv, Looping, modelVars, historyVars, loopVars
<1>1. CASE LoadNothing
  <2>1. /\ epoch' = (0 + 1) \div LoaderLen /\ pos' = 0 /\ consumed' = 0 /\ pc' = "epoch"
    BY <1>1 DEF LoadNothing, StartAt
  <2>2. 1 \div LoaderLen = 0
    BY <1>0
  <2>3. epoch' = 0 /\ 0 * LoaderLen = 0
    BY <1>0, <2>1, <2>2
  <2> QED BY <1>0, <2>1, <2>3
<1>2. CASE Resume
  BY <1>0, <1>2 DEF Resume, FoundStep, StartAt
<1>3. CASE LoadFails \/ BeginEpoch \/ FinalExists \/ Stopped \/ UNCHANGED vars \/ SyncWeights
           \/ EndStep
  BY <1>0, <1>3 DEF LoadFails, BeginEpoch, FinalExists, Stopped, vars, storeVars, diskVars,
     SyncWeights, EndStep
<1>4. CASE NextBatch
  BY <1>0, <1>4 DEF NextBatch
<1>5. CASE EndOfPass
  <2>1. /\ pc = "next" /\ pos = LoaderLen /\ epoch' = epoch + 1 /\ pc' = "epoch"
        /\ pos' = (IF epoch' < TotalEpochs THEN 0 ELSE pos)
        /\ UNCHANGED <<crashes, consumed>>
    BY <1>5 DEF EndOfPass
  <2>2. (epoch + 1) * LoaderLen = epoch * LoaderLen + LoaderLen
    BY <1>0
  <2> QED BY <1>0, <2>1, <2>2
<1>6. ASSUME NEW n \in 0 .. GenBatch, Generate(n) PROVE EpochInv'
  BY <1>0, <1>6 DEF Generate
<1>7. ASSUME NEW esi \in BOOLEAN, Update(esi) PROVE EpochInv'
  BY <1>0, <1>7 DEF Update
<1>8. CASE BeginSave
  BY <1>0, <1>8 DEF BeginSave, EnsureCapacity
<1>9. CASE ContinueSave
  BY <1>0, <1>9 DEF ContinueSave
<1>10. CASE EndSave
  BY <1>0, <1>10 DEF EndSave
<1>11. CASE Crash
  BY <1>0, <1>11 DEF Crash
<1> QED BY <1>1, <1>2, <1>3, <1>4, <1>5, <1>6, <1>7, <1>8, <1>9, <1>10, <1>11 DEF Next, Driver

(* A run without crashes that ends by its epochs has passed the whole       *)
(* dataloader in each, for a loader of more than one batch.  With one batch *)
(* the first epoch is skipped: global_steps is 1 when fit divides it.       *)
THEOREM EpochsHold ==
    ASSUME MaxKeep # 1, LoaderLen # 1 PROVE Spec => []EpochsAreComplete
<1>1. Init => EpochInv
  BY DEF Init, StoreInit, EpochInv, Looping
<1>2. TypeInv /\ EpochInv /\ [Next]_vars => EpochInv'
  BY EpochStep
<1>3. TypeInv /\ EpochInv => EpochsAreComplete
  <2> SUFFICES ASSUME TypeInv, EpochInv, pc = "final", crashes = 0
               PROVE  consumed = TotalEpochs * LoaderLen
    BY DEF EpochsAreComplete
  <2> QED BY DEF EpochInv
<1> QED BY <1>1, <1>2, <1>3, TypeInvariance, PTL DEF Spec

-----------------------------------------------------------------------------
(* Saving: once the actor is written, the checkpoint has the weights.       *)
SaveInv ==
    pc \in {"save", "final"} /\ cur = globalSteps /\ spc \notin {"mkdir", "actor"}
        => actor[cur] = weights

(* Rotation removes an actor or leaves it alone.                            *)
LEMMA RotationKeepsActor ==
    ASSUME actor \in [Steps -> Nat \cup {Missing}], NEW k \in Steps, NEW s,
           EnsureCapacity(s) \/ Register, actor'[k] # Missing
    PROVE  actor'[k] = actor[k]
<1>1. CASE actor' = actor
  BY <1>1
<1>2. ASSUME NEW paths, NEW n, Evict(paths, n) PROVE actor'[k] = actor[k]
  BY <1>2 DEF Evict
<1> QED BY <1>1, <1>2 DEF EnsureCapacity, Register

LEMMA SaveInvStep ==
    ASSUME DapoInv, DapoInv', TypeInv, SaveInv, [Next]_vars PROVE SaveInv'
<1> USE DEF SaveInv, modelVars, loopVars
<1>0. actor \in [Steps -> Nat \cup {Missing}] /\ weights \in Nat
  BY DEF TypeInv, TypeOK, StoreTypeOK
<1>1. CASE LoadNothing \/ Resume \/ LoadFails
  BY <1>1 DEF LoadNothing, Resume, LoadFails, StartAt
<1>2. CASE BeginEpoch
  <2>1. pc = "epoch" /\ cur # globalSteps /\ cur' = cur /\ globalSteps' = globalSteps
    BY <1>2 DEF BeginEpoch, DapoInv, LoopInv, storeVars
  <2> QED BY <2>1
<1>3. CASE NextBatch \/ EndOfPass \/ FinalExists \/ SyncWeights \/ EndStep \/ Crash
  BY <1>3 DEF NextBatch, EndOfPass, FinalExists, SyncWeights, EndStep, Crash
<1>4. ASSUME NEW n \in 0 .. GenBatch, Generate(n) PROVE SaveInv'
  BY <1>4 DEF Generate
<1>5. ASSUME NEW esi \in BOOLEAN, Update(esi) PROVE SaveInv'
  <2>1. pc = "update" /\ cur # globalSteps /\ cur' = cur /\ globalSteps' = globalSteps
    BY <1>5 DEF Update, DapoInv, LoopInv, storeVars
  <2> QED BY <2>1
<1>6. CASE BeginSave
  BY <1>6 DEF BeginSave, EnsureCapacity
<1>7. CASE ContinueSave
  <2>1. /\ pc \in {"save", "final"} /\ SaveStep(weights, pos)
        /\ UNCHANGED <<pc, globalSteps, weights>> /\ spc # "idle" /\ cur' = cur /\ cur \in Steps
    BY <1>7 DEF ContinueSave, SaveStep, MakeDirectory, WriteActor, Register, WriteData,
       OpenTracker, WriteTracker, DapoInv, StoreInv, SavingLater
  <2>2. CASE MakeDirectory
    BY <2>2 DEF MakeDirectory
  <2>3. CASE WriteActor(weights)
    BY <1>0, <2>1, <2>3 DEF WriteActor
  <2>4. CASE Register
    <3>1. spc = "register" /\ spc' = "data"
      BY <2>4 DEF Register
    <3>2. actor'[cur] # Missing
      BY <2>1, <3>1 DEF DapoInv, StoreInv, WrittenSoFar
    <3>3. actor'[cur] = actor[cur]
      BY <1>0, <2>1, <2>4, <3>2, RotationKeepsActor
    <3> QED BY <2>1, <3>1, <3>3
  <2>5. CASE WriteData(pos) \/ OpenTracker \/ WriteTracker
    BY <2>1, <2>5 DEF WriteData, OpenTracker, WriteTracker
  <2> QED BY <2>1, <2>2, <2>3, <2>4, <2>5 DEF SaveStep
<1>8. CASE EndSave
  BY <1>8 DEF EndSave
<1>9. CASE Stopped \/ UNCHANGED vars
  BY <1>9 DEF Stopped, vars, storeVars, diskVars
<1> QED BY <1>1, <1>2, <1>3, <1>4, <1>5, <1>6, <1>7, <1>8, <1>9 DEF Next, Driver

-----------------------------------------------------------------------------
(* Lost work: how far the weights are ahead of the tracked checkpoint       *)
(* depends on the position between two regular saves, and before the end of *)
(* the critic's warm-up they are not ahead at all.                          *)
Lag == weights - UpdatesInTracked

SinceSave(g) == g % SaveFreq

LagInv ==
    /\ pc \in {"save", "sync"} => CriticWarmup <= globalSteps
    /\ tracker # Torn =>
        /\ pc \in {"epoch", "next", "generate", "update", "final"} =>
              Lag <= SinceSave(globalSteps - 1)
        /\ pc \in {"save", "done"} => Lag <= SaveFreq
        /\ pc \in {"sync", "endStep"} => Lag <= SinceSave(globalSteps)
        /\ pc \in {"epoch", "next", "generate", "update"} /\ globalSteps <= CriticWarmup =>
              weights <= UpdatesInTracked
        /\ pc = "endStep" /\ globalSteps < CriticWarmup => weights <= UpdatesInTracked

LEMMA ModStep ==
    ASSUME NEW F \in Nat \ {0}, NEW g \in Nat
    PROVE  /\ g % F \in Nat /\ g % F < F
           /\ (g + 1) % F = 0 \/ (g + 1) % F = (g % F) + 1
<1> DEFINE q == g \div F
           t == (g + 1) \div F
           a == g % F
           b == (g + 1) % F
<1>1. /\ q \in Int /\ t \in Int /\ a \in 0 .. F - 1 /\ b \in 0 .. F - 1
      /\ g = F * q + a /\ g + 1 = F * t + b
  OBVIOUS
<1> HIDE DEF q, t, a, b
<1>2. F * (t - q) = a + 1 - b
  <2>1. F * (t - q) = F * t - F * q /\ F * t \in Int /\ F * q \in Int
    BY <1>1
  <2> QED BY <1>1, <2>1
<1>3. t - q = 0 \/ t - q = 1
  <2>1. ASSUME t - q >= 2 PROVE FALSE
    <3>1. F * (t - q) >= F * 2
      BY <1>1, <2>1
    <3> QED BY <1>1, <1>2, <3>1
  <2>2. ASSUME t - q <= -1 PROVE FALSE
    <3>1. F * (t - q) <= F * (-1)
      BY <1>1, <2>2
    <3> QED BY <1>1, <1>2, <3>1
  <2> QED BY <1>1, <2>1, <2>2
<1>4. CASE t - q = 0
  <2>1. F * (t - q) = 0
    BY <1>4
  <2> QED BY <1>1, <1>2, <2>1 DEF a, b
<1>5. CASE t - q = 1
  <2>1. F * (t - q) = F
    BY <1>5
  <2>2. b = 0
    BY <1>1, <1>2, <2>1
  <2> QED BY <1>1, <2>2 DEF a, b
<1> QED BY <1>3, <1>4, <1>5

LEMMA SinceSaveFacts ==
    ASSUME SaveFreq > 0, NEW g \in Nat
    PROVE  /\ SinceSave(g) \in Nat /\ SinceSave(g) < SaveFreq
           /\ SinceSave(g + 1) = 0 \/ SinceSave(g + 1) = SinceSave(g) + 1
           /\ g % SaveFreq # 0 => SinceSave(g) # 0
<1>1. SaveFreq \in Nat \ {0}
  BY LoaderAssumption
<1> QED BY <1>1, ModStep DEF SinceSave

LEMMA TrackedFacts ==
    ASSUME DapoInv
    PROVE  /\ UpdatesInTracked \in Nat
           /\ tracker \in Steps => UpdatesInTracked = actor[tracker] /\ actor[tracker] # Missing
           /\ tracker = 0 => UpdatesInTracked = 0
<1>1. 0 \notin Steps /\ actor \in [Steps -> Nat \cup {Missing}]
  BY MaxStepAssumption DEF DapoInv, StoreInv, StoreTypeOK, Steps
<1>2. tracker \in Steps => actor[tracker] # Missing /\ actor[tracker] \in Nat
  BY <1>1 DEF DapoInv, StoreInv, TrackedIsLoadable
<1> QED BY <1>1, <1>2 DEF UpdatesInTracked

LEMMA TrackedNat == DapoInv => UpdatesInTracked \in Nat
BY TrackedFacts

(* A save leaves the tracked actor alone until the tracker changes.         *)
LEMMA TrackedKept ==
    ASSUME DapoInv, DapoInv', tracker' = tracker, NEW w, NEW p, NEW s,
           EnsureCapacity(s) \/ SaveStep(w, p)
    PROVE  UpdatesInTracked' = UpdatesInTracked
<1>1. CASE tracker \notin Steps
  BY <1>1 DEF UpdatesInTracked
<1>2. CASE tracker \in Steps
  <2>0. actor \in [Steps -> Nat \cup {Missing}]
    BY DEF DapoInv, StoreInv, StoreTypeOK
  <2>1. actor'[tracker] # Missing
    BY <1>2 DEF DapoInv, StoreInv, TrackedIsLoadable
  <2>2. actor'[tracker] = actor[tracker]
    <3>1. CASE EnsureCapacity(s) \/ Register
      BY <1>2, <2>0, <2>1, <3>1, RotationKeepsActor
    <3>2. CASE MakeDirectory \/ WriteActor(w)
      <4>1. tracker # cur
        BY <3>2, Numbers DEF MakeDirectory, WriteActor, DapoInv, StoreInv, SavingLater
      <4> QED BY <1>2, <2>0, <3>2, <4>1 DEF MakeDirectory, WriteActor
    <3>3. CASE WriteData(p) \/ OpenTracker \/ WriteTracker
      BY <3>3 DEF WriteData, OpenTracker, WriteTracker
    <3> QED BY <3>1, <3>2, <3>3 DEF SaveStep
  <2> QED BY <1>2, <2>2 DEF UpdatesInTracked
<1> QED BY <1>1, <1>2

LEMMA LagStep ==
    ASSUME SaveFreq > 0, DapoInv, DapoInv', TypeInv, SaveInv, SaveInv', LagInv, [Next]_vars PROVE LagInv'
<1>0. /\ SaveFreq \in Nat \ {0} /\ CriticWarmup \in Nat /\ weights \in Nat /\ globalSteps \in Nat
      /\ UpdatesInTracked \in Nat /\ UpdatesInTracked' \in Nat /\ weights' \in Nat
  <2>1. UpdatesInTracked \in Nat
    BY TrackedFacts
  <2>2. (DapoInv => UpdatesInTracked \in Nat)'
    BY TrackedNat, PTL
  <2> QED BY LoaderAssumption, <2>1, <2>2 DEF DapoInv, LoopInv
<1>a. ASSUME UNCHANGED storeVars
      PROVE  UpdatesInTracked' = UpdatesInTracked /\ tracker' = tracker
  BY <1>a DEF UpdatesInTracked, storeVars, diskVars
<1>b. pc \notin {"load", "done", "failed"} => globalSteps > 0
  BY DEF DapoInv, LoopInv
<1>c. SinceSave(globalSteps) \in Nat
  BY <1>0, SinceSaveFacts
<1>d. globalSteps > 0 =>
        /\ SinceSave(globalSteps - 1) \in Nat /\ SinceSave(globalSteps - 1) < SaveFreq
        /\ \/ SinceSave(globalSteps) = 0
           \/ SinceSave(globalSteps) = (SinceSave(globalSteps - 1)) + 1
  <2> SUFFICES ASSUME globalSteps > 0
               PROVE /\ SinceSave(globalSteps - 1) \in Nat /\ SinceSave(globalSteps - 1) < SaveFreq
                     /\ \/ SinceSave(globalSteps) = 0
                        \/ SinceSave(globalSteps) = (SinceSave(globalSteps - 1)) + 1
    OBVIOUS
  <2>1. globalSteps - 1 \in Nat /\ (globalSteps - 1) + 1 = globalSteps
    BY <1>0
  <2> QED BY <1>0, <2>1, SinceSaveFacts
<1> USE DEF LagInv, Lag, modelVars, loopVars
<1>1. CASE LoadNothing \/ Resume
  <2>1. weights' = UpdatesInTracked' /\ globalSteps' - 1 \in Nat /\ pc' = "epoch"
    <3>1. CASE LoadNothing
      <4>1. /\ tracker # Torn /\ FoundStep = 0 /\ weights' = 0 /\ globalSteps' = 1 /\ pc' = "epoch"
            /\ UNCHANGED storeVars
        BY <3>1 DEF LoadNothing, StartAt
      <4>2. UpdatesInTracked = 0
        BY <4>1, TrackedFacts, Numbers DEF FoundStep, DapoInv, StoreInv, TrackedIsLoadable, Torn
      <4> QED BY <1>a, <4>1, <4>2
    <3>2. CASE Resume
      <4>1. /\ FoundStep # 0 /\ weights' = actor[FoundStep] /\ globalSteps' = FoundStep + 1
            /\ pc' = "epoch" /\ UNCHANGED storeVars
        BY <3>2 DEF Resume, StartAt
      <4>2. FoundStep = tracker /\ tracker \in Steps /\ tracker \in Nat
        BY <4>1, Numbers DEF FoundStep, DapoInv, StoreInv, StoreTypeOK, Steps
      <4> QED BY <1>a, <4>1, <4>2, TrackedFacts
    <3> QED BY <1>1, <3>1, <3>2
  <2>2. SinceSave(globalSteps' - 1) \in Nat
    BY <1>0, <2>1, SinceSaveFacts
  <2>3. weights' - UpdatesInTracked' <= SinceSave(globalSteps' - 1)
    BY <1>0, <2>1, <2>2
  <2>4. weights' <= UpdatesInTracked'
    BY <1>0, <2>1
  <2> QED BY <2>1, <2>3, <2>4
<1>2. CASE LoadFails \/ Crash
  BY <1>2 DEF LoadFails, Crash
<1>3. CASE BeginEpoch \/ NextBatch \/ EndOfPass
  <2>1. /\ pc \in {"epoch", "next"} /\ pc' \in {"epoch", "next", "generate", "final"}
        /\ UNCHANGED <<globalSteps, weights>> /\ UNCHANGED storeVars
    BY <1>3 DEF BeginEpoch, NextBatch, EndOfPass
  <2> QED BY <1>0, <1>a, <2>1
<1>4. ASSUME NEW n \in 0 .. GenBatch, Generate(n) PROVE LagInv'
  <2>1. /\ pc = "generate" /\ pc' \in {"update", "next", "failed"}
        /\ UNCHANGED <<globalSteps, weights>> /\ UNCHANGED storeVars
    BY <1>4 DEF Generate
  <2> QED BY <1>0, <1>a, <2>1
<1>5. ASSUME NEW esi \in BOOLEAN, Update(esi) PROVE LagInv'
  <2>0. /\ pc = "update" /\ globalSteps' = globalSteps /\ UNCHANGED storeVars
        /\ tracker # Torn
    BY <1>5 DEF Update, DapoInv, LoopInv
  <2>1. CASE CriticWarmup <= globalSteps
    <3>1. /\ weights' = weights + 1 /\ pc' \in {"save", "sync"}
          /\ pc' = "sync" => SinceSave(globalSteps) # 0
      BY <1>5, <2>1 DEF Update, SinceSave
    <3> QED BY <1>0, <1>a, <1>b, <1>c, <1>d, <2>0, <2>1, <3>1
  <2>2. CASE ~(CriticWarmup <= globalSteps)
    <3>1. weights' = weights /\ pc' = "endStep"
      BY <1>5, <2>2 DEF Update
    <3> QED BY <1>0, <1>a, <1>c, <2>0, <2>2, <3>1
  <2> QED BY <2>1, <2>2
<1>6. CASE BeginSave
  <2>1. /\ EnsureCapacity(globalSteps) /\ UNCHANGED <<pc, globalSteps, weights>>
        /\ tracker' = tracker
    BY <1>6 DEF BeginSave, EnsureCapacity
  <2>2. UpdatesInTracked' = UpdatesInTracked
    BY <2>1, TrackedKept
  <2> QED BY <1>0, <2>1, <2>2
<1>7. CASE ContinueSave
  <2>1. /\ pc \in {"save", "final"} /\ SaveStep(weights, pos) /\ UNCHANGED <<pc, globalSteps, weights>>
        /\ globalSteps > 0
    BY <1>7, <1>b DEF ContinueSave
  <2>2. CASE tracker' = tracker
    <3>1. UpdatesInTracked' = UpdatesInTracked
      BY <2>1, <2>2, TrackedKept
    <3> QED BY <1>0, <2>1, <2>2, <3>1
  <2>3. CASE OpenTracker
    BY <1>0, <2>1, <2>3 DEF OpenTracker
  <2>4. CASE WriteTracker
    <3>1. spc = "write" /\ tracker' = cur /\ cur \in Steps /\ cur = globalSteps /\ actor' = actor
      BY <2>1, <2>4 DEF WriteTracker, DapoInv, StoreInv, SavingLater, LoopInv
    <3>2. actor[cur] = weights
      BY <2>1, <3>1 DEF SaveInv
    <3>3. UpdatesInTracked' = weights
      BY <3>1, <3>2, TrackedFacts DEF UpdatesInTracked, Steps
    <3>4. weights' - UpdatesInTracked' <= SinceSave(globalSteps - 1)
      BY <1>0, <1>d, <2>1, <3>3
    <3>6. weights' - UpdatesInTracked' <= SaveFreq /\ weights' <= UpdatesInTracked'
      BY <1>0, <2>1, <3>3
    <3> QED BY <2>1, <3>4, <3>6
  <2> QED BY <2>1, <2>2, <2>3, <2>4 DEF SaveStep, MakeDirectory, WriteActor, Register, WriteData
<1>8. CASE EndSave
  <2>1. /\ pc \in {"save", "final"} /\ pc' = (IF pc = "save" THEN "sync" ELSE "done")
        /\ spc = "idle" /\ cur = globalSteps
        /\ UNCHANGED <<globalSteps, weights>> /\ UNCHANGED storeVars
    BY <1>8 DEF EndSave
  <2>2. tracker = globalSteps /\ tracker \in Steps /\ tracker # Torn
    <3>1. tracker = globalSteps /\ globalSteps > 0
      BY <2>1, <1>b DEF DapoInv, LoopInv
    <3> QED BY <3>1, <1>0, Numbers DEF Torn
  <2>3. UpdatesInTracked = weights
    BY <2>1, <2>2, TrackedFacts DEF SaveInv
  <2> QED BY <1>0, <1>a, <1>c, <2>1, <2>2, <2>3
<1>9. CASE FinalExists
  <2>1. pc = "final" /\ pc' = "done" /\ UNCHANGED <<globalSteps, weights>> /\ UNCHANGED storeVars
    BY <1>9 DEF FinalExists
  <2> QED BY <1>0, <1>a, <1>b, <1>d, <2>1
<1>10. CASE SyncWeights
  <2>1. pc = "sync" /\ pc' = "endStep" /\ UNCHANGED <<globalSteps, weights>> /\ UNCHANGED storeVars
    BY <1>10 DEF SyncWeights
  <2> QED BY <1>0, <1>a, <2>1
<1>11. CASE EndStep
  <2>1. /\ pc = "endStep" /\ UNCHANGED weights /\ UNCHANGED storeVars
        /\ \/ pc' = "done" /\ globalSteps' = globalSteps
           \/ pc' = "next" /\ globalSteps' = globalSteps + 1
    BY <1>11 DEF EndStep
  <2>2. SinceSave(globalSteps) < SaveFreq
    BY <1>0, SinceSaveFacts
  <2>3. (globalSteps + 1) - 1 = globalSteps
    BY <1>0
  <2>4. CASE pc' = "done" /\ globalSteps' = globalSteps
    BY <1>0, <1>a, <1>c, <2>1, <2>2, <2>4
  <2>5. CASE pc' = "next" /\ globalSteps' = globalSteps + 1
    BY <1>0, <1>a, <1>c, <2>1, <2>3, <2>5
  <2> QED BY <2>1, <2>4, <2>5
<1>12. CASE Stopped \/ UNCHANGED vars
  <2>1. UNCHANGED <<pc, globalSteps, weights>> /\ UNCHANGED storeVars
    BY <1>12 DEF Stopped, vars
  <2> QED BY <1>0, <1>a, <2>1
<1> QED BY <1>1, <1>2, <1>3, <1>4, <1>5, <1>6, <1>7, <1>8, <1>9, <1>10, <1>11, <1>12
        DEF Next, Driver

LEMMA LagInvariance == ASSUME MaxKeep # 1, SaveFreq > 0 PROVE Spec => [](SaveInv /\ LagInv)
<1>1. Init => SaveInv /\ LagInv
  BY DEF Init, SaveInv, LagInv
<1>2. DapoInv /\ DapoInv' /\ TypeInv /\ SaveInv /\ LagInv /\ [Next]_vars => SaveInv' /\ LagInv'
  BY SaveInvStep, LagStep
<1> QED BY <1>1, <1>2, DapoInvariance, TypeInvariance, PTL DEF Spec

(* However often the driver dies, and wherever in a save, the checkpoint    *)
(* that a restart would load is at most SaveFreq updates old -- unless the  *)
(* crash left an empty tracker, with which no restart loads anything.       *)
THEOREM LostWorkIsBounded == ASSUME MaxKeep # 1 PROVE Spec => []LostWorkBounded
<1>1. CASE SaveFreq > 0
  <2>1. DapoInv /\ TypeInv /\ LagInv => LostWorkBounded
    <3> SUFFICES ASSUME DapoInv, TypeInv, LagInv, tracker # Torn, pc \notin {"load", "failed"}
                 PROVE  Lag <= SaveFreq
      BY DEF LostWorkBounded, Lag
    <3>1. /\ SaveFreq \in Nat \ {0} /\ globalSteps \in Nat /\ weights \in Nat
          /\ UpdatesInTracked \in Nat
      BY <1>1, LoaderAssumption, TrackedFacts DEF DapoInv, LoopInv
    <3>2. SinceSave(globalSteps) \in Nat /\ SinceSave(globalSteps) < SaveFreq
      BY <1>1, <3>1, SinceSaveFacts
    <3>3. ASSUME globalSteps > 0
          PROVE  SinceSave(globalSteps - 1) \in Nat /\ SinceSave(globalSteps - 1) < SaveFreq
      BY <1>1, <3>1, <3>3, SinceSaveFacts
    <3>4. pc \notin {"load", "done", "failed"} => globalSteps > 0
      BY DEF DapoInv, LoopInv
    <3> QED BY <3>1, <3>2, <3>3, <3>4 DEF LagInv, Lag, TypeInv, TypeOK
  <2> QED BY <1>1, <2>1, LagInvariance, DapoInvariance, TypeInvariance, PTL
<1>2. CASE ~(SaveFreq > 0)
  <2>1. LostWorkBounded
    BY <1>2 DEF LostWorkBounded
  <2> QED BY <2>1, PTL
<1> QED BY <1>1, <1>2

-----------------------------------------------------------------------------
(* The end of a run without a crash: nothing has been updated before the    *)
(* critic is warm, and the last step after that is saved.                   *)
FinalInv ==
    crashes = 0 =>
        /\ pc = "load" => tracker = NoTracker /\ dirs = {} /\ weights = 0
        /\ \A d \in dirs : d <= cur
        /\ pc \in {"epoch", "next", "generate", "update"} /\ globalSteps <= CriticWarmup =>
              weights = 0 /\ tracker = NoTracker
        /\ pc = "endStep" /\ globalSteps < CriticWarmup => weights = 0 /\ tracker = NoTracker
        /\ \/ pc = "sync" /\ IsLastStep
           \/ pc = "endStep" /\ IsLastStep /\ CriticWarmup <= globalSteps
           => UpdatesInTracked = weights
        /\ pc = "done" => UpdatesInTracked = weights

LEMMA FinalStep ==
    ASSUME SaveFreq > 0, DapoInv, DapoInv', TypeInv, SaveInv, LagInv, FinalInv, [Next]_vars
    PROVE  FinalInv'
<1>0. /\ CriticWarmup \in Nat /\ globalSteps \in Nat /\ crashes \in Nat /\ cur \in Int
      /\ \A d \in dirs : d \in Int
      /\ NoTracker = 0 /\ TotalSteps \in Nat
  BY LoaderAssumption, Numbers DEF DapoInv, LoopInv, StoreInv, StoreTypeOK, Steps, NoTracker
<1>a. ASSUME UNCHANGED storeVars
      PROVE  /\ UpdatesInTracked' = UpdatesInTracked
             /\ tracker' = tracker /\ dirs' = dirs /\ cur' = cur
  BY <1>a DEF UpdatesInTracked, storeVars, diskVars
<1>b. tracker = NoTracker => UpdatesInTracked = 0
  BY <1>0, TrackedFacts
<1>c. crashes' = crashes + 1 \/ crashes' = crashes
  BY DEF Next, Driver, LoadNothing, Resume, LoadFails, BeginEpoch, NextBatch, EndOfPass, Generate,
     Update, BeginSave, ContinueSave, EndSave, FinalExists, SyncWeights, EndStep, Crash, Stopped,
     StartAt, vars, historyVars
<1> SUFFICES ASSUME crashes = 0, crashes' = 0 PROVE FinalInv'
  BY <1>0, <1>c DEF FinalInv
<1> USE DEF FinalInv, IsLastStep, modelVars, loopVars
<1>1. CASE LoadNothing
  <2>1. /\ pc = "load" /\ weights' = 0 /\ pc' = "epoch" /\ UNCHANGED storeVars
    BY <1>1 DEF LoadNothing, StartAt
  <2> QED BY <1>0, <1>a, <2>1
<1>2. CASE Resume
  <2>1. pc = "load" /\ FoundStep # 0
    BY <1>2 DEF Resume
  <2> QED BY <1>0, <2>1 DEF FoundStep
<1>3. CASE LoadFails
  <2>1. pc' = "failed" /\ UNCHANGED storeVars
    BY <1>3 DEF LoadFails
  <2> QED BY <1>0, <1>a, <2>1
<1>4. CASE BeginEpoch \/ NextBatch \/ EndOfPass
  <2>1. /\ pc \in {"epoch", "next"} /\ pc' \in {"epoch", "next", "generate", "final"}
        /\ UNCHANGED <<globalSteps, weights>> /\ UNCHANGED storeVars
    BY <1>4 DEF BeginEpoch, NextBatch, EndOfPass
  <2> QED BY <1>0, <1>a, <2>1
<1>5. ASSUME NEW n \in 0 .. GenBatch, Generate(n) PROVE FinalInv'
  <2>1. /\ pc = "generate" /\ pc' \in {"update", "next", "failed"}
        /\ UNCHANGED <<globalSteps, weights>> /\ UNCHANGED storeVars
    BY <1>5 DEF Generate
  <2> QED BY <1>0, <1>a, <2>1
<1>6. ASSUME NEW esi \in BOOLEAN, Update(esi) PROVE FinalInv'
  <2>0. /\ pc = "update" /\ globalSteps' = globalSteps /\ UNCHANGED storeVars
    BY <1>6 DEF Update
  <2>1. CASE CriticWarmup <= globalSteps
    <3>1. pc' \in {"save", "sync"} /\ (pc' = "sync" => ~IsLastStep)
      BY <1>6, <2>1 DEF Update
    <3> QED BY <1>0, <1>a, <2>0, <2>1, <3>1
  <2>2. CASE ~(CriticWarmup <= globalSteps)
    <3>1. weights' = weights /\ pc' = "endStep"
      BY <1>6, <2>2 DEF Update
    <3> QED BY <1>0, <1>a, <2>0, <2>2, <3>1
  <2> QED BY <2>1, <2>2
<1>7. CASE BeginSave
  <2>1. /\ pc \in {"save", "final"} /\ pc' = pc /\ dirs' = dirs /\ cur' = globalSteps
    BY <1>7 DEF BeginSave, EnsureCapacity
  <2>2. cur <= globalSteps
    BY <2>1 DEF DapoInv, LoopInv
  <2> QED BY <1>0, <2>1, <2>2
<1>8. CASE ContinueSave
  <2>1. /\ pc \in {"save", "final"} /\ pc' = pc /\ cur' = cur /\ (dirs' = dirs \/ dirs' = dirs \cup {cur})
    BY <1>8 DEF ContinueSave, SaveStep, MakeDirectory, WriteActor, Register, WriteData,
       OpenTracker, WriteTracker
  <2> QED BY <1>0, <2>1
<1>9. CASE EndSave
  <2>1. /\ pc \in {"save", "final"} /\ pc' \in {"sync", "done"}
        /\ spc = "idle" /\ cur = globalSteps
        /\ UNCHANGED <<globalSteps, weights>> /\ UNCHANGED storeVars
    BY <1>9 DEF EndSave
  <2>2. tracker = globalSteps /\ globalSteps > 0 /\ tracker \in Steps
    BY <2>1, Numbers DEF DapoInv, LoopInv, Torn
  <2>3. UpdatesInTracked = weights
    BY <2>1, <2>2, TrackedFacts DEF SaveInv
  <2> QED BY <1>0, <1>a, <2>1, <2>3
<1>10. CASE FinalExists
  <2>1. pc = "final" /\ cur # globalSteps /\ globalSteps \in dirs
    BY <1>10 DEF FinalExists
  <2>2. cur <= globalSteps
    BY <2>1 DEF DapoInv, LoopInv
  <2> QED BY <1>0, <2>1, <2>2
<1>11. CASE SyncWeights
  <2>1. /\ pc = "sync" /\ pc' = "endStep" /\ UNCHANGED <<globalSteps, weights>> /\ UNCHANGED storeVars
    BY <1>11 DEF SyncWeights
  <2>2. CriticWarmup <= globalSteps
    BY <2>1 DEF LagInv
  <2> QED BY <1>0, <1>a, <2>1, <2>2
<1>12. CASE EndStep
  <2>1. /\ pc = "endStep" /\ UNCHANGED weights /\ UNCHANGED storeVars
        /\ \/ IsLastStep /\ pc' = "done" /\ globalSteps' = globalSteps
           \/ pc' = "next" /\ globalSteps' = globalSteps + 1
    BY <1>12 DEF EndStep
  <2>2. CASE pc' = "done" /\ IsLastStep
    BY <1>0, <1>a, <1>b, <2>1, <2>2
  <2>3. CASE pc' = "next" /\ globalSteps' = globalSteps + 1
    BY <1>0, <1>a, <2>1, <2>3
  <2> QED BY <2>1, <2>2, <2>3
<1>13. CASE Crash
  BY <1>0, <1>13 DEF Crash
<1>14. CASE Stopped \/ UNCHANGED vars
  <2>1. UNCHANGED <<pc, globalSteps, weights>> /\ UNCHANGED storeVars
    BY <1>14 DEF Stopped, vars
  <2> QED BY <1>0, <1>a, <2>1
<1> QED BY <1>1, <1>2, <1>3, <1>4, <1>5, <1>6, <1>7, <1>8, <1>9, <1>10, <1>11, <1>12, <1>13, <1>14
        DEF Next, Driver

(* The checkpoint that a finished run without crashes leaves holds the      *)
(* final weights, also when it ends with an epoch or within the warm-up.    *)
THEOREM FinalWeightsAreSaved == ASSUME MaxKeep # 1 PROVE Spec => []FinalWeightsSaved
<1>1. CASE SaveFreq > 0
  <2>1. Init => FinalInv
    BY DEF Init, StoreInit, FinalInv
  <2>2. /\ DapoInv /\ DapoInv' /\ TypeInv /\ SaveInv /\ LagInv /\ FinalInv /\ [Next]_vars
        => FinalInv'
    BY <1>1, FinalStep
  <2>3. FinalInv => FinalWeightsSaved
    BY DEF FinalInv, FinalWeightsSaved
  <2> QED BY <1>1, <2>1, <2>2, <2>3, LagInvariance, DapoInvariance, TypeInvariance, PTL DEF Spec
<1>2. CASE ~(SaveFreq > 0)
  <2>1. FinalWeightsSaved
    BY <1>2 DEF FinalWeightsSaved
  <2> QED BY <2>1, PTL
<1> QED BY <1>1, <1>2
=============================================================================
