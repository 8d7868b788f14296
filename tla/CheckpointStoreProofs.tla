------------------------ MODULE CheckpointStoreProofs ------------------------
(***************************************************************************)
(* With max_ckpt_to_keep other than 1, the checkpoint the tracker names can *)
(* be loaded whenever a crash falls, for any number of steps and crashes.   *)
(*                                                                         *)
(* The heart of it is that the list of registered checkpoints grows, and    *)
(* that all but the one just written are at most the tracked step: rotation *)
(* takes from the front and never reaches the last but one.                 *)
(***************************************************************************)
EXTENDS CheckpointStore, TLAPS, SequenceTheorems

Increasing(s) == \A i, j \in 1 .. Len(s) : i < j => s[i] < s[j]

(* What is registered was tracked before, as long as nothing is being saved *)
(* and until the present step is registered itself.                         *)
ListedWereTracked ==
    /\ spc \in {"idle", "mkdir", "actor", "register"} =>
          \/ spc = "idle" /\ tracker = Torn /\ saved = << >>
          \/ tracker # Torn /\ \A i \in 1 .. Len(saved) : saved[i] <= tracker
    /\ spc \in {"data", "open"} =>
          tracker # Torn /\ \A i \in 1 .. Len(saved) - 1 : saved[i] <= tracker

(* The save in progress is of a later step than the tracked one, ...        *)
SavingLater ==
    /\ spc # "idle" => cur \in Steps
    /\ spc \notin {"idle", "write"} => tracker < cur
    /\ spc \in {"data", "open", "write"} => saved # << >> /\ saved[Len(saved)] = cur
    /\ spc = "write" => tracker = Torn

(* ... and what it has written so far is there.                             *)
WrittenSoFar ==
    /\ spc \notin {"idle", "mkdir"} => cur \in dirs
    /\ spc \in {"register", "data", "open", "write"} => actor[cur] # Missing
    /\ spc \in {"open", "write"} => data[cur] # Missing

StoreInv ==
    /\ StoreTypeOK
    /\ Increasing(saved)
    /\ ListedWereTracked
    /\ SavingLater
    /\ WrittenSoFar
    /\ TrackedIsLoadable
    /\ RotationKeepsWhatItLists

-----------------------------------------------------------------------------
(* Dropping the n first of an increasing list of paths keeps the others, in  *)
(* the list and on disk.                                                    *)
LEMMA EvictKeepsTheRest ==
    ASSUME actor \in [Steps -> Nat \cup {Missing}],
           NEW paths \in Seq(Steps), Increasing(paths),
           NEW n \in 0 .. Len(paths), Evict(paths, n)
    PROVE  /\ saved' \in Seq(Steps)
           /\ Len(saved') = Len(paths) - n
           /\ \A i \in 1 .. Len(saved') : i + n \in 1 .. Len(paths) /\ saved'[i] = paths[i + n]
           /\ Increasing(saved')
           /\ actor' \in [Steps -> Nat \cup {Missing}]
           /\ \A i \in n + 1 .. Len(paths) : actor'[paths[i]] = actor[paths[i]]
           /\ \A k \in Steps : (\A i \in 1 .. n : paths[i] # k) => actor'[k] = actor[k]
<1>0. Len(paths) \in Nat /\ n \in Nat /\ n <= Len(paths)
  OBVIOUS
<1>1. \A i \in 1 .. Len(paths) : paths[i] \in Steps
  BY ElementOfSeq
<1>2. /\ saved' \in Seq(Steps)
      /\ Len(saved') = Len(paths) - n
      /\ \A i \in 1 .. Len(paths) - n : saved'[i] = paths[i + n]
  <2>1. saved' = SubSeq(paths, n + 1, Len(paths))
    BY DEF Evict
  <2>2. \A i \in n + 1 .. Len(paths) : paths[i] \in Steps
    BY <1>0, <1>1
  <2>3. /\ SubSeq(paths, n + 1, Len(paths)) \in Seq(Steps)
        /\ Len(SubSeq(paths, n + 1, Len(paths))) = 
             IF n + 1 <= Len(paths) THEN Len(paths) - (n + 1) + 1 ELSE 0
        /\ \A i \in 1 .. Len(paths) - (n + 1) + 1 :
              SubSeq(paths, n + 1, Len(paths))[i] = paths[n + 1 + i - 1]
    BY <1>0, <2>2, SubSeqProperties
  <2>4. \A i \in 1 .. Len(paths) - n :
            i \in 1 .. Len(paths) - (n + 1) + 1 /\ n + 1 + i - 1 = i + n
    BY <1>0
  <2>5. (IF n + 1 <= Len(paths) THEN Len(paths) - (n + 1) + 1 ELSE 0) = Len(paths) - n
    BY <1>0
  <2>6. ASSUME NEW i \in 1 .. Len(paths) - n PROVE saved'[i] = paths[i + n]
    BY <2>1, <2>3, <2>4
  <2> QED BY <2>1, <2>3, <2>5, <2>6
<1>3. \A i \in 1 .. Len(saved') : i + n \in 1 .. Len(paths) /\ saved'[i] = paths[i + n]
  BY <1>0, <1>2
<1>4. Increasing(saved')
  <2> SUFFICES ASSUME NEW i \in 1 .. Len(saved'), NEW j \in 1 .. Len(saved'), i < j
               PROVE  saved'[i] < saved'[j]
    BY DEF Increasing
  <2>1. i + n < j + n /\ i + n \in 1 .. Len(paths) /\ j + n \in 1 .. Len(paths)
    BY <1>0, <1>2
  <2>2. paths[i + n] < paths[j + n]
    BY <2>1 DEF Increasing
  <2> QED BY <1>3, <2>2
<1>5. actor' \in [Steps -> Nat \cup {Missing}]
  BY DEF Evict, Missing
<1>6. ASSUME NEW k \in Steps, \A i \in 1 .. n : paths[i] # k
      PROVE  actor'[k] = actor[k]
  BY <1>6 DEF Evict
<1>7. ASSUME NEW i \in n + 1 .. Len(paths)
      PROVE  actor'[paths[i]] = actor[paths[i]]
  <2>1. i \in 1 .. Len(paths) /\ paths[i] \in Steps
    BY <1>0, <1>1
  <2>2. ASSUME NEW j \in 1 .. n PROVE paths[j] # paths[i]
    <3>1. j \in 1 .. Len(paths) /\ j < i
      BY <1>0
    <3>2. paths[j] \in Int /\ paths[i] \in Int /\ paths[j] < paths[i]
      BY <1>1, <2>1, <3>1, MaxStepAssumption DEF Increasing, Steps
    <3> QED BY <3>2
  <2> QED BY <1>6, <2>1, <2>2
<1> QED BY <1>2, <1>3, <1>4, <1>5, <1>6, <1>7

(* What the other lemmas need of the list of registered checkpoints.        *)
LEMMA SavedFacts ==
    ASSUME StoreInv
    PROVE  /\ Len(saved) \in Nat
           /\ \A i \in 1 .. Len(saved) : saved[i] \in Steps
           /\ \A i \in 1 .. Len(saved), j \in 1 .. Len(saved) : i # j => saved[i] # saved[j]
<1>1. saved \in Seq(Steps) /\ Len(saved) \in Nat
  BY DEF StoreInv, StoreTypeOK
<1>2. \A i \in 1 .. Len(saved) : saved[i] \in Steps /\ saved[i] \in Int
  BY <1>1, ElementOfSeq, MaxStepAssumption DEF Steps
<1>3. ASSUME NEW i \in 1 .. Len(saved), NEW j \in 1 .. Len(saved), i # j
      PROVE  saved[i] # saved[j]
  <2>1. i < j \/ j < i
    BY <1>3, <1>1
  <2> QED BY <2>1, <1>2 DEF StoreInv, Increasing
<1> QED BY <1>1, <1>2, <1>3

LEMMA EnsureCapacityInv ==
    ASSUME StoreInv, MaxKeep # 1, NEW k \in Steps, CanSave(k), EnsureCapacity(k)
    PROVE  StoreInv'
<1> DEFINE n == Len(saved) - MaxKeep + 1
<1>0. /\ tracker # Torn /\ tracker < k /\ tracker \in Int /\ k \in Int
      /\ \A i \in 1 .. Len(saved) : saved[i] <= tracker /\ saved[i] \in Steps
      /\ Len(saved) \in Nat /\ saved \in Seq(Steps)
      /\ MaxKeep \in Nat
  BY SavedFacts, MaxKeepAssumption, MaxStepAssumption
     DEF StoreInv, StoreTypeOK, CanSave, EnsureCapacity, ListedWereTracked, Steps, Torn, NoTracker
<1>1. /\ spc = "idle" /\ spc' = "mkdir" /\ cur' = k
      /\ UNCHANGED <<dirs, data, tracker>>
  BY DEF EnsureCapacity
<1>2. CASE ~(MaxKeep > 1 /\ Len(saved) >= MaxKeep)
  <2>1. UNCHANGED <<saved, actor>>
    BY <1>2 DEF EnsureCapacity
  <2> QED BY <1>0, <1>1, <2>1 DEF StoreInv, StoreTypeOK, Increasing, ListedWereTracked,
               SavingLater, WrittenSoFar, TrackedIsLoadable, RotationKeepsWhatItLists
<1>3. CASE MaxKeep > 1 /\ Len(saved) >= MaxKeep
  <2>1. Evict(saved, n) /\ n \in 0 .. Len(saved) /\ n < Len(saved)
    BY <1>0, <1>3 DEF EnsureCapacity
  <2>2. /\ saved' \in Seq(Steps)
        /\ Len(saved') = Len(saved) - n
        /\ \A i \in 1 .. Len(saved') : i + n \in 1 .. Len(saved) /\ saved'[i] = saved[i + n]
        /\ Increasing(saved')
        /\ actor' \in [Steps -> Nat \cup {Missing}]
        /\ \A i \in n + 1 .. Len(saved) : actor'[saved[i]] = actor[saved[i]]
        /\ \A s \in Steps : (\A i \in 1 .. n : saved[i] # s) => actor'[s] = actor[s]
    <3> HIDE DEF n
    <3> QED BY <2>1, <1>0, EvictKeepsTheRest DEF StoreInv, StoreTypeOK
  <2>3. StoreTypeOK'
    BY <1>1, <2>2 DEF StoreInv, StoreTypeOK
  <2>4. ListedWereTracked'
    BY <1>0, <1>1, <2>2 DEF ListedWereTracked
  <2>5. SavingLater' /\ WrittenSoFar'
    BY <1>0, <1>1 DEF SavingLater, WrittenSoFar
  <2>6. tracker \in Steps => \A i \in 1 .. n : saved[i] # tracker
    <3> SUFFICES ASSUME NEW i \in 1 .. n PROVE saved[i] < tracker
      BY <1>0 DEF Steps
    <3>1. i \in 1 .. Len(saved) /\ Len(saved) \in 1 .. Len(saved) /\ i < Len(saved)
      BY <1>0, <2>1
    <3>2. saved[i] < saved[Len(saved)] /\ saved[Len(saved)] <= tracker
      BY <3>1, <1>0 DEF StoreInv, Increasing
    <3>3. saved[i] \in Int /\ saved[Len(saved)] \in Int
      BY <3>1, <1>0, MaxStepAssumption DEF Steps
    <3> QED BY <3>2, <3>3, <1>0
  <2>7. TrackedIsLoadable'
    BY <1>1, <2>2, <2>6 DEF StoreInv, TrackedIsLoadable
  <2>8. \A i \in 1 .. Len(saved') : actor'[saved'[i]] # Missing
    <3> SUFFICES ASSUME NEW i \in 1 .. Len(saved') PROVE actor'[saved'[i]] # Missing
      OBVIOUS
    <3>1. i + n \in n + 1 .. Len(saved) /\ saved'[i] = saved[i + n]
      BY <1>0, <2>1, <2>2
    <3> QED BY <3>1, <2>2 DEF StoreInv, RotationKeepsWhatItLists
  <2>9. RotationKeepsWhatItLists'
    BY <1>0, <1>3, <2>2, <2>8 DEF RotationKeepsWhatItLists
  <2> QED BY <2>2, <2>3, <2>4, <2>5, <2>7, <2>9 DEF StoreInv
<1> QED BY <1>2, <1>3

LEMMA MakeDirectoryInv == ASSUME StoreInv, MakeDirectory PROVE StoreInv'
<1>0. /\ spc = "mkdir" /\ spc' = "actor"
      /\ dirs' = dirs \cup {cur} /\ actor' = [actor EXCEPT ![cur] = Missing]
      /\ UNCHANGED <<data, tracker, saved, cur>>
  BY DEF MakeDirectory
<1>1. /\ cur \in Steps /\ tracker < cur /\ tracker # Torn
      /\ \A i \in 1 .. Len(saved) : saved[i] <= tracker
      /\ tracker \in Int /\ cur \in Int
  BY <1>0, MaxStepAssumption
     DEF StoreInv, StoreTypeOK, ListedWereTracked, SavingLater, Steps, Torn, NoTracker
<1>2. actor' \in [Steps -> Nat \cup {Missing}] /\ \A s \in Steps \ {cur} : actor'[s] = actor[s]
  BY <1>0, <1>1 DEF StoreInv, StoreTypeOK
<1>3. StoreTypeOK'
  BY <1>0, <1>1, <1>2 DEF StoreInv, StoreTypeOK
<1>4. TrackedIsLoadable'
  BY <1>0, <1>1, <1>2 DEF StoreInv, TrackedIsLoadable
<1>5. \A i \in 1 .. Len(saved) : saved[i] \in Steps \ {cur}
  BY <1>1, SavedFacts, MaxStepAssumption DEF Steps
<1>6. RotationKeepsWhatItLists'
  BY <1>0, <1>2, <1>5 DEF StoreInv, RotationKeepsWhatItLists
<1>7. ListedWereTracked' /\ SavingLater' /\ WrittenSoFar'
  BY <1>0, <1>1 DEF StoreInv, ListedWereTracked, SavingLater, WrittenSoFar
<1> QED BY <1>0, <1>3, <1>4, <1>6, <1>7 DEF StoreInv, Increasing

LEMMA WriteActorInv ==
    ASSUME StoreInv, NEW w \in Nat, WriteActor(w) PROVE StoreInv'
<1>0. /\ spc = "actor" /\ spc' = "register"
      /\ actor' = [actor EXCEPT ![cur] = w]
      /\ UNCHANGED <<dirs, data, tracker, saved, cur>>
      /\ cur \in Steps /\ w # Missing
  BY DEF WriteActor, StoreInv, SavingLater, Missing
<1>1. /\ actor' \in [Steps -> Nat \cup {Missing}] /\ actor'[cur] = w
      /\ \A s \in Steps : actor[s] # Missing => actor'[s] # Missing
  BY <1>0 DEF StoreInv, StoreTypeOK
<1>2. StoreTypeOK' /\ TrackedIsLoadable'
  BY <1>0, <1>1 DEF StoreInv, StoreTypeOK, TrackedIsLoadable
<1>3. RotationKeepsWhatItLists'
  BY <1>0, <1>1, SavedFacts DEF StoreInv, RotationKeepsWhatItLists
<1>4. ListedWereTracked' /\ SavingLater' /\ WrittenSoFar'
  BY <1>0, <1>1 DEF StoreInv, ListedWereTracked, SavingLater, WrittenSoFar
<1> QED BY <1>0, <1>2, <1>3, <1>4 DEF StoreInv, Increasing


LEMMA RegisterInv == ASSUME StoreInv, MaxKeep # 1, Register PROVE StoreInv'
<1> DEFINE paths == Append(saved, cur)
           n == Len(paths) - MaxKeep
<1>0. /\ spc = "register" /\ spc' = "data"
      /\ UNCHANGED <<dirs, data, tracker, cur>>
      /\ cur \in Steps /\ cur \in Int /\ tracker < cur /\ tracker # Torn /\ tracker \in Int
      /\ cur \in dirs /\ actor[cur] # Missing
      /\ \A i \in 1 .. Len(saved) : saved[i] <= tracker /\ saved[i] \in Steps /\ saved[i] \in Int
      /\ Len(saved) \in Nat /\ saved \in Seq(Steps)
      /\ MaxKeep \in Nat
  BY SavedFacts, MaxKeepAssumption, MaxStepAssumption
     DEF StoreInv, StoreTypeOK, Register, ListedWereTracked, SavingLater, WrittenSoFar,
         Steps, Torn, NoTracker
<1>1. /\ paths \in Seq(Steps) /\ Len(paths) = Len(saved) + 1
      /\ \A i \in 1 .. Len(saved) : i \in 1 .. Len(paths) /\ paths[i] = saved[i]
      /\ paths[Len(paths)] = cur
  BY <1>0
<1>2. Increasing(paths)
  <2> SUFFICES ASSUME NEW i \in 1 .. Len(paths), NEW j \in 1 .. Len(paths), i < j
               PROVE  paths[i] < paths[j]
    BY DEF Increasing
  <2>1. i \in 1 .. Len(saved) /\ (j \in 1 .. Len(saved) \/ j = Len(paths))
    BY <1>0, <1>1
  <2>2. CASE j \in 1 .. Len(saved)
    BY <1>1, <2>1, <2>2 DEF StoreInv, Increasing
  <2>3. CASE j = Len(paths)
    BY <1>0, <1>1, <2>1, <2>3
  <2> QED BY <2>1, <2>2, <2>3
<1>3. \A i \in 1 .. Len(paths) : actor[paths[i]] # Missing /\ paths[i] \in Steps
  <2> SUFFICES ASSUME NEW i \in 1 .. Len(paths)
               PROVE  actor[paths[i]] # Missing /\ paths[i] \in Steps
    OBVIOUS
  <2>1. i \in 1 .. Len(saved) \/ i = Len(paths)
    BY <1>0, <1>1
  <2> QED BY <1>0, <1>1, <2>1 DEF StoreInv, RotationKeepsWhatItLists
<1>4. CASE ~(MaxKeep > 0 /\ Len(paths) > MaxKeep)
  <2>1. saved' = paths /\ UNCHANGED actor
    BY <1>4 DEF Register
  <2>2. StoreTypeOK' /\ TrackedIsLoadable'
    BY <1>0, <1>1, <2>1 DEF StoreInv, StoreTypeOK, TrackedIsLoadable
  <2>3. Increasing(saved')
    BY <1>2, <2>1
  <2>4. ListedWereTracked'
    BY <1>0, <1>1, <2>1 DEF ListedWereTracked
  <2>5. SavingLater' /\ WrittenSoFar'
    BY <1>0, <1>1, <2>1 DEF SavingLater, WrittenSoFar
  <2>6. RotationKeepsWhatItLists'
    BY <1>0, <1>1, <1>3, <1>4, <2>1 DEF RotationKeepsWhatItLists
  <2> HIDE DEF paths
  <2> QED BY <2>2, <2>3, <2>4, <2>5, <2>6 DEF StoreInv, Increasing
<1>5. CASE MaxKeep > 0 /\ Len(paths) > MaxKeep
  <2>1. Evict(paths, n) /\ n \in 0 .. Len(paths) /\ n < Len(saved) /\ n \in Nat
    BY <1>0, <1>1, <1>5 DEF Register
  <2>2. /\ saved' \in Seq(Steps)
        /\ Len(saved') = Len(paths) - n
        /\ \A i \in 1 .. Len(saved') : i + n \in 1 .. Len(paths) /\ saved'[i] = paths[i + n]
        /\ Increasing(saved')
        /\ actor' \in [Steps -> Nat \cup {Missing}]
        /\ \A i \in n + 1 .. Len(paths) : actor'[paths[i]] = actor[paths[i]]
        /\ \A s \in Steps : (\A i \in 1 .. n : paths[i] # s) => actor'[s] = actor[s]
    <3> HIDE DEF n, paths
    <3> QED BY <2>1, <1>1, <1>2, EvictKeepsTheRest DEF StoreInv, StoreTypeOK
  <2> HIDE DEF paths, n
  <2>3. StoreTypeOK'
    BY <1>0, <2>2 DEF StoreInv, StoreTypeOK
  <2>4. Len(saved') \in Nat /\ Len(saved') >= 2 /\ saved'[Len(saved')] = cur
    BY <1>0, <1>1, <2>1, <2>2
  <2>5. \A i \in 1 .. Len(saved') - 1 : saved'[i] <= tracker
    <3> SUFFICES ASSUME NEW i \in 1 .. Len(saved') - 1 PROVE saved'[i] <= tracker
      OBVIOUS
    <3>1. i \in 1 .. Len(saved') /\ i + n \in 1 .. Len(saved)
      BY <1>0, <1>1, <2>1, <2>2, <2>4
    <3> QED BY <1>0, <1>1, <2>2, <3>1
  <2>6. ListedWereTracked'
    BY <1>0, <2>5 DEF ListedWereTracked
  <2>7. actor'[cur] # Missing
    BY <1>0, <1>1, <2>1, <2>2
  <2>8. SavingLater' /\ WrittenSoFar'
    BY <1>0, <2>4, <2>7 DEF SavingLater, WrittenSoFar
  <2>9. tracker \in Steps => \A i \in 1 .. n : paths[i] # tracker
    <3> SUFFICES ASSUME NEW i \in 1 .. n PROVE paths[i] < tracker
      BY <1>0
    <3>1. i \in 1 .. Len(saved) /\ Len(saved) \in 1 .. Len(saved) /\ i < Len(saved)
      BY <1>0, <2>1
    <3>2. saved[i] < saved[Len(saved)] /\ saved[Len(saved)] <= tracker
      BY <3>1, <1>0 DEF StoreInv, Increasing
    <3> QED BY <3>1, <3>2, <1>0, <1>1
  <2>10. TrackedIsLoadable'
    BY <1>0, <2>2, <2>9 DEF StoreInv, TrackedIsLoadable
  <2>11. \A i \in 1 .. Len(saved') : actor'[saved'[i]] # Missing
    <3> SUFFICES ASSUME NEW i \in 1 .. Len(saved') PROVE actor'[saved'[i]] # Missing
      OBVIOUS
    <3>1. /\ i + n \in n + 1 .. Len(paths) /\ i + n \in 1 .. Len(paths)
          /\ saved'[i] = paths[i + n]
      BY <1>0, <1>1, <2>1, <2>2
    <3> QED BY <3>1, <2>2, <1>3
  <2>12. Len(saved') = MaxKeep
    BY <1>0, <1>1, <2>2 DEF n
  <2>13. RotationKeepsWhatItLists'
    BY <1>0, <2>11, <2>12 DEF RotationKeepsWhatItLists
  <2> QED BY <2>2, <2>3, <2>6, <2>8, <2>10, <2>13 DEF StoreInv, Increasing
<1> QED BY <1>4, <1>5

LEMMA WriteDataInv ==
    ASSUME StoreInv, NEW p \in Nat, WriteData(p) PROVE StoreInv'
<1>0. /\ spc = "data" /\ spc' = "open"
      /\ data' = [data EXCEPT ![cur] = p]
      /\ UNCHANGED <<dirs, actor, tracker, saved, cur>>
      /\ cur \in Steps /\ p # Missing
  BY DEF WriteData, StoreInv, SavingLater, Missing
<1>1. /\ data' \in [Steps -> Nat \cup {Missing}] /\ data'[cur] = p
      /\ \A s \in Steps : data[s] # Missing => data'[s] # Missing
  BY <1>0 DEF StoreInv, StoreTypeOK
<1>2. StoreTypeOK' /\ TrackedIsLoadable' /\ RotationKeepsWhatItLists'
  BY <1>0, <1>1 DEF StoreInv, StoreTypeOK, TrackedIsLoadable, RotationKeepsWhatItLists
<1>3. ListedWereTracked' /\ SavingLater' /\ WrittenSoFar'
  BY <1>0, <1>1 DEF StoreInv, ListedWereTracked, SavingLater, WrittenSoFar
<1> QED BY <1>0, <1>2, <1>3 DEF StoreInv, Increasing

LEMMA OpenTrackerInv == ASSUME StoreInv, OpenTracker PROVE StoreInv'
<1>0. /\ spc = "open" /\ spc' = "write" /\ tracker' = Torn
      /\ UNCHANGED <<dirs, actor, data, saved, cur>>
      /\ Torn \notin Steps
  BY MaxStepAssumption DEF OpenTracker, Torn, Steps
<1>1. StoreTypeOK' /\ TrackedIsLoadable' /\ RotationKeepsWhatItLists'
  BY <1>0 DEF StoreInv, StoreTypeOK, TrackedIsLoadable, RotationKeepsWhatItLists
<1>2. ListedWereTracked' /\ SavingLater' /\ WrittenSoFar'
  BY <1>0 DEF StoreInv, ListedWereTracked, SavingLater, WrittenSoFar
<1> QED BY <1>0, <1>1, <1>2 DEF StoreInv, Increasing

(* The tracker comes to name a checkpoint that is complete, and the latest  *)
(* of those registered.                                                     *)
LEMMA WriteTrackerInv == ASSUME StoreInv, WriteTracker PROVE StoreInv'
<1>0. /\ spc = "write" /\ spc' = "idle" /\ tracker' = cur
      /\ UNCHANGED <<dirs, actor, data, saved, cur>>
      /\ cur \in Steps /\ cur # Torn
      /\ cur \in dirs /\ actor[cur] # Missing /\ data[cur] # Missing
      /\ saved # << >> /\ saved[Len(saved)] = cur
  BY MaxStepAssumption DEF WriteTracker, StoreInv, SavingLater, WrittenSoFar, Torn, Steps
<1>1. StoreTypeOK' /\ TrackedIsLoadable' /\ RotationKeepsWhatItLists'
  BY <1>0 DEF StoreInv, StoreTypeOK, TrackedIsLoadable, RotationKeepsWhatItLists
<1>2. \A i \in 1 .. Len(saved) : saved[i] <= cur
  <2> SUFFICES ASSUME NEW i \in 1 .. Len(saved) PROVE saved[i] <= cur
    OBVIOUS
  <2>1. Len(saved) \in 1 .. Len(saved) /\ i \in Int /\ Len(saved) \in Nat
    BY <1>0, SavedFacts
  <2>2. saved[i] \in Int /\ cur \in Int
    BY <1>0, SavedFacts, MaxStepAssumption DEF Steps
  <2>3. CASE i = Len(saved)
    BY <2>2, <2>3, <1>0
  <2>4. CASE i < Len(saved)
    BY <2>1, <2>2, <2>4, <1>0 DEF StoreInv, Increasing
  <2> QED BY <2>1, <2>3, <2>4
<1>3. ListedWereTracked' /\ SavingLater' /\ WrittenSoFar'
  BY <1>0, <1>2 DEF StoreInv, ListedWereTracked, SavingLater, WrittenSoFar
<1> QED BY <1>0, <1>1, <1>3 DEF StoreInv, Increasing

LEMMA LoseMemoryInv == ASSUME StoreInv, LoseMemory PROVE StoreInv'
<1>0. /\ saved' = << >> /\ cur' = 0 /\ spc' = "idle"
      /\ UNCHANGED <<dirs, actor, data, tracker>>
      /\ Len(<< >>) = 0 /\ MaxKeep \in Nat
  BY MaxKeepAssumption DEF LoseMemory, diskVars
<1>1. StoreTypeOK' /\ TrackedIsLoadable'
  BY <1>0 DEF StoreInv, StoreTypeOK, TrackedIsLoadable
<1>2. Increasing(saved') /\ RotationKeepsWhatItLists'
  BY <1>0 DEF Increasing, RotationKeepsWhatItLists
<1>3. ListedWereTracked' /\ SavingLater' /\ WrittenSoFar'
  BY <1>0 DEF ListedWereTracked, SavingLater, WrittenSoFar
<1> QED BY <1>1, <1>2, <1>3 DEF StoreInv, Increasing

LEMMA StoreInitInv == StoreInit => StoreInv
<1> SUFFICES ASSUME StoreInit PROVE StoreInv
  OBVIOUS
<1>0. MaxKeep \in Nat /\ NoTracker # Torn /\ NoTracker \notin Steps
  BY MaxKeepAssumption, MaxStepAssumption DEF NoTracker, Torn, Steps
<1>1. StoreTypeOK
  BY DEF StoreInit, StoreTypeOK
<1>2. Increasing(saved) /\ RotationKeepsWhatItLists
  BY <1>0 DEF StoreInit, Increasing, RotationKeepsWhatItLists
<1>3. ListedWereTracked /\ SavingLater /\ WrittenSoFar /\ TrackedIsLoadable
  BY <1>0 DEF StoreInit, ListedWereTracked, SavingLater, WrittenSoFar, TrackedIsLoadable
<1> QED BY <1>1, <1>2, <1>3 DEF StoreInv

LEMMA StoreStepInv ==
    ASSUME StoreInv, MaxKeep # 1, [StoreNext]_storeVars PROVE StoreInv'
<1>1. ASSUME NEW k \in Steps, CanSave(k), EnsureCapacity(k) PROVE StoreInv'
  BY <1>1, EnsureCapacityInv
<1>2. ASSUME SaveStep(actor'[cur], data'[cur]) PROVE StoreInv'
  <2>1. CASE MakeDirectory
    BY <2>1, MakeDirectoryInv
  <2>2. CASE WriteActor(actor'[cur])
    <3>1. actor'[cur] \in Nat
      BY <2>2 DEF WriteActor
    <3> QED BY <2>2, <3>1, WriteActorInv
  <2>3. CASE Register
    BY <2>3, RegisterInv
  <2>4. CASE WriteData(data'[cur])
    <3>1. data'[cur] \in Nat
      BY <2>4 DEF WriteData
    <3> QED BY <2>4, <3>1, WriteDataInv
  <2>5. CASE OpenTracker
    BY <2>5, OpenTrackerInv
  <2>6. CASE WriteTracker
    BY <2>6, WriteTrackerInv
  <2> QED BY <1>2, <2>1, <2>2, <2>3, <2>4, <2>5, <2>6 DEF SaveStep
<1>3. CASE LoseMemory
  BY <1>3, LoseMemoryInv
<1>4. CASE UNCHANGED storeVars
  BY <1>4 DEF storeVars, diskVars, StoreInv, StoreTypeOK, Increasing, ListedWereTracked,
              SavingLater, WrittenSoFar, TrackedIsLoadable, RotationKeepsWhatItLists
<1> QED BY <1>1, <1>2, <1>3, <1>4 DEF StoreNext

LEMMA StoreInvariance == ASSUME MaxKeep # 1 PROVE StoreSpec => []StoreInv
<1>1. StoreInit => StoreInv
  BY StoreInitInv
<1>2. StoreInv /\ [StoreNext]_storeVars => StoreInv'
  BY StoreStepInv
<1> QED BY <1>1, <1>2, PTL DEF StoreSpec

-----------------------------------------------------------------------------
(* Whatever the number of steps, of kept checkpoints (but one) and of       *)
(* crashes: the step the tracker names has its directory, its actor and its *)
(* dataloader state complete, also between any two writes of a later save   *)
(* (_save_checkpoint, ensure_checkpoint_capacity, register_checkpoint).     *)
THEOREM TrackedCheckpointIsLoadable ==
    ASSUME MaxKeep # 1 PROVE StoreSpec => []TrackedIsLoadable
<1>1. StoreInv => TrackedIsLoadable
  BY DEF StoreInv
<1> QED BY <1>1, StoreInvariance, PTL

(* The rotation never lists more than max_ckpt_to_keep checkpoints, nor one *)
(* that it has removed from disk.                                           *)
THEOREM RotationIsExact ==
    ASSUME MaxKeep # 1 PROVE StoreSpec => []RotationKeepsWhatItLists
<1>1. StoreInv => RotationKeepsWhatItLists
  BY DEF StoreInv
<1> QED BY <1>1, StoreInvariance, PTL

=============================================================================
